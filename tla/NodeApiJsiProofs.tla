-------------------------- MODULE NodeApiJsiProofs --------------------------
(***************************************************************************)
(* Proofs about NodeApiJsi for any set of exceptions and source URLs and   *)
(* any depth of the stack: no exception is pending when code of the host   *)
(* runs, the fields of the runtime follow the stack, and outside the       *)
(* building of an error no exception gets lost.                            *)
(***************************************************************************)
EXTENDS NodeApiJsi, SequenceTheorems, FiniteSetTheorems, TLAPS

Frame == OpFrame \cup BuildFrame \cup AccessFrame \cup CallbackFrame

RewriteStages == {"message", "set message", "stack", "set stack"}
SetValueStages == {"value message", "value stack"}

\* What the frame f may be called from, when g is the frame below it.
MayCall(g, f) ==
    /\ f.kind = "op" => \/ g.kind = "callback"
                        \/ g.kind = "build" /\ g.stage \in SetValueStages
    /\ f.kind = "build" => g.kind = "op" /\ g.failed
    /\ f.kind = "access" => g.kind = "build" /\ g.stage \in RewriteStages
    /\ f.kind = "callback" => g.kind = "access" \/ (g.kind = "op" /\ ~g.failed)

FramesNest(s) ==
    /\ s # <<>> => s[1].kind = "op"
    /\ \A i \in 1 .. Len(s) - 1 : MayCall(s[i], s[i + 1])

OneBuild(s) ==
    \A i, j \in 1 .. Len(s) : s[i].kind = "build" /\ s[j].kind = "build" => i = j

\* u is the URL of the innermost script evaluated by the first n frames of s.
Evals(f) == f.kind = "op" /\ f.evals
IsURL(s, n, u) ==
    \/ u = NoURL /\ \A i \in 1 .. n : ~Evals(s[i])
    \/ \E i \in 1 .. n : /\ Evals(s[i]) /\ s[i].url = u
                         /\ \A j \in i + 1 .. n : ~Evals(s[j])

\* AutoRestore has saved the URL of what is below the operation.
SavedURLs(s) ==
    \A i \in 1 .. Len(s) : s[i].kind = "op" => IsURL(s, i - 1, s[i].before)

StackInv(s) ==
    /\ s \in Seq(Frame)
    /\ FramesNest(s)
    /\ OneBuild(s)
    /\ SavedURLs(s)

\* The frames of a class; the operations inside a NodeApiScope are one.
Class(f) == IF f.kind = "op" /\ f.scoped THEN "scoped" ELSE f.kind
Where(s, k) == {i \in 1 .. Len(s) : Class(s[i]) = k}
Count(s, k) == Cardinality(Where(s, k))

\* The fields p, u, ss and hs of the runtime follow the stack s.
Follow(s, p, u, ss, hs) ==
    /\ p \in BOOLEAN
    /\ p <=> \E i \in 1 .. Len(s) : s[i].kind = "build"
    /\ IsURL(s, Len(s), u)
    /\ u \in URL \cup {NoURL}
    /\ hs = Count(s, "scoped")
    /\ ss = 2 * Count(s, "scoped") + Count(s, "callback")

\* Where an exception may be, by the frame that runs.
ExceptionsInv ==
    /\ pending \in Exception \cup {NoException}
    /\ thrown \in Exception \cup {NoException}
    /\ flying \in {NoError, JSINativeException}
                  \cup {JSError(e) : e \in Exception}
    /\ pending # NoException =>
          \/ Running \in {"op", "access"}
          \/ Running = "build" /\ Top.stage \in RewriteStages
          \/ Running = "callback" /\ Top.part \in {"leaving", "crashed"}
    /\ Running = "op" /\ Top.failed => pending # NoException
    /\ thrown # NoException => ScriptRuns
    /\ flying # NoError => Running \in {"host", "callback"}

Sound(s, p, u, ss, hs) == StackInv(s) /\ Follow(s, p, u, ss, hs)
RuntimeInv ==
    Sound(stack, hasPendingJSError, sourceURL, stackScopes, handleScopes)

IInv == RuntimeInv /\ ExceptionsInv

-----------------------------------------------------------------------------
(* Stacks.                                                                 *)

\* t is s with the frame f on top, or with f in the place of its top.
IsPush(s, f, t) ==
    /\ s \in Seq(Frame) /\ f \in Frame /\ t \in Seq(Frame)
    /\ Len(s) \in Nat /\ Len(t) = Len(s) + 1
    /\ \A i \in 1 .. Len(s) : t[i] = s[i]
    /\ t[Len(t)] = f
IsReplace(s, f, t) ==
    /\ s \in Seq(Frame) /\ f \in Frame /\ t \in Seq(Frame)
    /\ Len(s) \in Nat \ {0} /\ Len(t) = Len(s)
    /\ \A i \in 1 .. Len(s) - 1 : t[i] = s[i]
    /\ t[Len(t)] = f

NoBuild(s) == \A i \in 1 .. Len(s) : s[i].kind # "build"

\* The frame f may be put on the stack s.
MayPush(s, f) ==
    /\ s = <<>> => f.kind = "op"
    /\ s # <<>> => MayCall(Last(s), f)
    /\ f.kind = "build" => NoBuild(s)
    /\ f.kind = "op" => IsURL(s, Len(s), f.before)

LEMMA FrameKinds ==
    ASSUME NEW f \in Frame
    PROVE  /\ f.kind \in {"op", "build", "access", "callback"}
           /\ f.kind = "op" => f \in OpFrame
           /\ f.kind = "build" => f \in BuildFrame
           /\ f.kind = "callback" => f \in CallbackFrame
BY DEF Frame, OpFrame, BuildFrame, AccessFrame, CallbackFrame

LEMMA AppendPushes ==
    ASSUME NEW s \in Seq(Frame), NEW f \in Frame
    PROVE  IsPush(s, f, Append(s, f))
BY AppendProperties, LenProperties DEF IsPush

LEMMA TopOfPush ==
    ASSUME NEW s, NEW f, NEW t, IsPush(s, f, t)
    PROVE  Len(t) \in DOMAIN t /\ t[Len(t)] = f
<1>1. DOMAIN t = 1 .. Len(t)
  BY LenProperties DEF IsPush
<1>2. PICK n \in Nat : Len(t) = n + 1
  BY DEF IsPush
<1>3. QED
  BY <1>1, <1>2 DEF IsPush

LEMMA FrontPops ==
    ASSUME NEW s \in Seq(Frame), s # <<>>
    PROVE  IsPush(Front(s), Last(s), s)
<1>1. Len(s) \in Nat \ {0} /\ \A i \in 1 .. Len(s) : s[i] \in Frame
  BY EmptySeq, ElementOfSeq
<1>2. PICK n \in Nat : n = Len(s) - 1
  BY <1>1
<1>3. \A i \in 1 .. n : s[i] \in Frame
  BY <1>1, <1>2
<1>4. /\ SubSeq(s, 1, n) \in Seq(Frame) /\ Len(SubSeq(s, 1, n)) = n
      /\ \A i \in 1 .. n : SubSeq(s, 1, n)[i] = s[i]
  BY <1>3, SubSeqProperties
<1>5. QED
  BY <1>1, <1>2, <1>4 DEF Front, Last, IsPush

LEMMA ReplaceReplaces ==
    ASSUME NEW s \in Seq(Frame), s # <<>>, NEW f \in Frame
    PROVE  IsReplace(s, f, ReplaceAt(s, Len(s), f))
<1>1. PICK n \in Nat \ {0} : n = Len(s)
  BY EmptySeq, LenProperties
<1>2. PICK t : t = [s EXCEPT ![n] = f]
  OBVIOUS
<1>3. /\ t \in Seq(Frame) /\ Len(t) = n
      /\ \A i \in 1 .. n : t[i] = IF i = n THEN f ELSE s[i]
  BY <1>1, <1>2, ExceptSeq, LenProperties
<1>4. t[n] = f /\ \A i \in 1 .. n - 1 : t[i] = s[i]
  BY <1>3
<1>5. IsReplace(s, f, t)
  BY <1>1, <1>3, <1>4 DEF IsReplace
<1>6. QED
  BY <1>1, <1>2, <1>5 DEF ReplaceAt

LEMMA EmptyOrTop ==
    ASSUME NEW s \in Seq(Frame)
    PROVE  /\ Len(s) \in Nat
           /\ s = <<>> <=> Len(s) = 0
           /\ s # <<>> => Last(s) = s[Len(s)] /\ Last(s) \in Frame
BY EmptySeq, LenProperties, ElementOfSeq DEF Last

LEMMA TwoBelow ==
    ASSUME NEW s \in Seq(Frame), s # <<>>, Front(s) # <<>>
    PROVE  /\ Op(s) = Last(Front(s))
           /\ BelowOp(s) = Front(Front(s))
<1>1. IsPush(Front(s), Last(s), s)
  BY FrontPops
<1>2. PICK a : a = Front(s)
  OBVIOUS
<1>3. IsPush(Front(a), Last(a), a)
  BY <1>1, <1>2, FrontPops DEF IsPush
<1>4. PICK n \in Nat : n = Len(s) - 2
  BY <1>1, <1>2, <1>3 DEF IsPush
<1>5. Len(a) = n + 1 /\ Len(s) = n + 2 /\ Len(Front(a)) = n
  BY <1>1, <1>2, <1>3, <1>4 DEF IsPush
<1>6. /\ \A i \in 1 .. n : s[i] \in Frame
      /\ \A i \in 1 .. n : Front(a)[i] = s[i]
  BY <1>1, <1>2, <1>3, <1>5, ElementOfSeq DEF IsPush
<1>7. /\ SubSeq(s, 1, n) \in Seq(Frame) /\ Len(SubSeq(s, 1, n)) = n
      /\ \A i \in 1 .. n : SubSeq(s, 1, n)[i] = s[i]
  BY <1>6, SubSeqProperties
<1>8. SubSeq(s, 1, n) = Front(a)
  BY <1>3, <1>5, <1>6, <1>7, SeqEqual DEF IsPush
<1>9. Op(s) = s[n + 1] /\ Last(a) = a[n + 1] /\ a[n + 1] = s[n + 1]
  BY <1>1, <1>2, <1>5 DEF Op, Last, IsPush
<1>10. QED
  BY <1>2, <1>4, <1>8, <1>9 DEF BelowOp

-----------------------------------------------------------------------------
(* The invariant of a stack, when a frame is pushed, popped or replaced.   *)

LEMMA URLBelow ==
    ASSUME NEW s, NEW t, NEW n \in Nat, NEW u,
           \A i \in 1 .. n : /\ Evals(t[i]) <=> Evals(s[i])
                             /\ Evals(s[i]) => t[i].url = s[i].url
    PROVE  IsURL(t, n, u) <=> IsURL(s, n, u)
<1>1. ASSUME NEW a, NEW b, IsURL(a, n, u),
             \A i \in 1 .. n : /\ Evals(b[i]) <=> Evals(a[i])
                               /\ Evals(a[i]) => b[i].url = a[i].url
      PROVE  IsURL(b, n, u)
  <2>1. CASE u = NoURL /\ \A i \in 1 .. n : ~Evals(a[i])
    BY <1>1, <2>1 DEF IsURL
  <2>2. CASE \E i \in 1 .. n : /\ Evals(a[i]) /\ a[i].url = u
                               /\ \A j \in i + 1 .. n : ~Evals(a[j])
    <3>1. PICK i \in 1 .. n : /\ Evals(a[i]) /\ a[i].url = u
                              /\ \A j \in i + 1 .. n : ~Evals(a[j])
      BY <2>2
    <3>2. Evals(b[i]) /\ b[i].url = u
      BY <1>1, <3>1
    <3>3. \A j \in i + 1 .. n : ~Evals(b[j])
      BY <1>1, <3>1
    <3>4. QED
      BY <3>2, <3>3 DEF IsURL
  <2>3. QED
    BY <1>1, <2>1, <2>2 DEF IsURL
<1>2. QED
  BY <1>1

\* The URL after one frame more.
LEMMA URLPush ==
    ASSUME NEW s, NEW t, NEW f, IsPush(s, f, t), NEW u
    PROVE  /\ Evals(f) => IsURL(t, Len(t), f.url)
           /\ ~Evals(f) => (IsURL(t, Len(t), u) <=> IsURL(s, Len(s), u))
           /\ \A i \in 0 .. Len(s) : IsURL(t, i, u) <=> IsURL(s, i, u)
<1>1. PICK n \in Nat : n = Len(s) /\ Len(t) = n + 1
  BY DEF IsPush
<1>2. t[n + 1] = f /\ \A i \in 1 .. n : t[i] = s[i]
  BY <1>1 DEF IsPush
<1>3. \A i \in 0 .. n : IsURL(t, i, u) <=> IsURL(s, i, u)
  <2> SUFFICES ASSUME NEW i \in 0 .. n
               PROVE  IsURL(t, i, u) <=> IsURL(s, i, u)
    OBVIOUS
  <2>1. \A j \in 1 .. i : t[j] = s[j]
    BY <1>1, <1>2
  <2>2. i \in Nat
    BY <1>1
  <2>3. QED
    BY <2>1, <2>2, URLBelow
<1>4. ASSUME Evals(f)
      PROVE  IsURL(t, n + 1, f.url)
  <2>1. n + 1 \in 1 .. n + 1 /\ \A j \in (n + 1) + 1 .. n + 1 : ~Evals(t[j])
    BY <1>1
  <2>2. QED
    BY <1>2, <1>4, <2>1 DEF IsURL
<1>5. ASSUME ~Evals(f)
      PROVE  IsURL(t, n + 1, u) <=> IsURL(t, n, u)
  <2>1. ~Evals(t[n + 1])
    BY <1>2, <1>5
  <2>2. ASSUME IsURL(t, n, u)
        PROVE  IsURL(t, n + 1, u)
    <3>1. CASE u = NoURL /\ \A i \in 1 .. n : ~Evals(t[i])
      <4>1. \A i \in 1 .. n + 1 : ~Evals(t[i])
        BY <1>1, <2>1, <3>1
      <4>2. QED
        BY <3>1, <4>1 DEF IsURL
    <3>2. CASE \E i \in 1 .. n : /\ Evals(t[i]) /\ t[i].url = u
                                 /\ \A j \in i + 1 .. n : ~Evals(t[j])
      <4>1. PICK i \in 1 .. n : /\ Evals(t[i]) /\ t[i].url = u
                                /\ \A j \in i + 1 .. n : ~Evals(t[j])
        BY <3>2
      <4>2. i \in 1 .. n + 1 /\ \A j \in i + 1 .. n + 1 : ~Evals(t[j])
        BY <1>1, <2>1, <4>1
      <4>3. QED
        BY <4>1, <4>2 DEF IsURL
    <3>3. QED
      BY <2>2, <3>1, <3>2 DEF IsURL
  <2>3. ASSUME IsURL(t, n + 1, u)
        PROVE  IsURL(t, n, u)
    <3>1. CASE u = NoURL /\ \A i \in 1 .. n + 1 : ~Evals(t[i])
      <4>1. \A i \in 1 .. n : ~Evals(t[i])
        BY <1>1, <3>1
      <4>2. QED
        BY <3>1, <4>1 DEF IsURL
    <3>2. CASE \E i \in 1 .. n + 1 : /\ Evals(t[i]) /\ t[i].url = u
                                     /\ \A j \in i + 1 .. n + 1 : ~Evals(t[j])
      <4>1. PICK i \in 1 .. n + 1 :
                      /\ Evals(t[i]) /\ t[i].url = u
                      /\ \A j \in i + 1 .. n + 1 : ~Evals(t[j])
        BY <3>2
      <4>2. i # n + 1
        BY <2>1, <4>1
      <4>3. i \in 1 .. n /\ \A j \in i + 1 .. n : ~Evals(t[j])
        BY <1>1, <4>1, <4>2
      <4>4. QED
        BY <4>1, <4>3 DEF IsURL
    <3>3. QED
      BY <2>3, <3>1, <3>2 DEF IsURL
  <2>4. QED
    BY <2>2, <2>3
<1>6. n \in 0 .. n
  BY <1>1
<1>7. QED
  BY <1>1, <1>3, <1>4, <1>5, <1>6

LEMMA PushStack ==
    ASSUME NEW s, NEW t, NEW f, IsPush(s, f, t), StackInv(s), MayPush(s, f)
    PROVE  StackInv(t)
<1>1. PICK n \in Nat : n = Len(s) /\ Len(t) = n + 1
  BY DEF IsPush
<1>2. t[n + 1] = f /\ \A i \in 1 .. n : t[i] = s[i]
  BY <1>1 DEF IsPush
<1>3. s = <<>> <=> n = 0
  BY <1>1, EmptyOrTop DEF IsPush
<1>4. FramesNest(t)
  <2>1. t[1].kind = "op"
    <3>1. CASE n = 0
      BY <1>2, <1>3, <3>1 DEF MayPush
    <3>2. CASE n # 0
      BY <1>1, <1>2, <1>3, <3>2 DEF StackInv, FramesNest
    <3>3. QED
      BY <3>1, <3>2
  <2>2. ASSUME NEW i \in 1 .. n
        PROVE  MayCall(t[i], t[i + 1])
    <3>1. CASE i = n
      BY <1>1, <1>2, <1>3, <3>1 DEF MayPush, Last
    <3>2. CASE i # n
      <4>1. i \in 1 .. n - 1 /\ i + 1 \in 1 .. n
        BY <3>2
      <4>2. MayCall(s[i], s[i + 1])
        BY <1>1, <4>1 DEF StackInv, FramesNest
      <4>3. QED
        BY <1>2, <4>1, <4>2
    <3>3. QED
      BY <3>1, <3>2
  <2>3. QED
    BY <1>1, <2>1, <2>2 DEF FramesNest
<1>5. OneBuild(t)
  <2> SUFFICES ASSUME NEW i \in 1 .. n + 1, NEW j \in 1 .. n + 1,
                      t[i].kind = "build", t[j].kind = "build"
               PROVE  i = j
    BY <1>1 DEF OneBuild
  <2>1. CASE f.kind = "build"
    <3>1. \A k \in 1 .. n : t[k].kind # "build"
      BY <1>1, <1>2, <2>1 DEF MayPush, NoBuild
    <3>2. QED
      BY <3>1
  <2>2. CASE f.kind # "build"
    <3>1. i \in 1 .. n /\ j \in 1 .. n
      BY <1>2, <2>2
    <3>2. QED
      BY <1>1, <1>2, <3>1 DEF StackInv, OneBuild
  <2>3. QED
    BY <2>1, <2>2
<1>6. SavedURLs(t)
  <2> SUFFICES ASSUME NEW i \in 1 .. n + 1, t[i].kind = "op"
               PROVE  IsURL(t, i - 1, t[i].before)
    BY <1>1 DEF SavedURLs
  <2>1. i - 1 \in 0 .. Len(s)
    BY <1>1
  <2>2. IsURL(t, i - 1, t[i].before) <=> IsURL(s, i - 1, t[i].before)
    BY <2>1, URLPush
  <2>3. CASE i = n + 1
    BY <1>1, <1>2, <2>2, <2>3 DEF MayPush
  <2>4. CASE i # n + 1
    BY <1>1, <1>2, <2>2, <2>4 DEF StackInv, SavedURLs
  <2>5. QED
    BY <2>3, <2>4
<1>7. QED
  BY <1>4, <1>5, <1>6 DEF StackInv, IsPush

LEMMA PopStack ==
    ASSUME NEW s, NEW t, NEW f, IsPush(s, f, t), StackInv(t)
    PROVE  StackInv(s) /\ MayPush(s, f)
<1>1. PICK n \in Nat : n = Len(s) /\ Len(t) = n + 1
  BY DEF IsPush
<1>2. t[n + 1] = f /\ \A i \in 1 .. n : t[i] = s[i]
  BY <1>1 DEF IsPush
<1>3. (s = <<>> <=> n = 0) /\ t # <<>>
  BY <1>1, EmptyOrTop DEF IsPush
<1>4. t[1].kind = "op" /\ \A i \in 1 .. n : MayCall(t[i], t[i + 1])
  BY <1>1, <1>3 DEF StackInv, FramesNest
<1>5. FramesNest(s)
  <2>1. s # <<>> => s[1].kind = "op"
    BY <1>1, <1>2, <1>3, <1>4
  <2>2. ASSUME NEW i \in 1 .. n - 1
        PROVE  MayCall(s[i], s[i + 1])
    <3>1. i \in 1 .. n /\ i + 1 \in 1 .. n
      OBVIOUS
    <3>2. QED
      BY <1>2, <1>4, <3>1
  <2>3. QED
    BY <1>1, <2>1, <2>2 DEF FramesNest
<1>6. OneBuild(s)
  BY <1>1, <1>2 DEF StackInv, OneBuild
<1>7. ASSUME NEW i \in 1 .. n + 1, t[i].kind = "op"
      PROVE  IsURL(s, i - 1, t[i].before)
  <2>1. i - 1 \in 0 .. Len(s)
    BY <1>1
  <2>2. IsURL(t, i - 1, t[i].before) <=> IsURL(s, i - 1, t[i].before)
    BY <2>1, URLPush
  <2>3. QED
    BY <1>1, <1>7, <2>2 DEF StackInv, SavedURLs
<1>8. SavedURLs(s)
  BY <1>1, <1>2, <1>7 DEF SavedURLs
<1>9. s = <<>> => f.kind = "op"
  BY <1>2, <1>3, <1>4
<1>10. s # <<>> => MayCall(Last(s), f)
  BY <1>1, <1>2, <1>3, <1>4 DEF Last
<1>11. f.kind = "build" => NoBuild(s)
  BY <1>1, <1>2 DEF StackInv, OneBuild, NoBuild
<1>12. f.kind = "op" => IsURL(s, Len(s), f.before)
  BY <1>1, <1>2, <1>7
<1>13. QED
  BY <1>5, <1>6, <1>8, <1>9, <1>10, <1>11, <1>12 DEF StackInv, MayPush, IsPush

-----------------------------------------------------------------------------
(* The fields of the runtime, when a frame is pushed, popped or replaced.  *)

One(f, k) == IF Class(f) = k THEN 1 ELSE 0

LEMMA CountPush ==
    ASSUME NEW s, NEW t, NEW f, IsPush(s, f, t), NEW k
    PROVE  /\ Count(s, k) \in Nat
           /\ Count(t, k) = Count(s, k) + One(f, k)
<1>1. PICK n \in Nat : n = Len(s) /\ Len(t) = n + 1
  BY DEF IsPush
<1>2. t[n + 1] = f /\ \A i \in 1 .. n : t[i] = s[i]
  BY <1>1 DEF IsPush
<1>3. IsFiniteSet(Where(s, k))
  <2>1. IsFiniteSet(1 .. n)
    BY FS_Interval
  <2>2. QED
    BY <1>1, <2>1, FS_Subset DEF Where
<1>4. Count(s, k) \in Nat
  BY <1>3, FS_CardinalityType DEF Count
<1>5. CASE Class(f) = k
  <2>1. Where(t, k) = Where(s, k) \cup {n + 1}
    BY <1>1, <1>2, <1>5 DEF Where
  <2>2. n + 1 \notin Where(s, k)
    BY <1>1 DEF Where
  <2>3. Count(t, k) = Count(s, k) + 1
    BY <1>3, <2>1, <2>2, FS_AddElement DEF Count
  <2>4. QED
    BY <1>4, <1>5, <2>3 DEF One
<1>6. CASE Class(f) # k
  <2>1. Where(t, k) = Where(s, k)
    BY <1>1, <1>2, <1>6 DEF Where
  <2>2. QED
    BY <1>4, <1>6, <2>1 DEF One, Count
<1>7. QED
  BY <1>5, <1>6

LEMMA BuildPush ==
    ASSUME NEW s, NEW t, NEW f, IsPush(s, f, t)
    PROVE  NoBuild(t) <=> NoBuild(s) /\ f.kind # "build"
<1>1. PICK n \in Nat : n = Len(s) /\ Len(t) = n + 1
  BY DEF IsPush
<1>2. t[n + 1] = f /\ \A i \in 1 .. n : t[i] = s[i]
  BY <1>1 DEF IsPush
<1>3. QED
  BY <1>1, <1>2 DEF NoBuild

LEMMA FollowParts ==
    ASSUME NEW s, NEW p, NEW u, NEW ss, NEW hs
    PROVE  Follow(s, p, u, ss, hs) <=>
              /\ p \in BOOLEAN
              /\ p <=> ~NoBuild(s)
              /\ IsURL(s, Len(s), u)
              /\ u \in URL \cup {NoURL}
              /\ hs = Count(s, "scoped")
              /\ ss = 2 * Count(s, "scoped") + Count(s, "callback")
<1>1. NoBuild(s) <=> ~\E i \in 1 .. Len(s) : s[i].kind = "build"
  BY DEF NoBuild
<1>2. QED
  BY <1>1 DEF Follow

LEMMA PushFollow ==
    ASSUME NEW s, NEW t, NEW f, IsPush(s, f, t),
           NEW p, NEW u, NEW ss, NEW hs, Follow(s, p, u, ss, hs),
           NEW q \in BOOLEAN, q <=> p \/ f.kind = "build",
           NEW v, v = IF Evals(f) THEN f.url ELSE u,
           NEW tt, tt = ss + 2 * One(f, "scoped") + One(f, "callback"),
           NEW ht, ht = hs + One(f, "scoped")
    PROVE  Follow(t, q, v, tt, ht)
<1>1. /\ Count(s, "scoped") \in Nat
      /\ Count(t, "scoped") = Count(s, "scoped") + One(f, "scoped")
      /\ Count(s, "callback") \in Nat
      /\ Count(t, "callback") = Count(s, "callback") + One(f, "callback")
  BY CountPush
<1>2. One(f, "scoped") \in Nat /\ One(f, "callback") \in Nat
  BY DEF One
<1>3. /\ p \in BOOLEAN /\ (p <=> ~NoBuild(s))
      /\ IsURL(s, Len(s), u) /\ u \in URL \cup {NoURL}
      /\ hs = Count(s, "scoped")
      /\ ss = 2 * Count(s, "scoped") + Count(s, "callback")
  BY FollowParts
<1>4. q <=> ~NoBuild(t)
  BY <1>3, BuildPush
<1>5. IsURL(t, Len(t), v)
  <2>1. CASE Evals(f)
    BY <2>1, URLPush
  <2>2. CASE ~Evals(f)
    <3>1. IsURL(t, Len(t), u) <=> IsURL(s, Len(s), u)
      BY <2>2, URLPush
    <3>2. QED
      BY <1>3, <2>2, <3>1
  <2>3. QED
    BY <2>1, <2>2
<1>6. v \in URL \cup {NoURL}
  <2>1. CASE Evals(f)
    <3>1. f \in OpFrame
      BY <2>1, FrameKinds DEF Evals, IsPush
    <3>2. QED
      BY <2>1, <3>1 DEF OpFrame
  <2>2. CASE ~Evals(f)
    BY <1>3, <2>2
  <2>3. QED
    BY <2>1, <2>2
<1>7. /\ ht = Count(t, "scoped")
      /\ tt = 2 * Count(t, "scoped") + Count(t, "callback")
  <2>1. PICK a \in Nat, b \in Nat, x \in Nat, y \in Nat :
              /\ a = Count(s, "scoped") /\ b = Count(s, "callback")
              /\ x = One(f, "scoped") /\ y = One(f, "callback")
    BY <1>1, <1>2
  <2>2. /\ ht = a + x /\ tt = (2 * a + b) + 2 * x + y
        /\ Count(t, "scoped") = a + x /\ Count(t, "callback") = b + y
    BY <1>1, <1>3, <2>1
  <2>3. (2 * a + b) + 2 * x + y = 2 * (a + x) + (b + y)
    OBVIOUS
  <2>4. QED
    BY <2>2, <2>3
<1>8. QED
  BY <1>4, <1>5, <1>6, <1>7, FollowParts

LEMMA PopFollow ==
    ASSUME NEW s, NEW t, NEW f, IsPush(s, f, t), StackInv(t),
           NEW q, NEW v, NEW tt, NEW ht, Follow(t, q, v, tt, ht),
           NEW p \in BOOLEAN, p <=> q /\ f.kind # "build",
           NEW u, u = IF f.kind = "op" THEN f.before ELSE v,
           NEW ss, ss = tt - 2 * One(f, "scoped") - One(f, "callback"),
           NEW hs, hs = ht - One(f, "scoped")
    PROVE  Follow(s, p, u, ss, hs)
<1>1. /\ Count(s, "scoped") \in Nat
      /\ Count(t, "scoped") = Count(s, "scoped") + One(f, "scoped")
      /\ Count(s, "callback") \in Nat
      /\ Count(t, "callback") = Count(s, "callback") + One(f, "callback")
  BY CountPush
<1>2. One(f, "scoped") \in Nat /\ One(f, "callback") \in Nat
  BY DEF One
<1>3. /\ q \in BOOLEAN /\ (q <=> ~NoBuild(t))
      /\ IsURL(t, Len(t), v) /\ v \in URL \cup {NoURL}
      /\ ht = Count(t, "scoped")
      /\ tt = 2 * Count(t, "scoped") + Count(t, "callback")
  BY FollowParts
<1>4. MayPush(s, f)
  BY PopStack
<1>5. p <=> ~NoBuild(s)
  <2>1. NoBuild(t) <=> NoBuild(s) /\ f.kind # "build"
    BY BuildPush
  <2>2. f.kind = "build" => NoBuild(s)
    BY <1>4 DEF MayPush
  <2>3. QED
    BY <1>3, <2>1, <2>2
<1>6. IsURL(s, Len(s), u) /\ u \in URL \cup {NoURL}
  <2>1. CASE f.kind = "op"
    <3>1. f \in OpFrame
      BY <2>1, FrameKinds DEF IsPush
    <3>2. f.before \in URL \cup {NoURL}
      BY <3>1 DEF OpFrame
    <3>3. QED
      BY <1>4, <2>1, <3>2 DEF MayPush
  <2>2. CASE f.kind # "op"
    <3>1. ~Evals(f)
      BY <2>2 DEF Evals
    <3>2. IsURL(t, Len(t), v) <=> IsURL(s, Len(s), v)
      BY <3>1, URLPush
    <3>3. QED
      BY <1>3, <2>2, <3>2
  <2>3. QED
    BY <2>1, <2>2
<1>7. /\ hs = Count(s, "scoped")
      /\ ss = 2 * Count(s, "scoped") + Count(s, "callback")
  <2>1. PICK a \in Nat, b \in Nat, x \in Nat, y \in Nat :
              /\ a = Count(s, "scoped") /\ b = Count(s, "callback")
              /\ x = One(f, "scoped") /\ y = One(f, "callback")
    BY <1>1, <1>2
  <2>2. hs = (a + x) - x /\ ss = (2 * (a + x) + (b + y)) - 2 * x - y
    BY <1>1, <1>3, <2>1
  <2>3. (a + x) - x = a /\ (2 * (a + x) + (b + y)) - 2 * x - y = 2 * a + b
    OBVIOUS
  <2>4. QED
    BY <2>1, <2>2, <2>3
<1>8. QED
  BY <1>5, <1>6, <1>7, FollowParts

\* What of a frame the fields depend on.
SameFrame(f, g) ==
    /\ f.kind = g.kind
    /\ f.kind = "op" => /\ f.scoped = g.scoped /\ f.evals = g.evals
                        /\ f.url = g.url /\ f.before = g.before

LEMMA ReplaceTop ==
    ASSUME NEW s, s # <<>>, NEW f \in Frame, StackInv(s), SameFrame(Last(s), f),
           NEW p, NEW u, NEW ss, NEW hs, Follow(s, p, u, ss, hs)
    PROVE  LET t == ReplaceAt(s, Len(s), f)
           IN  /\ StackInv(t) /\ Follow(t, p, u, ss, hs)
               /\ t # <<>> /\ Last(t) = f
<1>1. s \in Seq(Frame)
  BY DEF StackInv
<1>2. PICK t : t = ReplaceAt(s, Len(s), f)
  OBVIOUS
<1>3. IsReplace(s, f, t)
  BY <1>1, <1>2, ReplaceReplaces
<1>4. PICK g : g = Last(s)
  OBVIOUS
<1>5. PICK r : r = Front(s)
  OBVIOUS
<1>6. IsPush(r, g, s)
  BY <1>1, <1>4, <1>5, FrontPops
<1>7. IsPush(r, f, t)
  BY <1>3, <1>6 DEF IsPush, IsReplace
<1>8. StackInv(r) /\ MayPush(r, g)
  BY <1>6, PopStack
<1>9. g.kind = f.kind /\ (f.kind = "op" => f.before = g.before)
  BY <1>4 DEF SameFrame
<1>10. MayPush(r, f)
  <2>1. r # <<>> => MayCall(Last(r), f)
    BY <1>8, <1>9 DEF MayPush, MayCall
  <2>2. QED
    BY <1>8, <1>9, <2>1 DEF MayPush
<1>11. StackInv(t)
  BY <1>7, <1>8, <1>10, PushStack
<1>12. /\ t # <<>> /\ Last(t) = f
  BY <1>3, EmptyOrTop DEF IsReplace
<1>13. NoBuild(t) <=> NoBuild(s)
  BY <1>6, <1>7, <1>9, BuildPush
<1>14. Class(f) = Class(g)
  BY <1>4 DEF Class, SameFrame
<1>15. \A k : Count(t, k) = Count(s, k)
  <2> SUFFICES ASSUME NEW k
               PROVE  Count(t, k) = Count(s, k)
    OBVIOUS
  <2>1. Count(t, k) = Count(r, k) + One(f, k) /\ Count(s, k) = Count(r, k) + One(g, k)
    BY <1>6, <1>7, CountPush
  <2>2. QED
    BY <1>14, <2>1 DEF One
<1>16. IsURL(t, Len(t), u) <=> IsURL(s, Len(s), u)
  <2>1. PICK n \in Nat : n = Len(s) /\ n = Len(t) /\ n > 0
    BY <1>3 DEF IsReplace
  <2>2. /\ \A i \in 1 .. n - 1 : t[i] = s[i]
        /\ t[n] = f /\ s[n] = g
    BY <1>3, <1>4, <2>1 DEF IsReplace, Last
  <2>3. (Evals(f) <=> Evals(g)) /\ (Evals(g) => f.url = g.url)
    BY <1>4 DEF Evals, SameFrame
  <2>4. \A i \in 1 .. n : /\ Evals(t[i]) <=> Evals(s[i])
                          /\ Evals(s[i]) => t[i].url = s[i].url
    <3> SUFFICES ASSUME NEW i \in 1 .. n
                 PROVE  /\ Evals(t[i]) <=> Evals(s[i])
                        /\ Evals(s[i]) => t[i].url = s[i].url
      OBVIOUS
    <3>1. CASE i = n
      BY <2>2, <2>3, <3>1
    <3>2. CASE i # n
      BY <2>1, <2>2, <3>2
    <3>3. QED
      BY <3>1, <3>2
  <2>5. QED
    BY <2>1, <2>4, URLBelow
<1>17. Follow(t, p, u, ss, hs)
  BY <1>13, <1>15, <1>16, FollowParts
<1>18. QED
  BY <1>2, <1>11, <1>12, <1>17

-----------------------------------------------------------------------------
(* The ends of an operation and of the building of an error.               *)

\* The entries of stackScopes_ and the handle scopes of a NodeApiScope.
Two(f) == IF f.scoped THEN 2 ELSE 0
Single(f) == IF f.scoped THEN 1 ELSE 0

LEMMA SoundTop ==
    ASSUME NEW s, NEW p, NEW u, NEW ss, NEW hs, Sound(s, p, u, ss, hs)
    PROVE  /\ s \in Seq(Frame)
           /\ p \in BOOLEAN /\ (p <=> ~NoBuild(s))
           /\ u \in URL \cup {NoURL}
           /\ ss \in Nat /\ hs \in Nat
           /\ s # <<>> =>
                 /\ Last(s) \in Frame
                 /\ Last(s).kind \in {"op", "build", "access", "callback"}
                 /\ Last(s).kind = "op" => Last(s) \in OpFrame
                 /\ Last(s).kind = "build" => Last(s) \in BuildFrame /\ p
                 /\ Last(s).kind = "callback" => Last(s) \in CallbackFrame
<1>1. s \in Seq(Frame) /\ Follow(s, p, u, ss, hs)
  BY DEF Sound, StackInv
<1>2. /\ p \in BOOLEAN /\ (p <=> ~NoBuild(s)) /\ u \in URL \cup {NoURL}
      /\ hs = Count(s, "scoped")
      /\ ss = 2 * Count(s, "scoped") + Count(s, "callback")
  BY <1>1, FollowParts
<1>3. \A k : Count(s, k) \in Nat
  <2> SUFFICES ASSUME NEW k
               PROVE  Count(s, k) \in Nat
    OBVIOUS
  <2>1. PICK f : f \in Frame
    <3>1. [kind |-> "access"] \in Frame
      BY DEF Frame, AccessFrame
    <3>2. QED
      BY <3>1
  <2>2. IsPush(s, f, Append(s, f))
    BY <1>1, <2>1, AppendPushes
  <2>3. QED
    BY <2>2, CountPush
<1>4. ASSUME s # <<>>
      PROVE  /\ Last(s) \in Frame
             /\ Last(s).kind = "build" => p
  <2>1. Len(s) \in Nat \ {0} /\ Last(s) = s[Len(s)] /\ Last(s) \in Frame
    BY <1>1, <1>4, EmptyOrTop
  <2>2. Last(s).kind = "build" => ~NoBuild(s)
    BY <2>1 DEF NoBuild
  <2>3. QED
    BY <1>2, <2>1, <2>2
<1>5. ss \in Nat /\ hs \in Nat
  BY <1>2, <1>3
<1>6. QED
  BY <1>1, <1>2, <1>4, <1>5, FrameKinds

\* What is below a frame, by its kind.
LEMMA BelowTop ==
    ASSUME NEW s, NEW p, NEW u, NEW ss, NEW hs, Sound(s, p, u, ss, hs),
           s # <<>>
    PROVE  /\ Front(s) \in Seq(Frame)
           /\ Front(s) = <<>> => Last(s).kind = "op"
           /\ Front(s) # <<>> => MayCall(Last(Front(s)), Last(s))
           /\ Last(s).kind = "build" => NoBuild(Front(s))
<1>1. IsPush(Front(s), Last(s), s)
  BY FrontPops DEF Sound, StackInv
<1>2. MayPush(Front(s), Last(s))
  BY <1>1, PopStack DEF Sound
<1>3. QED
  BY <1>1, <1>2 DEF MayPush, IsPush

LEMMA PopOp ==
    ASSUME NEW s, NEW p, NEW u, NEW ss, NEW hs, Sound(s, p, u, ss, hs),
           s # <<>>, Last(s).kind = "op"
    PROVE  Sound(Front(s), p, Last(s).before, ss - Two(Last(s)),
                 hs - Single(Last(s)))
<1>1. IsPush(Front(s), Last(s), s)
  BY FrontPops DEF Sound, StackInv
<1>2. StackInv(Front(s))
  BY <1>1, PopStack DEF Sound
<1>3. PICK f \in OpFrame : f = Last(s)
  BY SoundTop
<1>4. /\ One(f, "scoped") = Single(f) /\ 2 * One(f, "scoped") = Two(f)
      /\ One(f, "callback") = 0
  BY <1>3 DEF OpFrame, One, Class, Single, Two
<1>5. ss \in Nat /\ hs \in Nat /\ p \in BOOLEAN
  BY SoundTop
<1>6. PICK tt : tt = ss - Two(f)
  OBVIOUS
<1>7. tt = ss - 2 * One(f, "scoped") - One(f, "callback")
  <2>1. Two(f) \in Nat
    BY DEF Two
  <2>2. QED
    BY <1>4, <1>5, <1>6, <2>1
<1>8. p <=> p /\ f.kind # "build"
  BY <1>3
<1>9. Follow(Front(s), p, f.before, tt, hs - Single(f))
  BY <1>1, <1>3, <1>4, <1>5, <1>7, <1>8, PopFollow DEF Sound
<1>10. QED
  BY <1>2, <1>3, <1>6, <1>9 DEF Sound

LEMMA PopBuild ==
    ASSUME NEW s, NEW p, NEW u, NEW ss, NEW hs, Sound(s, p, u, ss, hs),
           s # <<>>, Last(s).kind = "build"
    PROVE  Sound(Front(s), FALSE, u, ss, hs)
<1>1. IsPush(Front(s), Last(s), s)
  BY FrontPops DEF Sound, StackInv
<1>2. StackInv(Front(s))
  BY <1>1, PopStack DEF Sound
<1>3. PICK f : f = Last(s)
  OBVIOUS
<1>4. One(f, "scoped") = 0 /\ One(f, "callback") = 0
  BY <1>3 DEF One, Class
<1>5. ss \in Nat /\ hs \in Nat
  BY SoundTop
<1>6. /\ ss = ss - 2 * One(f, "scoped") - One(f, "callback")
      /\ hs = hs - One(f, "scoped")
  BY <1>4, <1>5
<1>7. FALSE <=> p /\ f.kind # "build"
  BY <1>3
<1>8. Follow(Front(s), FALSE, u, ss, hs)
  BY <1>1, <1>3, <1>6, <1>7, PopFollow DEF Sound
<1>9. QED
  BY <1>2, <1>8 DEF Sound

LEMMA PopAccess ==
    ASSUME NEW s, NEW p, NEW u, NEW ss, NEW hs, Sound(s, p, u, ss, hs),
           s # <<>>, Last(s).kind = "access"
    PROVE  Sound(Front(s), p, u, ss, hs)
<1>1. IsPush(Front(s), Last(s), s)
  BY FrontPops DEF Sound, StackInv
<1>2. StackInv(Front(s))
  BY <1>1, PopStack DEF Sound
<1>3. PICK f : f = Last(s)
  OBVIOUS
<1>4. One(f, "scoped") = 0 /\ One(f, "callback") = 0
  BY <1>3 DEF One, Class
<1>5. ss \in Nat /\ hs \in Nat /\ p \in BOOLEAN
  BY SoundTop
<1>6. /\ ss = ss - 2 * One(f, "scoped") - One(f, "callback")
      /\ hs = hs - One(f, "scoped")
  BY <1>4, <1>5
<1>7. p <=> p /\ f.kind # "build"
  BY <1>3
<1>8. Follow(Front(s), p, u, ss, hs)
  BY <1>1, <1>3, <1>5, <1>6, <1>7, PopFollow DEF Sound
<1>9. QED
  BY <1>2, <1>8 DEF Sound

LEMMA PopCallback ==
    ASSUME NEW s, NEW p, NEW u, NEW ss, NEW hs, Sound(s, p, u, ss, hs),
           s # <<>>, Last(s).kind = "callback"
    PROVE  Sound(Front(s), p, u, ss - 1, hs)
<1>1. IsPush(Front(s), Last(s), s)
  BY FrontPops DEF Sound, StackInv
<1>2. StackInv(Front(s))
  BY <1>1, PopStack DEF Sound
<1>3. PICK f : f = Last(s)
  OBVIOUS
<1>4. One(f, "scoped") = 0 /\ One(f, "callback") = 1
  BY <1>3 DEF One, Class
<1>5. ss \in Nat /\ hs \in Nat /\ p \in BOOLEAN
  BY SoundTop
<1>6. /\ ss - 1 = ss - 2 * One(f, "scoped") - One(f, "callback")
      /\ hs = hs - One(f, "scoped")
  BY <1>4, <1>5
<1>7. p <=> p /\ f.kind # "build"
  BY <1>3
<1>8. Follow(Front(s), p, u, ss - 1, hs)
  BY <1>1, <1>3, <1>5, <1>6, <1>7, PopFollow DEF Sound
<1>9. QED
  BY <1>2, <1>8 DEF Sound

LEMMA ReplaceSound ==
    ASSUME NEW s, NEW p, NEW u, NEW ss, NEW hs, Sound(s, p, u, ss, hs),
           s # <<>>, NEW f \in Frame, SameFrame(Last(s), f)
    PROVE  /\ Sound(ReplaceAt(s, Len(s), f), p, u, ss, hs)
           /\ ReplaceAt(s, Len(s), f) # <<>>
           /\ Last(ReplaceAt(s, Len(s), f)) = f
BY ReplaceTop DEF Sound

\* JSError::setValue goes on; any other caller is left alone.
LEMMA ResumeSound ==
    ASSUME NEW s, NEW p, NEW u, NEW ss, NEW hs, Sound(s, p, u, ss, hs)
    PROVE  /\ Sound(Resume(s), p, u, ss, hs)
           /\ Resume(s) = <<>> <=> s = <<>>
           /\ s # <<>> => Last(Resume(s)).kind = Last(s).kind
           /\ s # <<>> /\ Last(s).kind # "build" => Resume(s) = s
<1>1. CASE s # <<>> /\ Last(s).kind = "build"
  <2>1. PICK g \in BuildFrame : g = Last(s)
    BY <1>1, SoundTop
  <2>2. NextStage(g) \in BuildFrame /\ NextStage(g).kind = "build"
    BY <2>1 DEF BuildFrame, NextStage
  <2>3. NextStage(g) \in Frame /\ SameFrame(Last(s), NextStage(g))
    BY <1>1, <2>2 DEF Frame, SameFrame
  <2>4. Resume(s) = ReplaceAt(s, Len(s), NextStage(g))
    BY <1>1, <2>1 DEF Resume
  <2>5. QED
    BY <1>1, <2>2, <2>3, <2>4, ReplaceSound
<1>2. CASE ~(s # <<>> /\ Last(s).kind = "build")
  <2>1. Resume(s) = s
    BY <1>2 DEF Resume
  <2>2. QED
    BY <1>2, <2>1
<1>3. QED
  BY <1>1, <1>2

\* The operation below the error that is built ends, and with it the error.
LEMMA BuildEndsSound ==
    ASSUME NEW s, NEW exception,
           Sound(s, hasPendingJSError, sourceURL, stackScopes, handleScopes),
           s # <<>>, Last(s).kind = "build", BuildEnds(s, exception)
    PROVE  /\ RuntimeInv'
           /\ Running' \in {"host", "callback"}
           /\ flying' = exception
           /\ hasPendingJSError
<1>1. Front(s) # <<>> /\ NoBuild(Front(s)) /\ Last(Front(s)).kind = "op"
  BY BelowTop DEF MayCall
<1>2. PICK b : b = Front(s)
  OBVIOUS
<1>3. Sound(b, FALSE, sourceURL, stackScopes, handleScopes)
  BY <1>2, PopBuild
<1>4. PICK f : f = Last(b)
  OBVIOUS
<1>5. Op(s) = f /\ BelowOp(s) = Front(b)
  BY <1>1, <1>2, <1>4, SoundTop, TwoBelow
<1>6. PICK c : c = Front(b)
  OBVIOUS
<1>7. Sound(c, FALSE, f.before, stackScopes - Two(f), handleScopes - Single(f))
  BY <1>1, <1>2, <1>3, <1>4, <1>6, PopOp
<1>8. c # <<>> => Last(c).kind # "build"
  BY <1>7, SoundTop
<1>9. c # <<>> => Last(c).kind = "callback"
  <2>1. c # <<>> => MayCall(Last(c), f)
    BY <1>1, <1>2, <1>3, <1>4, <1>6, BelowTop
  <2>2. QED
    BY <1>1, <1>2, <1>4, <1>8, <2>1 DEF MayCall
<1>10. Resume(c) = c
  BY <1>8 DEF Resume
<1>11. /\ stack' = c /\ flying' = exception
       /\ hasPendingJSError' = FALSE /\ sourceURL' = f.before
       /\ stackScopes' = stackScopes - Two(f)
       /\ handleScopes' = handleScopes - Single(f)
  BY <1>5, <1>6, <1>8, <1>10 DEF BuildEnds, Unwind, CloseScope, Two, Single
<1>12. RuntimeInv'
  BY <1>7, <1>11 DEF RuntimeInv
<1>13. hasPendingJSError
  BY SoundTop
<1>14. QED
  BY <1>9, <1>11, <1>12, <1>13 DEF Running, Top

-----------------------------------------------------------------------------
(* A frame is put on the stack.                                            *)

Pushed(s, f, p, u, ss, hs) ==
    /\ Sound(Append(s, f), p, u, ss, hs)
    /\ Append(s, f) # <<>>
    /\ Last(Append(s, f)) = f

LEMMA PushSound ==
    ASSUME NEW s, NEW p, NEW u, NEW ss, NEW hs, Sound(s, p, u, ss, hs),
           NEW f \in Frame, MayPush(s, f),
           NEW q \in BOOLEAN, q <=> p \/ f.kind = "build",
           NEW v, v = IF Evals(f) THEN f.url ELSE u,
           NEW tt, tt = ss + 2 * One(f, "scoped") + One(f, "callback"),
           NEW ht, ht = hs + One(f, "scoped")
    PROVE  Pushed(s, f, q, v, tt, ht)
<1>1. s \in Seq(Frame) /\ StackInv(s) /\ Follow(s, p, u, ss, hs)
  BY DEF Sound, StackInv
<1>2. PICK t : t = Append(s, f)
  OBVIOUS
<1>3. IsPush(s, f, t)
  BY <1>1, <1>2, AppendPushes
<1>4. StackInv(t)
  BY <1>1, <1>3, PushStack
<1>5. Follow(t, q, v, tt, ht)
  BY <1>1, <1>3, PushFollow
<1>6. t # <<>> /\ Last(t) = f
  BY <1>3, EmptyOrTop DEF IsPush
<1>7. QED
  BY <1>2, <1>4, <1>5, <1>6 DEF Pushed, Sound

\* A call of rewriteErrorMessage changes no field of the runtime.
LEMMA PushAccess ==
    ASSUME NEW s, NEW p, NEW u, NEW ss, NEW hs, Sound(s, p, u, ss, hs),
           s # <<>>, Last(s).kind = "build", Last(s).stage \in RewriteStages
    PROVE  Pushed(s, [kind |-> "access"], p, u, ss, hs)
<1>1. PICK f : f = [kind |-> "access"]
  OBVIOUS
<1>2. f \in Frame /\ f.kind = "access"
  BY <1>1 DEF Frame, AccessFrame
<1>3. MayPush(s, f)
  BY <1>2 DEF MayPush, MayCall
<1>4. One(f, "scoped") = 0 /\ One(f, "callback") = 0
  BY <1>2 DEF One, Class
<1>5. ss \in Nat /\ hs \in Nat /\ p \in BOOLEAN
  BY SoundTop
<1>6. /\ ss = ss + 2 * One(f, "scoped") + One(f, "callback")
      /\ hs = hs + One(f, "scoped")
  BY <1>4, <1>5
<1>7. (p <=> p \/ f.kind = "build") /\ u = IF Evals(f) THEN f.url ELSE u
  BY <1>2 DEF Evals
<1>8. Pushed(s, f, p, u, ss, hs)
  BY <1>2, <1>3, <1>5, <1>6, <1>7, PushSound
<1>9. QED
  BY <1>1, <1>8

LEMMA PushCallback ==
    ASSUME NEW s, NEW p, NEW u, NEW ss, NEW hs, Sound(s, p, u, ss, hs),
           s # <<>>,
           Last(s).kind = "access" \/ (Last(s).kind = "op" /\ ~Last(s).failed),
           NEW part \in CallbackPart \cup {"leaving", "crashed"}
    PROVE  Pushed(s, [kind |-> "callback", part |-> part], p, u, ss + 1, hs)
<1>1. PICK f : f = [kind |-> "callback", part |-> part]
  OBVIOUS
<1>2. f \in Frame /\ f.kind = "callback"
  BY <1>1 DEF Frame, CallbackFrame
<1>3. MayPush(s, f)
  BY <1>2 DEF MayPush, MayCall
<1>4. One(f, "scoped") = 0 /\ One(f, "callback") = 1
  BY <1>2 DEF One, Class
<1>5. ss \in Nat /\ hs \in Nat /\ p \in BOOLEAN
  BY SoundTop
<1>6. /\ ss + 1 = ss + 2 * One(f, "scoped") + One(f, "callback")
      /\ hs = hs + One(f, "scoped")
  BY <1>4, <1>5
<1>7. (p <=> p \/ f.kind = "build") /\ u = IF Evals(f) THEN f.url ELSE u
  BY <1>2 DEF Evals
<1>8. Pushed(s, f, p, u, ss + 1, hs)
  BY <1>2, <1>3, <1>5, <1>6, <1>7, PushSound
<1>9. QED
  BY <1>1, <1>8

LEMMA PushBuild ==
    ASSUME NEW s, NEW u, NEW ss, NEW hs, Sound(s, FALSE, u, ss, hs),
           s # <<>>, Last(s).kind = "op", Last(s).failed,
           NEW f \in BuildFrame
    PROVE  Pushed(s, f, TRUE, u, ss, hs)
<1>1. f \in Frame /\ f.kind = "build"
  BY DEF Frame, BuildFrame
<1>2. NoBuild(s)
  BY SoundTop
<1>3. MayPush(s, f)
  BY <1>1, <1>2 DEF MayPush, MayCall
<1>4. One(f, "scoped") = 0 /\ One(f, "callback") = 0
  BY <1>1 DEF One, Class
<1>5. ss \in Nat /\ hs \in Nat
  BY SoundTop
<1>6. /\ ss = ss + 2 * One(f, "scoped") + One(f, "callback")
      /\ hs = hs + One(f, "scoped")
  BY <1>4, <1>5
<1>7. (TRUE <=> FALSE \/ f.kind = "build") /\ u = IF Evals(f) THEN f.url ELSE u
  BY <1>1 DEF Evals
<1>8. QED
  BY <1>1, <1>3, <1>6, <1>7, PushSound

LEMMA PushOp ==
    ASSUME NEW s, NEW p, NEW u, NEW ss, NEW hs, Sound(s, p, u, ss, hs),
           s # <<>> => \/ Last(s).kind = "callback"
                       \/ Last(s).kind = "build" /\ Last(s).stage \in SetValueStages,
           NEW f \in OpFrame, f.before = u
    PROVE  Pushed(s, f, p, IF f.evals THEN f.url ELSE u, ss + Two(f),
                  hs + Single(f))
<1>1. f \in Frame /\ f.kind = "op"
  BY DEF Frame, OpFrame
<1>2. IsURL(s, Len(s), u)
  BY FollowParts DEF Sound
<1>3. MayPush(s, f)
  BY <1>1, <1>2 DEF MayPush, MayCall
<1>4. /\ One(f, "scoped") = Single(f) /\ 2 * One(f, "scoped") = Two(f)
      /\ One(f, "callback") = 0 /\ Two(f) \in Nat
  BY <1>1 DEF One, Class, Single, Two
<1>5. ss \in Nat /\ hs \in Nat /\ p \in BOOLEAN
  BY SoundTop
<1>6. PICK tt, v : tt = ss + Two(f) /\ v = IF f.evals THEN f.url ELSE u
  OBVIOUS
<1>7. tt = ss + 2 * One(f, "scoped") + One(f, "callback")
  BY <1>4, <1>5, <1>6
<1>8. p <=> p \/ f.kind = "build"
  BY <1>1
<1>9. v = IF Evals(f) THEN f.url ELSE u
  BY <1>1, <1>6 DEF Evals
<1>10. Pushed(s, f, p, v, tt, hs + Single(f))
  BY <1>1, <1>3, <1>4, <1>5, <1>7, <1>8, <1>9, PushSound
<1>11. QED
  BY <1>6, <1>10

-----------------------------------------------------------------------------
(* The steps of a script and of the host.                                  *)

\* What the invariant says of the frame that runs.
LEMMA WhatRuns ==
    ASSUME RuntimeInv
    PROVE  /\ Running = "host" <=> stack = <<>>
           /\ Running # "host" => stack # <<>> /\ Running = Top.kind
           /\ Running \in {"host", "op", "build", "access", "callback"}
           /\ Running = "op" => Top \in OpFrame
           /\ Running = "build" => Top \in BuildFrame /\ hasPendingJSError
           /\ Running = "access" =>
                 /\ Front(stack) # <<>> /\ Last(Front(stack)).kind = "build"
                 /\ Last(Front(stack)).stage \in RewriteStages
           /\ Running = "callback" =>
                 /\ Top \in CallbackFrame /\ Front(stack) # <<>>
                 /\ \/ Last(Front(stack)).kind = "access"
                    \/ Last(Front(stack)).kind = "op" /\ ~Last(Front(stack)).failed
<1>1. stack # <<>> =>
         /\ Last(stack).kind \in {"op", "build", "access", "callback"}
         /\ Last(stack).kind = "op" => Last(stack) \in OpFrame
         /\ Last(stack).kind = "build" =>
               Last(stack) \in BuildFrame /\ hasPendingJSError
         /\ Last(stack).kind = "callback" => Last(stack) \in CallbackFrame
  BY SoundTop DEF RuntimeInv
<1>2. stack # <<>> =>
         /\ Front(stack) = <<>> => Last(stack).kind = "op"
         /\ Front(stack) # <<>> => MayCall(Last(Front(stack)), Last(stack))
  BY BelowTop DEF RuntimeInv
<1>3. QED
  BY <1>1, <1>2 DEF Running, Top, MayCall

OperationRecord ==
    [scoped : BOOLEAN, raises : BOOLEAN, fails : BOOLEAN, evals : BOOLEAN,
     url : URL \cup {NoURL}]

LEMMA OperationFields ==
    Operations \subseteq OperationRecord /\ TargetCalls \in OperationRecord
<1>1. \A r, f \in BOOLEAN : Operation(r, f) \in OperationRecord
  BY DEF Operation, OperationRecord
<1>2. /\ PrimitiveValues \in OperationRecord /\ StringValues \in OperationRecord
      /\ ObjectCalls \in OperationRecord /\ ExternalValues \in OperationRecord
      /\ SymbolText \in OperationRecord /\ JsiHostObject \in OperationRecord
      /\ NativeStates \in OperationRecord /\ Arrays \in OperationRecord
  BY <1>1 DEF PrimitiveValues, StringValues, ObjectCalls, ExternalValues,
              SymbolText, JsiHostObject, NativeStates, Arrays
<1>3. Unscoped \in OperationRecord
  BY <1>2 DEF Unscoped, OperationRecord
<1>4. Functions \in OperationRecord
  BY <1>2 DEF Functions, OperationRecord
<1>5. \A u \in URL \cup {NoURL} : Evaluate(u) \in OperationRecord
  BY <1>2 DEF Evaluate, OperationRecord
<1>6. /\ QueueMicrotask \in OperationRecord /\ PrepareJavaScript \in OperationRecord
      /\ Names \in OperationRecord /\ BigInts \in OperationRecord
      /\ Strings \in OperationRecord /\ CreateHostObject \in OperationRecord
      /\ HostData \in OperationRecord /\ Properties \in OperationRecord
      /\ Kinds \in OperationRecord /\ PropertyNames \in OperationRecord
      /\ Comparisons \in OperationRecord /\ StrictEquals \in OperationRecord
      /\ Utf16 \in OperationRecord
  BY <1>2 DEF QueueMicrotask, PrepareJavaScript, Names, BigInts, Strings,
              CreateHostObject, ProxyHandler, HostData, Properties, Kinds,
              PropertyNames, Comparisons, StrictEquals, Utf16
<1>7. TargetCalls \in OperationRecord
  BY <1>2 DEF TargetCalls, OperationRecord
<1>8. QED
  BY <1>2, <1>3, <1>4, <1>5, <1>6, <1>7 DEF Operations

LEMMA FlyingKinds ==
    /\ NoError # JSINativeException
    /\ \A e : JSError(e) # NoError /\ JSError(e) # JSINativeException
    /\ \A e : JSError(e).value = e /\ JSError(e).kind = "JSError"
    /\ NoError.value = NoException /\ JSINativeException.value = NoException
    /\ NoError.kind # "JSError" /\ JSINativeException.kind # "JSError"
BY DEF NoError, JSINativeException, JSError

LEMMA ScriptThrowsInv ==
    ASSUME IInv, NEW e \in Exception, ScriptThrows(e)
    PROVE  IInv'
<1>1. RuntimeInv'
  BY DEF IInv, RuntimeInv, ScriptThrows, runtimeVars
<1>2. Running' = Running /\ Top' = Top /\ ScriptRuns'
  BY DEF ScriptThrows, Running, Top, ScriptRuns
<1>3. ExceptionsInv'
  BY <1>2 DEF IInv, ExceptionsInv, ScriptThrows
<1>4. QED
  BY <1>1, <1>3 DEF IInv

LEMMA ScriptCatchesInv ==
    ASSUME IInv, ScriptCatches
    PROVE  IInv'
<1>1. RuntimeInv'
  BY DEF IInv, RuntimeInv, ScriptCatches, runtimeVars
<1>2. Running' = Running /\ Top' = Top
  BY DEF ScriptCatches, Running, Top
<1>3. ExceptionsInv'
  BY <1>2 DEF IInv, ExceptionsInv, ScriptCatches
<1>4. QED
  BY <1>1, <1>3 DEF IInv

LEMMA EnterCallbackInv ==
    ASSUME IInv, NEW part \in CallbackPart \cup {"leaving", "crashed"},
           NEW exception \in Views, EnterCallback(part, exception)
    PROVE  IInv'
<1>1. /\ stack # <<>>
      /\ \/ Last(stack).kind = "access"
         \/ Last(stack).kind = "op" /\ ~Last(stack).failed
  BY WhatRuns DEF IInv, EnterCallback, ScriptRuns, Top
<1>2. Pushed(stack, [kind |-> "callback", part |-> part], hasPendingJSError,
             sourceURL, stackScopes + 1, handleScopes)
  BY <1>1, PushCallback DEF IInv, RuntimeInv
<1>3. /\ stack' = Append(stack, [kind |-> "callback", part |-> part])
      /\ stackScopes' = stackScopes + 1
      /\ UNCHANGED <<pending, thrown, hasPendingJSError, sourceURL, handleScopes>>
      /\ pending = NoException /\ thrown = NoException
      /\ flying' \in {NoError, JSINativeException}
  BY DEF EnterCallback, ScriptRuns, Views
<1>4. RuntimeInv' /\ stack' # <<>> /\ Last(stack').kind = "callback"
  BY <1>2, <1>3 DEF RuntimeInv, Pushed
<1>5. Running' = "callback"
  BY <1>4 DEF Running, Top
<1>6. ExceptionsInv'
  BY <1>3, <1>5 DEF ExceptionsInv
<1>7. QED
  BY <1>4, <1>6 DEF IInv

\* Code of the host and JSError::setValue run without an exception.
LEMMA NothingIsPending ==
    ASSUME IInv, Running = "host" \/ InCallback \/ SetValueRuns
    PROVE  /\ pending = NoException /\ thrown = NoException
           /\ SetValueRuns => flying = NoError
BY DEF IInv, ExceptionsInv, InCallback, CallbackPart, SetValueRuns,
       RewriteStages, ScriptRuns

LEMMA PlainOperationInv ==
    ASSUME IInv, NEW o \in Operations, PlainOperation(o)
    PROVE  IInv'
<1>1. /\ Sound(Resume(stack), hasPendingJSError, sourceURL, stackScopes,
               handleScopes)
      /\ Resume(stack) = <<>> <=> stack = <<>>
      /\ stack # <<>> => Last(Resume(stack)).kind = Last(stack).kind
  BY ResumeSound DEF IInv, RuntimeInv
<1>2. /\ stack' = Resume(stack)
      /\ UNCHANGED <<pending, thrown, runtimeVars>>
  BY DEF PlainOperation
<1>3. RuntimeInv'
  BY <1>1, <1>2 DEF RuntimeInv, runtimeVars
<1>4. Running' = Running
  BY <1>1, <1>2 DEF Running, Top
<1>5. Running \in {"host", "callback"} \/ SetValueRuns
  BY DEF PlainOperation, HostRuns, Running, SetValueRuns
<1>6. pending = NoException /\ thrown = NoException
  BY NothingIsPending DEF PlainOperation, HostRuns, InCallback, CallbackPart
<1>7. Running # "op"
  BY <1>5 DEF SetValueRuns
<1>8. /\ flying' \in {NoError, JSINativeException}
      /\ flying' # NoError => Running \in {"host", "callback"}
  BY DEF PlainOperation, HostRuns, Running
<1>9. ExceptionsInv'
  BY <1>2, <1>4, <1>6, <1>7, <1>8 DEF ExceptionsInv
<1>10. QED
  BY <1>3, <1>9 DEF IInv

\* A Node-API call that runs JavaScript is entered.
LEMMA CallScriptInv ==
    ASSUME IInv, NEW o \in OperationRecord, CallScript(o),
           Running = "host" \/ InCallback \/ SetValueRuns, flying = NoError
    PROVE  IInv'
<1>1. PICK f : f = [kind |-> "op", scoped |-> o.scoped, evals |-> o.evals,
                    fails |-> o.fails, url |-> o.url, before |-> sourceURL,
                    failed |-> FALSE]
  OBVIOUS
<1>2. f \in OpFrame /\ f.before = sourceURL
  <2>1. sourceURL \in URL \cup {NoURL}
    BY SoundTop DEF IInv, RuntimeInv
  <2>2. QED
    BY <1>1, <2>1 DEF OpFrame, OperationRecord
<1>3. stack # <<>> =>
         \/ Last(stack).kind = "callback"
         \/ Last(stack).kind = "build" /\ Last(stack).stage \in SetValueStages
  BY WhatRuns DEF IInv, InCallback, SetValueRuns, SetValueStages, Top
<1>4. Pushed(stack, f, hasPendingJSError, IF f.evals THEN f.url ELSE sourceURL,
             stackScopes + Two(f), handleScopes + Single(f))
  BY <1>2, <1>3, PushOp DEF IInv, RuntimeInv
<1>5. /\ stack' = Append(stack, f)
      /\ sourceURL' = IF f.evals THEN f.url ELSE sourceURL
      /\ stackScopes' = stackScopes + Two(f)
      /\ handleScopes' = handleScopes + Single(f)
      /\ UNCHANGED <<pending, thrown, flying, hasPendingJSError>>
  BY <1>1 DEF CallScript, OpenScope, Two, Single
<1>6. RuntimeInv' /\ stack' # <<>> /\ Last(stack') = f
  BY <1>4, <1>5 DEF RuntimeInv, Pushed
<1>7. Running' = "op" /\ ~Top'.failed
  BY <1>1, <1>6 DEF Running, Top
<1>8. pending = NoException /\ thrown = NoException
  BY NothingIsPending
<1>9. ExceptionsInv'
  BY <1>5, <1>7, <1>8 DEF ExceptionsInv
<1>10. QED
  BY <1>6, <1>9 DEF IInv

LEMMA EnterScriptInv ==
    ASSUME IInv, NEW o \in Operations, EnterScript(o)
    PROVE  IInv'
<1>1. Running = "host" \/ InCallback \/ SetValueRuns
  BY DEF EnterScript, HostRuns, InCallback, CallbackPart
<1>2. flying = NoError
  BY <1>1, NothingIsPending DEF EnterScript, HostRuns
<1>3. o \in OperationRecord /\ CallScript(o)
  BY OperationFields DEF EnterScript
<1>4. QED
  BY <1>1, <1>2, <1>3, CallScriptInv

LEMMA AccessTargetInv ==
    ASSUME IInv, AccessTarget
    PROVE  IInv'
<1>1. InCallback /\ flying = NoError /\ CallScript(TargetCalls)
  BY DEF AccessTarget, InCallback, CallbackPart
<1>2. QED
  BY <1>1, OperationFields, CallScriptInv

LEMMA HostCatchesInv ==
    ASSUME IInv, HostCatches
    PROVE  IInv'
<1>1. RuntimeInv'
  BY DEF IInv, RuntimeInv, HostCatches, runtimeVars
<1>2. Running' = Running /\ Top' = Top /\ (ScriptRuns' <=> ScriptRuns)
  BY DEF HostCatches, Running, Top, ScriptRuns
<1>3. ExceptionsInv'
  BY <1>2 DEF IInv, ExceptionsInv, HostCatches
<1>4. QED
  BY <1>1, <1>3 DEF IInv

LEMMA HostThrowsInv ==
    ASSUME IInv, HostThrows
    PROVE  IInv'
<1>1. RuntimeInv'
  BY DEF IInv, RuntimeInv, HostThrows, runtimeVars
<1>2. Running' = Running /\ Top' = Top /\ (ScriptRuns' <=> ScriptRuns)
  BY DEF HostThrows, Running, Top, ScriptRuns
<1>3. ExceptionsInv'
  BY <1>2 DEF IInv, ExceptionsInv, HostThrows
<1>4. QED
  BY <1>1, <1>3 DEF IInv

-----------------------------------------------------------------------------
(* The steps of the runtime.                                               *)

\* An operation ends and its caller goes on: the host, or setValue.
LEMMA OperationEnds ==
    ASSUME RuntimeInv, Running = "op"
    PROVE  /\ Sound(Resume(Front(stack)), hasPendingJSError, Top.before,
                    stackScopes - Two(Top), handleScopes - Single(Top))
           /\ Resume(Front(stack)) # <<>> =>
                 Last(Resume(Front(stack))).kind \in {"callback", "build"}
           /\ ~(Front(stack) # <<>> /\ Last(Front(stack)).kind = "build") =>
                 \/ Resume(Front(stack)) = <<>>
                 \/ Last(Resume(Front(stack))).kind = "callback"
<1>1. stack # <<>> /\ Last(stack).kind = "op"
  BY WhatRuns DEF Top
<1>2. PICK b : b = Front(stack)
  OBVIOUS
<1>3. Sound(b, hasPendingJSError, Top.before, stackScopes - Two(Top),
            handleScopes - Single(Top))
  BY <1>1, <1>2, PopOp DEF RuntimeInv, Top
<1>4. b # <<>> => Last(b).kind \in {"callback", "build"}
  <2>1. b # <<>> => MayCall(Last(b), Last(stack))
    BY <1>1, <1>2, BelowTop DEF RuntimeInv
  <2>2. QED
    BY <1>1, <2>1 DEF MayCall
<1>5. /\ Sound(Resume(b), hasPendingJSError, Top.before,
               stackScopes - Two(Top), handleScopes - Single(Top))
      /\ Resume(b) = <<>> <=> b = <<>>
      /\ b # <<>> => Last(Resume(b)).kind = Last(b).kind
  BY <1>3, ResumeSound
<1>6. QED
  BY <1>2, <1>4, <1>5

LEMMA OperationReturnsInv ==
    ASSUME IInv, OperationReturns
    PROVE  IInv'
<1>1. RuntimeInv /\ Running = "op"
  BY DEF IInv, OperationReturns
<1>2. /\ stack' = Resume(Front(stack)) /\ sourceURL' = Top.before
      /\ stackScopes' = stackScopes - Two(Top)
      /\ handleScopes' = handleScopes - Single(Top)
      /\ UNCHANGED <<pending, thrown, flying, hasPendingJSError>>
      /\ pending = NoException /\ thrown = NoException
  BY DEF OperationReturns, ScriptRuns, CloseScope, Two, Single
<1>3. RuntimeInv'
  BY <1>1, <1>2, OperationEnds DEF RuntimeInv
<1>4. Running' \in {"host", "callback", "build"}
  BY <1>1, <1>2, OperationEnds DEF Running, Top
<1>5. flying = NoError
  BY <1>1 DEF IInv, ExceptionsInv
<1>6. ExceptionsInv'
  BY <1>2, <1>4, <1>5 DEF IInv, ExceptionsInv
<1>7. QED
  BY <1>3, <1>6 DEF IInv

LEMMA OperationFailsInv ==
    ASSUME IInv, OperationFails
    PROVE  IInv'
<1>1. RuntimeInv /\ Running = "op"
  BY DEF IInv, OperationFails
<1>2. /\ stack' = Resume(Front(stack)) /\ sourceURL' = Top.before
      /\ stackScopes' = stackScopes - Two(Top)
      /\ handleScopes' = handleScopes - Single(Top)
      /\ UNCHANGED <<pending, thrown, hasPendingJSError>>
      /\ pending = NoException /\ thrown = NoException
      /\ flying' = IF Front(stack) # <<>> /\ Last(Front(stack)).kind = "build"
                   THEN NoError ELSE JSINativeException
  BY DEF OperationFails, ScriptRuns, Unwind, CloseScope, Two, Single
<1>3. RuntimeInv'
  BY <1>1, <1>2, OperationEnds DEF RuntimeInv
<1>4. /\ Running' \in {"host", "callback", "build"}
      /\ flying' # NoError => Running' \in {"host", "callback"}
  BY <1>1, <1>2, OperationEnds DEF Running, Top
<1>5. ExceptionsInv'
  BY <1>2, <1>4 DEF ExceptionsInv
<1>6. QED
  BY <1>3, <1>5 DEF IInv

LEMMA CallFailsInv ==
    ASSUME IInv, CallFails
    PROVE  IInv'
<1>1. stack # <<>> /\ Top \in OpFrame /\ Running = "op" /\ Top = Last(stack)
  BY WhatRuns DEF IInv, CallFails, Top
<1>2. PICK f : f = [Top EXCEPT !.failed = TRUE]
  OBVIOUS
<1>3. f \in OpFrame /\ f.kind = "op" /\ f.failed /\ SameFrame(Top, f)
  BY <1>1, <1>2 DEF OpFrame, SameFrame
<1>4. f \in Frame
  BY <1>3 DEF Frame
<1>5. /\ stack' = ReplaceAt(stack, Len(stack), f)
      /\ pending' = thrown /\ thrown' = NoException /\ thrown # NoException
      /\ UNCHANGED <<flying, runtimeVars>>
  BY <1>2 DEF CallFails
<1>6. /\ Sound(stack', hasPendingJSError, sourceURL, stackScopes, handleScopes)
      /\ stack' # <<>> /\ Last(stack') = f
  BY <1>1, <1>3, <1>4, <1>5, ReplaceSound DEF IInv, RuntimeInv
<1>7. RuntimeInv'
  BY <1>5, <1>6 DEF RuntimeInv, runtimeVars
<1>8. Running' = "op"
  BY <1>3, <1>6 DEF Running, Top
<1>9. flying = NoError
  BY <1>1 DEF IInv, ExceptionsInv
<1>10. ExceptionsInv'
  BY <1>5, <1>8, <1>9 DEF IInv, ExceptionsInv
<1>11. QED
  BY <1>7, <1>10 DEF IInv

LEMMA ThrowJSExceptionInv ==
    ASSUME IInv, ThrowJSException
    PROVE  IInv'
<1>1. /\ RuntimeInv /\ Running = "op" /\ stack # <<>> /\ Top = Last(stack)
      /\ Top.failed /\ Last(stack).kind = "op"
  BY WhatRuns DEF IInv, ThrowJSException, Top
<1>2. /\ pending \in Exception /\ thrown = NoException /\ flying = NoError
      /\ pending' = NoException /\ thrown' = thrown
  BY <1>1 DEF IInv, ExceptionsInv, ScriptRuns, ThrowJSException
<1>3. CASE hasPendingJSError
  <2>1. /\ stack' = Resume(Front(stack)) /\ sourceURL' = Top.before
        /\ stackScopes' = stackScopes - Two(Top)
        /\ handleScopes' = handleScopes - Single(Top)
        /\ hasPendingJSError' = hasPendingJSError
        /\ flying' = IF Front(stack) # <<>> /\ Last(Front(stack)).kind = "build"
                     THEN NoError ELSE JSINativeException
    BY <1>3 DEF ThrowJSException, Unwind, CloseScope, Two, Single
  <2>2. RuntimeInv'
    BY <1>1, <2>1, OperationEnds DEF RuntimeInv
  <2>3. /\ Running' \in {"host", "callback", "build"}
        /\ flying' # NoError => Running' \in {"host", "callback"}
    BY <1>1, <2>1, OperationEnds DEF Running, Top
  <2>4. ExceptionsInv'
    BY <1>2, <2>1, <2>3 DEF ExceptionsInv
  <2>5. QED
    BY <2>2, <2>4 DEF IInv
<1>4. CASE ~hasPendingJSError
  <2>1. PICK stage \in {"message", "value message"} :
              stack' = Append(stack, [kind |-> "build", error |-> pending,
                                      stage |-> stage, message |-> "unread"])
    BY <1>4 DEF ThrowJSException
  <2>2. PICK f : f = [kind |-> "build", error |-> pending,
                      stage |-> stage, message |-> "unread"]
    OBVIOUS
  <2>3. f \in BuildFrame /\ f.kind = "build"
    BY <1>2, <2>2 DEF BuildFrame
  <2>4. /\ hasPendingJSError' = TRUE
        /\ UNCHANGED <<flying, sourceURL, stackScopes, handleScopes>>
    BY <1>4 DEF ThrowJSException
  <2>5. hasPendingJSError = FALSE
    <3>1. hasPendingJSError \in BOOLEAN
      BY <1>1, SoundTop DEF RuntimeInv
    <3>2. QED
      BY <1>4, <3>1
  <2>6. Pushed(stack, f, TRUE, sourceURL, stackScopes, handleScopes)
    BY <1>1, <2>3, <2>5, PushBuild DEF RuntimeInv
  <2>7. RuntimeInv' /\ stack' # <<>> /\ Last(stack') = f
    BY <2>1, <2>2, <2>4, <2>6 DEF RuntimeInv, Pushed
  <2>8. Running' = "build"
    BY <2>3, <2>7 DEF Running, Top
  <2>9. ExceptionsInv'
    BY <1>2, <2>4, <2>8 DEF ExceptionsInv
  <2>10. QED
    BY <2>7, <2>9 DEF IInv
<1>5. QED
  BY <1>3, <1>4

LEMMA AccessRunsScriptInv ==
    ASSUME IInv, AccessRunsScript
    PROVE  IInv'
<1>1. /\ stack # <<>> /\ Last(stack).kind = "build" /\ Running = "build"
      /\ Last(stack).stage \in RewriteStages
  BY WhatRuns DEF IInv, AccessRunsScript, Top, RewriteStages
<1>2. Pushed(stack, [kind |-> "access"], hasPendingJSError, sourceURL,
             stackScopes, handleScopes)
  BY <1>1, PushAccess DEF IInv, RuntimeInv
<1>3. /\ stack' = Append(stack, [kind |-> "access"])
      /\ UNCHANGED <<pending, thrown, flying, runtimeVars>>
      /\ pending = NoException
  BY DEF AccessRunsScript
<1>4. RuntimeInv' /\ stack' # <<>> /\ Last(stack').kind = "access"
  BY <1>2, <1>3 DEF RuntimeInv, Pushed, runtimeVars
<1>5. Running' = "access"
  BY <1>4 DEF Running, Top
<1>6. thrown = NoException /\ flying = NoError
  BY <1>1 DEF IInv, ExceptionsInv, ScriptRuns
<1>7. ExceptionsInv'
  BY <1>3, <1>5, <1>6 DEF IInv, ExceptionsInv
<1>8. QED
  BY <1>4, <1>7 DEF IInv

\* What rewriteErrorMessage does after one of its calls.
LEMMA AfterAccessFrames ==
    ASSUME NEW g \in BuildFrame, g.stage \in RewriteStages,
           NEW f \in AfterAccess(g)
    PROVE  f \in BuildFrame
<1>1. AfterMessage \in {"value message", "stack"}
  BY DEF AfterMessage
<1>2. CASE g.stage = "message"
  <2>1. AfterAccess(g) = {[g EXCEPT !.message = "other", !.stage = AfterMessage],
                          [g EXCEPT !.message = "string", !.stage = AfterMessage],
                          [g EXCEPT !.message = "string", !.stage = "set message"]}
    BY <1>2 DEF AfterAccess
  <2>2. QED
    BY <1>1, <2>1 DEF BuildFrame
<1>3. CASE g.stage = "set message"
  <2>1. AfterAccess(g) = {[g EXCEPT !.stage = AfterMessage]}
    BY <1>3 DEF AfterAccess
  <2>2. QED
    BY <1>1, <2>1 DEF BuildFrame
<1>4. CASE g.stage = "stack"
  <2>1. AfterAccess(g) \subseteq {[g EXCEPT !.stage = "set stack"],
                                  [g EXCEPT !.stage = "value message"]}
    BY <1>4 DEF AfterAccess
  <2>2. QED
    BY <2>1 DEF BuildFrame
<1>5. CASE g.stage = "set stack"
  <2>1. AfterAccess(g) = {[g EXCEPT !.stage = "value message"]}
    BY <1>5 DEF AfterAccess
  <2>2. QED
    BY <2>1 DEF BuildFrame
<1>6. QED
  BY <1>2, <1>3, <1>4, <1>5 DEF RewriteStages

LEMMA AccessSucceedsSound ==
    ASSUME NEW s,
           Sound(s, hasPendingJSError, sourceURL, stackScopes, handleScopes),
           s # <<>>, Last(s).kind = "build", Last(s).stage \in RewriteStages,
           AccessSucceeds(s), flying = NoError
    PROVE  /\ RuntimeInv'
           /\ Running' \in {"host", "callback", "build"}
           /\ flying' \in {NoError, JSINativeException}
           /\ flying' # NoError => Running' \in {"host", "callback"}
<1>1. CASE StackFails(Last(s)) /\ BuildEnds(s, JSINativeException)
  BY <1>1, BuildEndsSound
<1>2. CASE /\ \E f \in AfterAccess(Last(s)) : stack' = ReplaceAt(s, Len(s), f)
           /\ UNCHANGED <<flying, runtimeVars>>
  <2>1. PICK f \in AfterAccess(Last(s)) : stack' = ReplaceAt(s, Len(s), f)
    BY <1>2
  <2>2. Last(s) \in BuildFrame
    BY SoundTop
  <2>3. f \in BuildFrame
    BY <2>1, <2>2, AfterAccessFrames
  <2>4. f \in Frame /\ f.kind = "build"
    BY <2>3 DEF Frame, BuildFrame
  <2>5. SameFrame(Last(s), f)
    BY <2>4 DEF SameFrame
  <2>6. /\ Sound(stack', hasPendingJSError, sourceURL, stackScopes, handleScopes)
        /\ stack' # <<>> /\ Last(stack') = f
    BY <2>1, <2>4, <2>5, ReplaceSound
  <2>7. RuntimeInv'
    BY <1>2, <2>6 DEF RuntimeInv, runtimeVars
  <2>8. Running' = "build"
    BY <2>4, <2>6 DEF Running, Top
  <2>9. QED
    BY <1>2, <2>7, <2>8
<1>3. QED
  BY <1>1, <1>2 DEF AccessSucceeds

LEMMA PlainAccessInv ==
    ASSUME IInv, PlainAccess
    PROVE  IInv'
<1>1. /\ stack # <<>> /\ Last(stack).kind = "build" /\ Running = "build"
      /\ Last(stack).stage \in RewriteStages
  BY WhatRuns DEF IInv, PlainAccess, Top, RewriteStages
<1>2. thrown = NoException /\ flying = NoError /\ pending = NoException
  BY <1>1 DEF IInv, ExceptionsInv, ScriptRuns, PlainAccess
<1>3. /\ RuntimeInv'
      /\ Running' \in {"host", "callback", "build"}
      /\ flying' \in {NoError, JSINativeException}
      /\ flying' # NoError => Running' \in {"host", "callback"}
  BY <1>1, <1>2, AccessSucceedsSound DEF IInv, RuntimeInv, PlainAccess
<1>4. ExceptionsInv'
  BY <1>2, <1>3 DEF ExceptionsInv, PlainAccess
<1>5. QED
  BY <1>3, <1>4 DEF IInv

LEMMA AccessReturnsInv ==
    ASSUME IInv, AccessReturns
    PROVE  IInv'
<1>1. /\ stack # <<>> /\ Last(stack).kind = "access" /\ Running = "access"
      /\ Front(stack) # <<>> /\ Last(Front(stack)).kind = "build"
      /\ Last(Front(stack)).stage \in RewriteStages
  BY WhatRuns DEF IInv, AccessReturns, Top
<1>2. /\ thrown = NoException /\ flying = NoError /\ pending = NoException
      /\ UNCHANGED <<pending, thrown>> /\ AccessSucceeds(Front(stack))
  BY <1>1 DEF IInv, ExceptionsInv, ScriptRuns, AccessReturns
<1>3. Sound(Front(stack), hasPendingJSError, sourceURL, stackScopes,
            handleScopes)
  BY <1>1, PopAccess DEF IInv, RuntimeInv
<1>4. /\ RuntimeInv'
      /\ Running' \in {"host", "callback", "build"}
      /\ flying' \in {NoError, JSINativeException}
      /\ flying' # NoError => Running' \in {"host", "callback"}
  BY <1>1, <1>2, <1>3, AccessSucceedsSound
<1>5. ExceptionsInv'
  BY <1>2, <1>4 DEF ExceptionsInv
<1>6. QED
  BY <1>4, <1>5 DEF IInv

LEMMA AccessThrowsInv ==
    ASSUME IInv, AccessThrows
    PROVE  IInv'
<1>1. /\ stack # <<>> /\ Last(stack).kind = "access" /\ Running = "access"
      /\ Front(stack) # <<>> /\ Last(Front(stack)).kind = "build"
      /\ Last(Front(stack)).stage \in RewriteStages
  BY WhatRuns DEF IInv, AccessThrows, Top
<1>2. /\ stack' = Front(stack) /\ pending' = thrown /\ thrown' = NoException
      /\ UNCHANGED <<flying, runtimeVars>>
  BY DEF AccessThrows
<1>3. Sound(Front(stack), hasPendingJSError, sourceURL, stackScopes,
            handleScopes)
  BY <1>1, PopAccess DEF IInv, RuntimeInv
<1>4. RuntimeInv'
  BY <1>2, <1>3 DEF RuntimeInv, runtimeVars
<1>5. Running' = "build" /\ Top'.stage \in RewriteStages
  BY <1>1, <1>2 DEF Running, Top
<1>6. flying = NoError
  BY <1>1 DEF IInv, ExceptionsInv
<1>7. ExceptionsInv'
  BY <1>2, <1>5, <1>6 DEF IInv, ExceptionsInv
<1>8. QED
  BY <1>4, <1>7 DEF IInv

LEMMA IgnoreExceptionInv ==
    ASSUME IInv, IgnoreException
    PROVE  IInv'
<1>1. stack # <<>> /\ Top \in BuildFrame /\ Running = "build" /\ Top = Last(stack)
  BY WhatRuns DEF IInv, IgnoreException, Top
<1>2. PICK f : f = IF Top.stage = "message"
                   THEN [Top EXCEPT !.message = "failed", !.stage = AfterMessage]
                   ELSE Goto("value message")
  OBVIOUS
<1>3. f \in BuildFrame
  <2>1. AfterMessage \in {"value message", "stack"}
    BY DEF AfterMessage
  <2>2. QED
    BY <1>1, <1>2, <2>1 DEF BuildFrame, Goto
<1>4. f \in Frame /\ f.kind = "build" /\ SameFrame(Last(stack), f)
  BY <1>1, <1>3 DEF Frame, BuildFrame, SameFrame
<1>5. /\ stack' = ReplaceAt(stack, Len(stack), f) /\ pending' = NoException
      /\ UNCHANGED <<thrown, flying, runtimeVars>>
  BY <1>2 DEF IgnoreException
<1>6. /\ Sound(stack', hasPendingJSError, sourceURL, stackScopes, handleScopes)
      /\ stack' # <<>> /\ Last(stack') = f
  BY <1>1, <1>4, <1>5, ReplaceSound DEF IInv, RuntimeInv
<1>7. RuntimeInv'
  BY <1>5, <1>6 DEF RuntimeInv, runtimeVars
<1>8. Running' = "build"
  BY <1>4, <1>6 DEF Running, Top
<1>9. flying = NoError /\ thrown = NoException
  BY <1>1 DEF IInv, ExceptionsInv, ScriptRuns
<1>10. ExceptionsInv'
  BY <1>5, <1>8, <1>9 DEF IInv, ExceptionsInv
<1>11. QED
  BY <1>7, <1>10 DEF IInv

\* The error that is built ends, complete or not.
LEMMA BuildEndsInv ==
    ASSUME IInv, Running = "build",
           NEW exception \in {JSINativeException} \cup {JSError(e) : e \in Exception},
           BuildEnds(stack, exception), pending' = NoException, thrown' = thrown
    PROVE  IInv'
<1>1. stack # <<>> /\ Last(stack).kind = "build"
  BY WhatRuns DEF IInv, Top
<1>2. /\ RuntimeInv' /\ Running' \in {"host", "callback"}
      /\ flying' = exception
  BY <1>1, BuildEndsSound DEF IInv, RuntimeInv
<1>3. thrown = NoException
  BY DEF IInv, ExceptionsInv, ScriptRuns
<1>4. ExceptionsInv'
  BY <1>2, <1>3 DEF ExceptionsInv
<1>5. QED
  BY <1>2, <1>4 DEF IInv

LEMMA RewriteFailsInv ==
    ASSUME IInv, RewriteFails
    PROVE  IInv'
BY BuildEndsInv DEF RewriteFails

LEMMA JSErrorIsBuiltInv ==
    ASSUME IInv, JSErrorIsBuilt
    PROVE  IInv'
<1>1. Running = "build" /\ pending = NoException
  BY DEF JSErrorIsBuilt, InStage
<1>2. Top.error \in Exception
  BY <1>1, WhatRuns DEF IInv, BuildFrame
<1>3. QED
  BY <1>1, <1>2, BuildEndsInv DEF JSErrorIsBuilt

\* A callback goes on to its last part, with an exception pending or not.
LEMMA GoOnInv ==
    ASSUME IInv, Running = "callback", NEW p \in {"leaving", "crashed"}, GoOn(p),
           pending' \in Exception \cup {NoException},
           flying' \in {flying, NoError}, UNCHANGED <<thrown, runtimeVars>>
    PROVE  IInv'
<1>1. stack # <<>> /\ Top \in CallbackFrame /\ Top = Last(stack)
  BY WhatRuns DEF IInv, Top
<1>2. PICK f : f = [Top EXCEPT !.part = p]
  OBVIOUS
<1>3. f \in CallbackFrame /\ f.kind = "callback" /\ f.part = p
  BY <1>1, <1>2 DEF CallbackFrame
<1>4. f \in Frame /\ SameFrame(Top, f)
  BY <1>1, <1>3 DEF Frame, SameFrame, CallbackFrame
<1>5. stack' = ReplaceAt(stack, Len(stack), f)
  BY <1>2 DEF GoOn
<1>6. /\ Sound(stack', hasPendingJSError, sourceURL, stackScopes, handleScopes)
      /\ stack' # <<>> /\ Last(stack') = f
  BY <1>1, <1>4, <1>5, ReplaceSound DEF IInv, RuntimeInv
<1>7. RuntimeInv'
  BY <1>6 DEF RuntimeInv, runtimeVars
<1>8. Running' = "callback" /\ Top'.part = p
  BY <1>3, <1>6 DEF Running, Top
<1>9. thrown = NoException /\ thrown' = NoException
  BY DEF IInv, ExceptionsInv, ScriptRuns
<1>10. flying' \in {NoError, JSINativeException} \cup {JSError(e) : e \in Exception}
  BY DEF IInv, ExceptionsInv
<1>11. ExceptionsInv'
  BY <1>8, <1>9, <1>10 DEF ExceptionsInv
<1>12. QED
  BY <1>7, <1>11 DEF IInv

LEMMA CallbackReturnsInv ==
    ASSUME IInv, CallbackReturns
    PROVE  IInv'
<1>1. pending' \in Exception \cup {NoException}
  BY DEF IInv, ExceptionsInv, CallbackReturns
<1>2. QED
  BY <1>1, GoOnInv DEF CallbackReturns, InCallback

LEMMA HandleCallbackExceptionsInv ==
    ASSUME IInv, HandleCallbackExceptions
    PROVE  IInv'
<1>1. pending' \in Exception
  <2>1. CASE flying.kind = "JSError"
    BY <2>1, FlyingKinds DEF IInv, ExceptionsInv, HandleCallbackExceptions
  <2>2. CASE flying.kind # "JSError"
    BY <2>2 DEF HandleCallbackExceptions
  <2>3. QED
    BY <2>1, <2>2
<1>2. QED
  BY <1>1, GoOnInv DEF HandleCallbackExceptions

LEMMA ScopeCrashesInv ==
    ASSUME IInv, ScopeCrashes
    PROVE  IInv'
<1>1. pending' \in Exception \cup {NoException}
  BY DEF IInv, ExceptionsInv, ScopeCrashes
<1>2. QED
  BY <1>1, GoOnInv DEF ScopeCrashes

LEMMA LeaveCallbackInv ==
    ASSUME IInv, LeaveCallback
    PROVE  IInv'
<1>1. /\ stack # <<>> /\ Last(stack).kind = "callback" /\ Front(stack) # <<>>
      /\ \/ Last(Front(stack)).kind = "access"
         \/ Last(Front(stack)).kind = "op" /\ ~Last(Front(stack)).failed
  BY WhatRuns DEF IInv, LeaveCallback, Top
<1>2. /\ stack' = Front(stack) /\ stackScopes' = stackScopes - 1
      /\ flying = NoError
      /\ UNCHANGED <<pending, thrown, flying, hasPendingJSError, sourceURL,
                     handleScopes>>
  BY DEF LeaveCallback
<1>3. Sound(Front(stack), hasPendingJSError, sourceURL, stackScopes - 1,
            handleScopes)
  BY <1>1, PopCallback DEF IInv, RuntimeInv
<1>4. RuntimeInv'
  BY <1>2, <1>3 DEF RuntimeInv
<1>5. \/ Running' = "access"
      \/ Running' = "op" /\ ~Top'.failed
  BY <1>1, <1>2 DEF Running, Top
<1>6. thrown = NoException /\ pending \in Exception \cup {NoException}
  BY DEF IInv, ExceptionsInv, ScriptRuns, LeaveCallback
<1>7. ExceptionsInv'
  BY <1>2, <1>5, <1>6 DEF ExceptionsInv
<1>8. QED
  BY <1>4, <1>7 DEF IInv

LEMMA RethrowInv ==
    ASSUME IInv, Rethrow
    PROVE  IInv'
<1>1. RuntimeInv'
  BY DEF IInv, RuntimeInv, Rethrow, runtimeVars
<1>2. Running' = Running /\ Top' = Top /\ ScriptRuns'
  BY DEF Rethrow, Running, Top, ScriptRuns
<1>3. ~(Running = "op" /\ Top.failed)
  BY DEF Rethrow
<1>4. ExceptionsInv'
  BY <1>2, <1>3 DEF IInv, ExceptionsInv, Rethrow
<1>5. QED
  BY <1>1, <1>4 DEF IInv

-----------------------------------------------------------------------------
(* The theorems.                                                           *)

LEMMA InitIInv ==
    ASSUME Init
    PROVE  IInv
<1>1. /\ stack = <<>> /\ pending = NoException /\ thrown = NoException
      /\ flying = NoError /\ hasPendingJSError = FALSE /\ sourceURL = NoURL
      /\ stackScopes = 0 /\ handleScopes = 0
  BY DEF Init
<1>2. stack \in Seq(Frame) /\ Len(stack) = 0
  BY <1>1, EmptySeq
<1>3. StackInv(stack)
  BY <1>1, <1>2 DEF StackInv, FramesNest, OneBuild, SavedURLs
<1>4. \A k : Count(stack, k) = 0
  <2>1. \A k : Where(stack, k) = {}
    BY <1>2 DEF Where
  <2>2. QED
    BY <2>1, FS_EmptySet DEF Count
<1>5. NoBuild(stack) /\ IsURL(stack, Len(stack), sourceURL)
  BY <1>1, <1>2 DEF NoBuild, IsURL
<1>6. stackScopes = 2 * Count(stack, "scoped") + Count(stack, "callback")
  BY <1>1, <1>4
<1>7. Follow(stack, hasPendingJSError, sourceURL, stackScopes, handleScopes)
  BY <1>1, <1>4, <1>5, <1>6, FollowParts
<1>8. Running = "host"
  BY <1>1 DEF Running
<1>9. ExceptionsInv
  BY <1>1, <1>8 DEF ExceptionsInv
<1>10. QED
  BY <1>3, <1>7, <1>9 DEF IInv, RuntimeInv, Sound

LEMMA NextIInv ==
    ASSUME IInv, [Next]_vars
    PROVE  IInv'
<1>1. ASSUME NEW e \in Exception, ScriptThrows(e)
      PROVE  IInv'
  BY <1>1, ScriptThrowsInv
<1>2. CASE ScriptCatches
  BY <1>2, ScriptCatchesInv
<1>3. CASE CallHostFunction
  BY <1>3, EnterCallbackInv DEF CallHostFunction, CallbackPart, Views
<1>4. CASE CallHas
  BY <1>4, EnterCallbackInv DEF CallHas, CallbackPart
<1>5. CASE CallGet
  BY <1>5, EnterCallbackInv DEF CallGet, CallbackPart
<1>6. CASE CallSet
  BY <1>6, EnterCallbackInv DEF CallSet, CallbackPart
<1>7. CASE CallOwnKeys
  BY <1>7, EnterCallbackInv DEF CallOwnKeys, CallbackPart
<1>8. CASE CallGetOwnPropertyDescriptor
  BY <1>8, EnterCallbackInv DEF CallGetOwnPropertyDescriptor, CallbackPart
<1>9. ASSUME NEW o \in Operations, PlainOperation(o) \/ EnterScript(o)
      PROVE  IInv'
  BY <1>9, PlainOperationInv, EnterScriptInv
<1>10. CASE HostCatches
  BY <1>10, HostCatchesInv
<1>11. CASE HostThrows
  BY <1>11, HostThrowsInv
<1>12. CASE RuntimeStep
  BY <1>12, OperationReturnsInv, OperationFailsInv, CallFailsInv,
     ThrowJSExceptionInv, AccessRunsScriptInv, PlainAccessInv, AccessReturnsInv,
     AccessThrowsInv, IgnoreExceptionInv, RewriteFailsInv, JSErrorIsBuiltInv,
     CallbackReturnsInv, HandleCallbackExceptionsInv, LeaveCallbackInv,
     ScopeCrashesInv, RethrowInv DEF RuntimeStep
<1>13. CASE UNCHANGED vars
  BY <1>13 DEF vars, runtimeVars, IInv, RuntimeInv, ExceptionsInv, Running, Top,
               ScriptRuns
<1>14. CASE AccessTarget
  BY <1>14, AccessTargetInv
<1>15. QED
  BY <1>1, <1>2, <1>3, <1>4, <1>5, <1>6, <1>7, <1>8, <1>9, <1>10, <1>11, <1>12,
     <1>13, <1>14 DEF Next, ScriptStep, HostStep, ProcessEnded

LEMMA Invariance == Spec => []IInv
<1>1. Init => IInv
  BY InitIInv
<1>2. IInv /\ [Next]_vars => IInv'
  BY NextIInv
<1>3. QED
  BY <1>1, <1>2, PTL DEF Spec

(* Whenever code of the host runs, or JSError::setValue uses the runtime   *)
(* while it builds an error, no exception is pending in the napi_env, for  *)
(* any depth of nested calls: CHECK_NAPI and handleCallbackExceptions      *)
(* never leave one behind.                                                 *)
THEOREM NoPendingExceptionInHostHolds == Spec => []NoPendingExceptionInHost
<1>1. IInv => NoPendingExceptionInHost
  BY NothingIsPending DEF NoPendingExceptionInHost
<1>2. QED
  BY <1>1, Invariance, PTL

\* The set expressions of RuntimeFollowsStack, in terms of the classes.
LEMMA FollowsStack ==
    ASSUME RuntimeInv
    PROVE  OneErrorIsBuilt /\ RuntimeFollowsStack
<1>1. stack \in Seq(Frame) /\ DOMAIN stack = 1 .. Len(stack) /\ Len(stack) \in Nat
  BY LenProperties DEF RuntimeInv, Sound, StackInv
<1>2. \A i \in 1 .. Len(stack) : stack[i] \in Frame
  BY <1>1, ElementOfSeq
<1>3. PICK n \in Nat : n = Len(stack)
  BY <1>1
<1>4. Frames("callback") = Where(stack, "callback")
  BY <1>1 DEF Frames, Where, Class
<1>5. {i \in Frames("op") : stack[i].scoped} = Where(stack, "scoped")
  <2>1. \A i \in 1 .. Len(stack) : stack[i].kind # "scoped"
    BY <1>2, FrameKinds
  <2>2. QED
    BY <1>1, <2>1 DEF Frames, Where, Class
<1> DEFINE urls == {i \in Frames("op") : stack[i].evals}
           last == CHOOSE i \in urls : \A j \in urls : j <= i
<1>6. \A i : i \in urls <=> i \in 1 .. n /\ Evals(stack[i])
  BY <1>1, <1>3 DEF Frames, Evals
<1>7. Follow(stack, hasPendingJSError, sourceURL, stackScopes, handleScopes)
  BY DEF RuntimeInv, Sound
<1>8. hasPendingJSError <=> Building
  BY <1>1, <1>7 DEF Follow, Building
<1>9. OneErrorIsBuilt
  <2> DEFINE B == {i \in DOMAIN stack : stack[i].kind = "build"}
  <2>1. CASE B = {}
    <3>1. Cardinality(B) = 0
      BY <2>1, FS_EmptySet
    <3>2. QED
      BY <3>1 DEF OneErrorIsBuilt
  <2>2. CASE B # {}
    <3>1. PICK i : i \in B
      BY <2>2
    <3>2. B = {i}
      BY <1>1, <3>1 DEF RuntimeInv, Sound, StackInv, OneBuild
    <3>3. Cardinality(B) = 1
      BY <3>2, FS_Singleton
    <3>4. QED
      BY <3>3 DEF OneErrorIsBuilt
  <2>3. QED
    BY <2>1, <2>2
<1>10. sourceURL = IF urls = {} THEN NoURL ELSE stack[last].url
  <2>1. IsURL(stack, n, sourceURL)
    BY <1>3, <1>7 DEF Follow
  <2>2. CASE sourceURL = NoURL /\ \A i \in 1 .. n : ~Evals(stack[i])
    <3>1. urls = {}
      BY <1>6, <2>2
    <3>2. QED
      BY <2>2, <3>1
  <2>3. CASE \E i \in 1 .. n : /\ Evals(stack[i]) /\ stack[i].url = sourceURL
                              /\ \A j \in i + 1 .. n : ~Evals(stack[j])
    <3>1. PICK i \in 1 .. n : /\ Evals(stack[i]) /\ stack[i].url = sourceURL
                              /\ \A j \in i + 1 .. n : ~Evals(stack[j])
      BY <2>3
    <3>2. i \in urls /\ \A j \in urls : j <= i
      <4> HIDE DEF urls
      <4>1. QED
        BY <1>6, <3>1
    <3>3. last \in urls /\ \A j \in urls : j <= last
      BY <3>2
    <3>4. last = i
      <4> HIDE DEF last, urls
      <4>1. QED
        BY <1>6, <3>2, <3>3
    <3>5. QED
      <4> HIDE DEF last, urls
      <4>1. QED
        BY <3>1, <3>2, <3>4
  <2>4. QED
    BY <2>1, <2>2, <2>3 DEF IsURL
<1>11. /\ handleScopes = Cardinality(Where(stack, "scoped"))
       /\ stackScopes = 2 * Cardinality(Where(stack, "scoped"))
                        + Cardinality(Where(stack, "callback"))
  BY <1>7 DEF Follow, Count
<1>12. RuntimeFollowsStack
  BY <1>4, <1>5, <1>8, <1>10, <1>11 DEF RuntimeFollowsStack
<1>13. QED
  BY <1>9, <1>12

(* The fields of the runtime follow the C++ stack at any depth, whether    *)
(* frames return or an exception leaves them: hasPendingJSError_ is set    *)
(* exactly while an error is built, one is built at a time, sourceURL_ is  *)
(* that of the innermost evaluation, and no scope is left open or closed   *)
(* twice.                                                                  *)
THEOREM StackIsSoundHolds == Spec => []StackIsSound
<1>1. IInv => StackIsSound
  <2> SUFFICES ASSUME IInv
               PROVE  StackIsSound
    OBVIOUS
  <2>1. OneErrorIsBuilt /\ RuntimeFollowsStack
    BY FollowsStack DEF IInv
  <2>2. /\ stack \in Seq(Frame) /\ hasPendingJSError \in BOOLEAN
        /\ sourceURL \in URL \cup {NoURL}
        /\ stackScopes \in Nat /\ handleScopes \in Nat
    BY SoundTop DEF IInv, RuntimeInv
  <2>3. TypeOK
    BY <2>2 DEF TypeOK, Frame, IInv, ExceptionsInv
  <2>4. QED
    BY <2>1, <2>3 DEF StackIsSound
<1>2. QED
  BY <1>1, Invariance, PTL

-----------------------------------------------------------------------------
(* No exception gets lost.                                                 *)

LostStep ==
    \A e \in Exception :
       Held(e) /\ ~Held(e)' /\ ~hasPendingJSError =>
          stack' = stack /\ e \in {thrown, flying.value}

\* Without an error that is built, an exception is in one of three places.
LEMMA HeldOutsideBuild ==
    ASSUME RuntimeInv, ~hasPendingJSError, NEW e
    PROVE  Held(e) <=> e \in {thrown, pending, flying.value}
<1>1. NoBuild(stack) /\ DOMAIN stack = 1 .. Len(stack)
  BY SoundTop, LenProperties DEF RuntimeInv
<1>2. QED
  BY <1>1 DEF Held, NoBuild

LEMMA HeldNext ==
    ASSUME NEW e, e \in {thrown', pending', flying'.value}
    PROVE  Held(e)'
BY DEF Held

LEMMA NextLosesNone ==
    ASSUME IInv, [Next]_vars
    PROVE  LostStep
<1> SUFFICES ASSUME NEW e \in Exception, ~hasPendingJSError,
                    e \in {thrown, pending, flying.value}, ~Held(e)'
             PROVE  stack' = stack /\ e \in {thrown, flying.value}
  BY HeldOutsideBuild DEF LostStep, IInv
<1>1. e # NoException
  BY NoExceptionAssumption
<1>2. e \notin {thrown', pending', flying'.value}
  BY HeldNext
<1>3. Running \notin {"build", "access"}
  <2>1. Running # "build"
    BY WhatRuns DEF IInv
  <2>2. Running # "access"
    <3>1. Running = "access" => ~NoBuild(Front(stack))
      <4> SUFFICES ASSUME Running = "access"
                   PROVE  ~NoBuild(Front(stack))
        OBVIOUS
      <4>1. /\ stack # <<>> /\ Front(stack) # <<>>
            /\ Last(Front(stack)).kind = "build"
        BY WhatRuns DEF IInv
      <4>2. Front(stack) \in Seq(Frame)
        BY <4>1, BelowTop DEF IInv, RuntimeInv
      <4>3. QED
        BY <4>1, <4>2, EmptyOrTop DEF NoBuild
    <3>2. Running = "access" => Sound(Front(stack), hasPendingJSError, sourceURL,
                                      stackScopes, handleScopes)
      BY WhatRuns, PopAccess DEF IInv, RuntimeInv, Top
    <3>3. QED
      BY <3>1, <3>2, SoundTop
  <2>3. QED
    BY <2>1, <2>2
<1>4. /\ flying \in {NoError, JSINativeException} \cup {JSError(x) : x \in Exception}
      /\ pending # NoException =>
            Running = "op" \/ (Running = "callback" /\ ~InCallback)
      /\ thrown # NoException => ScriptRuns
      /\ flying # NoError => Running \in {"host", "callback"}
      /\ flying.value # NoException => flying # NoError /\ flying.kind = "JSError"
  BY <1>3, FlyingKinds DEF IInv, ExceptionsInv, InCallback, CallbackPart
<1>5. ASSUME NEW x \in Exception, ScriptThrows(x)
      PROVE  FALSE
  BY <1>1, <1>2, <1>5 DEF ScriptThrows
<1>6. CASE ScriptCatches
  BY <1>2, <1>6 DEF ScriptCatches
<1>7. ASSUME NEW part, NEW exception, EnterCallback(part, exception)
      PROVE  FALSE
  <2>1. thrown = NoException /\ pending = NoException
    BY <1>7 DEF EnterCallback, ScriptRuns
  <2>2. Running \notin {"host", "callback"}
    BY <1>7 DEF EnterCallback, ScriptRuns
  <2>3. QED
    BY <1>1, <1>4, <2>1, <2>2
<1>8. CASE CallHostFunction \/ CallHas \/ CallGet \/ CallSet \/ CallOwnKeys
           \/ CallGetOwnPropertyDescriptor
  BY <1>7, <1>8 DEF CallHostFunction, CallHas, CallGet, CallSet, CallOwnKeys,
                    CallGetOwnPropertyDescriptor
<1>9. ASSUME NEW o \in Operations, PlainOperation(o) \/ EnterScript(o)
      PROVE  FALSE
  <2>1. UNCHANGED <<pending, thrown>>
    BY <1>9 DEF PlainOperation, EnterScript, CallScript
  <2>2. flying = NoError
    BY <1>3, <1>9 DEF PlainOperation, EnterScript, HostRuns, SetValueRuns
  <2>3. QED
    BY <1>1, <1>2, <2>1, <2>2, FlyingKinds
<1>10. CASE HostCatches
  BY <1>2, <1>10 DEF HostCatches
<1>11. CASE HostThrows
  <2>1. flying = NoError /\ UNCHANGED <<pending, thrown>>
    BY <1>11 DEF HostThrows, HostRuns
  <2>2. QED
    BY <1>1, <1>2, <2>1, FlyingKinds
<1>12. CASE OperationReturns
  BY <1>2, <1>12 DEF OperationReturns
<1>21. CASE OperationFails
  <2>1. flying = NoError /\ UNCHANGED <<pending, thrown>>
    BY <1>4, <1>21 DEF OperationFails
  <2>2. QED
    BY <1>1, <1>2, <2>1, FlyingKinds
<1>22. CASE AccessTarget
  BY <1>2, <1>22 DEF AccessTarget, CallScript
<1>13. CASE CallFails
  BY <1>1, <1>2, <1>13 DEF CallFails, ScriptRuns
<1>14. CASE ThrowJSException
  <2>1. PICK stage \in {"message", "value message"} :
              stack' = Append(stack, [kind |-> "build", error |-> pending,
                                      stage |-> stage, message |-> "unread"])
    BY <1>14 DEF ThrowJSException
  <2>2. stack \in Seq(Frame)
    BY SoundTop DEF IInv, RuntimeInv
  <2>3. /\ UNCHANGED <<flying, thrown>>
    BY <1>14 DEF ThrowJSException
  <2>4. e = pending
    BY <1>2, <2>3
  <2>5. PICK f : f = [kind |-> "build", error |-> pending,
                      stage |-> stage, message |-> "unread"]
    OBVIOUS
  <2>6. f \in Frame
    BY <1>1, <2>4, <2>5 DEF Frame, BuildFrame
  <2>7. IsPush(stack, f, stack')
    BY <2>1, <2>2, <2>5, <2>6, AppendPushes
  <2>8. Len(stack') \in DOMAIN stack' /\ stack'[Len(stack')] = f
    BY <2>7, TopOfPush
  <2>9. Held(e)'
    <3>1. f.kind = "build" /\ f.error = e
      BY <2>4, <2>5
    <3>2. \E i \in DOMAIN stack' :
             stack'[i].kind = "build" /\ stack'[i].error = e
      BY <2>8, <3>1
    <3>3. QED
      BY <3>2 DEF Held
  <2>10. QED
    BY <2>9
<1>15. CASE AccessRunsScript \/ PlainAccess \/ AccessReturns \/ AccessThrows
            \/ IgnoreException \/ RewriteFails \/ JSErrorIsBuilt
  BY <1>3, <1>15 DEF AccessRunsScript, PlainAccess, AccessReturns, AccessThrows,
                     IgnoreException, RewriteFails, JSErrorIsBuilt, InStage
<1>16. CASE CallbackReturns
  BY <1>2, <1>16 DEF CallbackReturns
<1>17. CASE HandleCallbackExceptions
  <2>1. InCallback /\ Running = "callback" /\ thrown' = thrown
    BY <1>17 DEF HandleCallbackExceptions, HostUnwinds, InCallback
  <2>2. e = flying.value
    BY <1>1, <1>2, <1>4, <2>1
  <2>3. pending' = flying.value
    BY <1>1, <1>4, <1>17, <2>2 DEF HandleCallbackExceptions
  <2>4. QED
    BY <1>2, <2>2, <2>3
<1>18. CASE Rethrow
  <2>1. thrown = NoException
    BY <1>4, <1>18 DEF Rethrow, ScriptRuns
  <2>2. QED
    BY <1>1, <1>2, <1>18, <2>1 DEF Rethrow
<1>19. CASE LeaveCallback \/ ScopeCrashes
  BY <1>2, <1>19 DEF LeaveCallback, ScopeCrashes
<1>20. CASE UNCHANGED vars
  BY <1>2, <1>20 DEF vars
<1>23. QED
  BY <1>5, <1>6, <1>8, <1>9, <1>10, <1>11, <1>12, <1>13, <1>14, <1>15, <1>16,
     <1>17, <1>18, <1>19, <1>20, <1>21, <1>22
  DEF Next, ScriptStep, HostStep, RuntimeStep, ProcessEnded

(* Outside the building of an error no exception gets lost, however often  *)
(* it crosses the border between host and script: CHECK_NAPI takes it out  *)
(* of the napi_env into a JSError, handleCallbackExceptions puts it back,  *)
(* and only a handler of a script or of the host ends it.                  *)
THEOREM NoExceptionIsLostHolds == Spec => NoExceptionIsLost
<1>1. IInv /\ [Next]_vars => [LostStep]_vars
  BY NextLosesNone
<1>2. QED
  BY <1>1, Invariance, PTL DEF Spec, NoExceptionIsLost, LostStep
=============================================================================
