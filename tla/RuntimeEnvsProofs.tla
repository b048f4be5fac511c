------------------------- MODULE RuntimeEnvsProofs -------------------------
(***************************************************************************)
(* Proofs about RuntimeEnvs for any number of runtimes, environments,      *)
(* finalizers and scopes: the references of environments, the lists of the *)
(* runtimes, the immediates and the scopes agree, and the last unhandled   *)
(* rejection of a runtime is one.                                          *)
(***************************************************************************)
EXTENDS RuntimeEnvs, SequenceTheorems, FiniteSetTheorems, TLAPS

Phase == {"none", "live", "deleted"}
EnvRecord == [phase : Phase, rt : Runtime \cup {None}, refs : 0 .. 2,
              scheduled : BOOLEAN, destructing : BOOLEAN,
              pending : 0 .. MaxFinalizer, owned : BOOLEAN, late : BOOLEAN]
RuntimeRecord == [phase : Phase, wrapper : BOOLEAN, root : Env \cup {None},
                  runner : BOOLEAN]
CallRecord == [kind : {"task", "delete"}, env : Env,
               step : {"remove", "unref", "drain"}, rest : Seq(Env)]

CoreTypes ==
    /\ rt \in [Runtime -> RuntimeRecord]
    /\ list \in [Runtime -> Seq(Env)]
    /\ env \in [Env -> EnvRecord]
    /\ tasks \in Seq(Env)
    /\ calls \in Seq(CallRecord)
    /\ enqueued \in 0 .. MaxFinalizer
    /\ \A e \in Env : env[e].pending <= enqueued

In(e, s) == \E i \in 1 .. Len(s) : s[i] = e

\* ListedEnvsAreLive, by membership.
ListedLive ==
    /\ \A r \in LiveRuntime, e \in Env : In(e, list[r]) => Live(e)
    /\ \A k \in 1 .. Len(calls) :
          \A e \in Env : In(e, calls[k].rest) => Live(e)

\* The environment scopes of the thread.
ScopeInv ==
    /\ lockers \in Seq([rt : Runtime, refs : 1 .. MaxScope])
    /\ handles \in Seq(Nat)
    /\ Len(handles) <= MaxScope
    /\ ScopesHoldLockers

\* The unhandled rejections.
RejectionInv ==
    /\ promise \in [Promise -> [rt : Runtime \cup {None}, handled : BOOLEAN]]
    /\ last \in [Runtime -> Promise \cup {None}]
    /\ LastRejectionIsUnhandled

-----------------------------------------------------------------------------
(* The books of environments and runtimes, while the process runs.         *)

One(b) == IF b THEN 1 ELSE 0

\* An environment belongs to a runtime that was created, and is deleted
\* without references.
EnvOK(e) ==
    /\ env[e].refs = One(env[e].scheduled) + One(env[e].owned)
    /\ env[e].phase = "none" => env[e].refs = 0
    /\ env[e].phase # "none" =>
          /\ env[e].rt \in Runtime
          /\ rt[env[e].rt].phase # "none"
          /\ env[e].destructing <=> env[e].refs = 0
    /\ env[e].phase = "deleted" => env[e].destructing

\* An environment has one task when it is scheduled, and none otherwise.
TaskInv ==
    /\ IsInjective(tasks)
    /\ \A e \in Env : env[e].scheduled <=> In(e, tasks)

PendOK(e) ==
    Live(e) /\ env[e].pending > 0 /\ ~env[e].destructing =>
        \/ env[e].scheduled
        \/ \E i \in 1 .. Len(calls) : calls[i].env = e

\* The root environment lives as long as its runtime, and the jsr_runtime
\* owns it.
RtOK(r) ==
    /\ rt[r].wrapper => rt[r].phase = "live"
    /\ rt[r].phase # "none" => /\ rt[r].root \in Env
                               /\ env[rt[r].root].rt = r
                               /\ env[rt[r].root].phase # "none"
    /\ rt[r].phase = "live" => /\ Live(rt[r].root)
                               /\ rt[r].wrapper <=> env[rt[r].root].owned

\* The list of a runtime has its environments, once each, until they take
\* themselves out, and the runtime lets go of them after the root has.
ListOK(r) ==
    rt[r].phase = "live" =>
       /\ IsInjective(list[r])
       /\ \A e \in Env : In(e, list[r]) => env[e].rt = r
       /\ \A e \in Env : /\ Live(e) /\ env[e].rt = r /\ ~env[e].destructing
                         => In(e, list[r])
       /\ \A e \in Env : /\ Live(e) /\ env[e].rt = r /\ ~env[e].owned
                         /\ e # rt[r].root
                         => ~In(rt[r].root, list[r])

IsDelete(c) == c.kind = "delete"
RootOf(e) == rt[env[e].rt].root

\* A deletion in progress is of a live environment of a live runtime.  Only
\* the root goes through a copy of the list, of environments that are owned.
CallOK(c) ==
    /\ ~IsDelete(c) => c.step = "drain"
    /\ IsDelete(c) => /\ Live(c.env) /\ env[c.env].destructing
                      /\ rt[env[c.env].rt].phase = "live"
                      /\ c.step = "remove" <=> In(c.env, list[env[c.env].rt])
    /\ c.rest # <<>> => IsDelete(c) /\ c.step = "unref" /\ c.env = RootOf(c.env)
    /\ IsInjective(c.rest)
    /\ \A e \in Env : In(e, c.rest) => /\ Live(e) /\ env[e].owned
                                        /\ env[e].rt = env[c.env].rt
                                        /\ e # c.env

\* Deletions nest, each of another environment, and that of a root is the
\* outermost.
NestOK(s) ==
    \A i, j \in 1 .. Len(s) :
       i < j /\ IsDelete(s[i]) /\ IsDelete(s[j]) =>
          /\ s[i].env # s[j].env
          /\ s[j].env # RootOf(s[j].env)

\* What the root has yet to let go of is in its copy of the list, unless it
\* was created in the teardown.
CoverOK(c) ==
    IsDelete(c) /\ c.env = RootOf(c.env) /\ c.step # "remove" =>
       \A e \in Env : /\ Live(e) /\ env[e].rt = env[c.env].rt
                      /\ env[e].owned /\ ~env[e].late
                      => In(e, c.rest)

\* A deleted runtime owns nothing.
LeftOK(e) ==
    Live(e) /\ rt[env[e].rt].phase = "deleted" => env[e].late \/ ~env[e].owned

\* An environment whose references are gone is being deleted.
DeletingOK(e) ==
    Live(e) /\ env[e].destructing =>
        \E i \in 1 .. Len(calls) : IsDelete(calls[i]) /\ calls[i].env = e

BookInv ==
    /\ \A r \in Runtime : RtOK(r) /\ ListOK(r)
    /\ \A i \in 1 .. Len(calls) : CallOK(calls[i]) /\ CoverOK(calls[i])
    /\ NestOK(calls)
    /\ \A e \in Env : LeftOK(e) /\ DeletingOK(e)

RunInv ==
    /\ \A e \in Env : EnvOK(e) /\ PendOK(e)
    /\ TaskInv
    /\ BookInv

IInv ==
    /\ process \in {"running", "null", "runtime", "exit"}
    /\ CoreTypes
    /\ ListedLive
    /\ ScopeInv
    /\ RejectionInv
    /\ process = "running" => RunInv

-----------------------------------------------------------------------------
(* Sequences without repetition.                                           *)

LEMMA InjectiveAppend ==
    ASSUME NEW S, NEW s \in Seq(S), NEW x \in S
    PROVE  /\ Append(s, x) \in Seq(S)
           /\ \A y : In(y, Append(s, x)) <=> In(y, s) \/ y = x
           /\ IsInjective(s) /\ ~In(x, s) => IsInjective(Append(s, x))
<1> DEFINE n == Len(s)  a == Append(s, x)
<1>1. /\ n \in Nat /\ a \in Seq(S) /\ Len(a) = n + 1 /\ a[n + 1] = x
      /\ \A i \in 1 .. n : a[i] = s[i]
      /\ DOMAIN a = 1 .. n + 1 /\ DOMAIN s = 1 .. n
  BY AppendProperties, LenProperties
<1> HIDE DEF n, a
<1>2. /\ \A i \in 1 .. n + 1 : i \in 1 .. n \/ i = n + 1
      /\ \A i \in 1 .. n : i \in 1 .. n + 1
      /\ n + 1 \in 1 .. n + 1
  BY <1>1
<1>3. \A y : In(y, a) <=> In(y, s) \/ y = x
  BY <1>1, <1>2 DEF In, n
<1>4. ASSUME IsInjective(s), ~In(x, s) PROVE IsInjective(a)
  BY <1>1, <1>2, <1>4 DEF IsInjective, In, n
<1>5. QED
  BY <1>1, <1>3, <1>4 DEF a

LEMMA InjectiveTail ==
    ASSUME NEW S, NEW s \in Seq(S), s # <<>>, IsInjective(s)
    PROVE  /\ Tail(s) \in Seq(S) /\ IsInjective(Tail(s))
           /\ Head(s) \in S /\ In(Head(s), s)
           /\ \A y : In(y, Tail(s)) <=> In(y, s) /\ y # Head(s)
<1> DEFINE n == Len(s)  t == Tail(s)
<1>1. /\ n \in Nat \ {0} /\ t \in Seq(S) /\ Len(t) = n - 1 /\ Head(s) = s[1]
      /\ Head(s) \in S /\ \A i \in 1 .. n - 1 : t[i] = s[i + 1]
      /\ DOMAIN t = 1 .. n - 1 /\ DOMAIN s = 1 .. n
  BY HeadTailProperties, EmptySeq, LenProperties
<1> HIDE DEF n, t
<1>2. /\ \A i \in 1 .. n : i = 1 \/ (i - 1 \in 1 .. n - 1 /\ i = (i - 1) + 1)
      /\ \A i \in 1 .. n - 1 : i + 1 \in 1 .. n /\ i + 1 # 1
      /\ \A i, j \in 1 .. n - 1 : i + 1 = j + 1 => i = j
      /\ 1 \in 1 .. n
  BY <1>1
<1>3. IsInjective(t)
  <2>1. ASSUME NEW i \in 1 .. n - 1, NEW j \in 1 .. n - 1, t[i] = t[j]
        PROVE  i = j
    <3>1. /\ s[i + 1] = s[j + 1] /\ i + 1 \in DOMAIN s /\ j + 1 \in DOMAIN s
      BY <1>1, <1>2, <2>1
    <3>2. i + 1 = j + 1
      BY <3>1 DEF IsInjective
    <3>3. QED
      BY <1>2, <3>2
  <2>2. QED
    BY <1>1, <2>1 DEF IsInjective
<1>4. In(Head(s), s)
  BY <1>1, <1>2 DEF In, n
<1>5. ASSUME NEW y PROVE In(y, t) <=> In(y, s) /\ y # Head(s)
  <2>1. ASSUME In(y, t) PROVE In(y, s) /\ y # Head(s)
    <3>1. PICK i \in 1 .. n - 1 : t[i] = y
      BY <1>1, <2>1 DEF In
    <3>2. i + 1 \in 1 .. n /\ s[i + 1] = y /\ i + 1 # 1
      BY <1>1, <1>2, <3>1
    <3>3. QED
      BY <1>1, <1>2, <3>2 DEF In, IsInjective, n
  <2>2. ASSUME In(y, s), y # Head(s) PROVE In(y, t)
    <3>1. PICK i \in 1 .. n : s[i] = y
      BY <2>2 DEF In, n
    <3>2. i - 1 \in 1 .. n - 1 /\ t[i - 1] = y
      BY <1>1, <1>2, <2>2, <3>1
    <3>3. QED
      BY <1>1, <3>2 DEF In
  <2>3. QED
    BY <2>1, <2>2
<1>6. QED
  BY <1>1, <1>3, <1>4, <1>5 DEF t

LEMMA FrontProperties ==
    ASSUME NEW S, NEW s \in Seq(S), s # <<>>
    PROVE  /\ Front(s) \in Seq(S) /\ Len(s) \in Nat \ {0}
           /\ Len(Front(s)) = Len(s) - 1
           /\ \A i \in 1 .. Len(s) - 1 : Front(s)[i] = s[i]
<1> DEFINE n == Len(s)
<1>1. n \in Nat \ {0} /\ \A i \in 1 .. n : s[i] \in S
  BY LenProperties, EmptySeq, ElementOfSeq
<1>2. /\ SubSeq(s, 1, n - 1) \in Seq(S) /\ Len(SubSeq(s, 1, n - 1)) = n - 1
      /\ \A i \in 1 .. n - 1 : SubSeq(s, 1, n - 1)[i] = s[i]
  <2>1. n - 1 \in Nat /\ \A i \in 1 .. n - 1 : s[i] \in S
    BY <1>1
  <2> DEFINE m == n - 1
  <2>2. m \in Nat /\ \A i \in 1 .. m : s[i] \in S
    BY <2>1
  <2> HIDE DEF m
  <2>3. /\ SubSeq(s, 1, m) \in Seq(S) /\ Len(SubSeq(s, 1, m)) = m
        /\ \A i \in 1 .. m : SubSeq(s, 1, m)[i] = s[i]
    BY <2>2, SubSeqProperties
  <2>4. QED
    BY <2>3 DEF m
<1>3. QED
  BY <1>1, <1>2 DEF Front

\* Leaving out position k.
LEMMA RemoveAtProperties ==
    ASSUME NEW S, NEW s \in Seq(S), NEW k \in 1 .. Len(s)
    PROVE  /\ RemoveAt(s, k) \in Seq(S)
           /\ Len(s) \in Nat \ {0} /\ Len(RemoveAt(s, k)) = Len(s) - 1
           /\ \A i \in 1 .. Len(s) - 1 :
                 RemoveAt(s, k)[i] = IF i < k THEN s[i] ELSE s[i + 1]
<1> DEFINE n == Len(s)  a == SubSeq(s, 1, k - 1)  b == SubSeq(s, k + 1, n)
<1>1. n \in Nat \ {0} /\ \A i \in 1 .. n : s[i] \in S
  BY LenProperties, ElementOfSeq
<1>2. /\ a \in Seq(S) /\ Len(a) = k - 1
      /\ \A i \in 1 .. k - 1 : a[i] = s[i]
  BY <1>1, SubSeqProperties
<1>3. /\ b \in Seq(S) /\ Len(b) = n - k
      /\ \A i \in 1 .. n - k : b[i] = s[k + i]
  <2>1. CASE k = n
    BY <1>1, <2>1, SubSeqProperties
  <2>2. CASE k < n
    BY <1>1, <2>2, SubSeqProperties
  <2>3. QED
    BY <1>1, <2>1, <2>2
<1> HIDE DEF a, b, n
<1>4. /\ a \o b \in Seq(S) /\ Len(a \o b) = (k - 1) + (n - k)
      /\ \A i \in 1 .. (k - 1) + (n - k) :
            (a \o b)[i] = IF i <= k - 1 THEN a[i] ELSE b[i - (k - 1)]
  <2>1. /\ a \o b \in Seq(S) /\ Len(a \o b) = Len(a) + Len(b)
        /\ \A i \in 1 .. Len(a) + Len(b) :
              (a \o b)[i] = IF i <= Len(a) THEN a[i] ELSE b[i - Len(a)]
    BY <1>2, <1>3, ConcatProperties
  <2>2. QED
    BY <1>2, <1>3, <2>1
<1>5. (k - 1) + (n - k) = n - 1 /\ k \in 1 .. n
  BY <1>1 DEF n
<1>6. ASSUME NEW i \in 1 .. n - 1
      PROVE  (a \o b)[i] = IF i < k THEN s[i] ELSE s[i + 1]
  <2>1. CASE i < k
    <3>1. i <= k - 1 /\ i \in 1 .. k - 1
      BY <1>1, <1>5, <2>1
    <3>2. QED
      BY <1>2, <1>4, <1>5, <2>1, <3>1
  <2>2. CASE ~(i < k)
    <3>1. /\ ~(i <= k - 1) /\ i - (k - 1) \in 1 .. n - k
          /\ k + (i - (k - 1)) = i + 1
      BY <1>1, <1>5, <2>2
    <3>2. QED
      BY <1>3, <1>4, <1>5, <2>2, <3>1
  <2>3. QED
    BY <2>1, <2>2
<1>7. QED
  BY <1>1, <1>4, <1>5, <1>6 DEF RemoveAt, a, b, n

\* std::find and erase, of an environment that is there at most once.
LEMMA RemoveFirstProperties ==
    ASSUME NEW S, NEW s \in Seq(S), IsInjective(s), NEW x
    PROVE  /\ RemoveFirst(s, x) \in Seq(S) /\ IsInjective(RemoveFirst(s, x))
           /\ \A y : In(y, RemoveFirst(s, x)) <=> In(y, s) /\ y # x
<1>1. CASE ~In(x, s)
  BY <1>1 DEF RemoveFirst, In
<1>2. CASE In(x, s)
  <2> DEFINE n == Len(s)
  <2>1. n \in Nat /\ DOMAIN s = 1 .. n
    BY LenProperties
  <2>2. PICK k \in 1 .. n : s[k] = x
    BY <1>2 DEF In
  <2>3. {i \in 1 .. n : s[i] = x} = {k}
    BY <2>1, <2>2 DEF IsInjective
  <2>4. Min({k}) = k
    <3>1. k \in {k} /\ \A y \in {k} : k <= y
      BY <2>1
    <3>2. QED
      BY <3>1 DEF Min
  <2>5. RemoveFirst(s, x) = RemoveAt(s, k)
    BY <1>2, <2>3, <2>4 DEF RemoveFirst, SelectInSeq, In
  <2> DEFINE t == RemoveAt(s, k)
  <2>6. /\ t \in Seq(S) /\ n \in Nat \ {0} /\ Len(t) = n - 1
        /\ \A i \in 1 .. n - 1 : t[i] = IF i < k THEN s[i] ELSE s[i + 1]
        /\ DOMAIN t = 1 .. n - 1
    BY RemoveAtProperties, LenProperties
  <2> HIDE DEF t, n
  <2>7. \A i \in 1 .. n - 1 :
           /\ i < k => i \in 1 .. n /\ i # k
           /\ ~(i < k) => i + 1 \in 1 .. n /\ i + 1 # k
    BY <2>2, <2>6
  <2>8. IsInjective(t)
    <3>1. ASSUME NEW i \in 1 .. n - 1, NEW j \in 1 .. n - 1, t[i] = t[j]
          PROVE  i = j
      <4>1. CASE i < k /\ j < k
        BY <2>1, <2>6, <2>7, <3>1, <4>1 DEF IsInjective
      <4>2. CASE i < k /\ ~(j < k)
        <5>1. i = j + 1
          BY <2>1, <2>6, <2>7, <3>1, <4>2 DEF IsInjective
        <5>2. QED
          BY <2>2, <2>6, <4>2, <5>1
      <4>3. CASE ~(i < k) /\ j < k
        <5>1. i + 1 = j
          BY <2>1, <2>6, <2>7, <3>1, <4>3 DEF IsInjective
        <5>2. QED
          BY <2>2, <2>6, <4>3, <5>1
      <4>4. CASE ~(i < k) /\ ~(j < k)
        <5>1. i + 1 = j + 1
          BY <2>1, <2>6, <2>7, <3>1, <4>4, SMTT(40) DEF IsInjective
        <5>2. QED
          BY <2>6, <5>1
      <4>5. QED
        BY <4>1, <4>2, <4>3, <4>4
    <3>2. QED
      BY <2>6, <3>1 DEF IsInjective
  <2>9. ASSUME NEW y PROVE In(y, t) <=> In(y, s) /\ y # x
    <3>1. ASSUME In(y, t) PROVE In(y, s) /\ y # x
      <4>1. PICK i \in 1 .. n - 1 : t[i] = y
        BY <2>6, <3>1 DEF In
      <4>2. PICK j \in 1 .. n : s[j] = y /\ j # k
        BY <2>6, <2>7, <4>1
      <4>3. QED
        BY <2>1, <2>2, <4>2 DEF In, IsInjective, n
    <3>2. ASSUME In(y, s), y # x PROVE In(y, t)
      <4>1. PICK j \in 1 .. n : s[j] = y
        BY <3>2 DEF In, n
      <4>2. j # k
        BY <2>2, <3>2, <4>1
      <4>3. CASE j < k
        <5>1. j \in 1 .. n - 1
          BY <2>2, <2>6, <4>3
        <5>2. QED
          BY <2>6, <4>1, <4>3, <5>1 DEF In
      <4>4. CASE ~(j < k)
        <5>1. j - 1 \in 1 .. n - 1 /\ ~(j - 1 < k) /\ (j - 1) + 1 = j
          BY <2>2, <2>6, <4>2, <4>4
        <5>2. QED
          BY <2>6, <4>1, <5>1 DEF In
      <4>5. QED
        BY <4>3, <4>4
    <3>3. QED
      BY <3>1, <3>2
  <2>10. QED
    BY <2>5, <2>6, <2>8, <2>9 DEF t
<1>3. QED
  BY <1>1, <1>2

-----------------------------------------------------------------------------
(* Environment scopes.                                                     *)

Holders(h, i) == {k \in 1 .. Len(h) : h[k] = i}

LEMMA HoldersFinite ==
    ASSUME NEW h \in Seq(Nat), NEW i
    PROVE  /\ IsFiniteSet(Holders(h, i)) /\ Cardinality(Holders(h, i)) \in Nat
           /\ Cardinality(Holders(h, i)) <= Len(h)
           /\ Cardinality(Holders(h, i)) = 0 <=> \A k \in 1 .. Len(h) : h[k] # i
<1>1. Len(h) \in Nat
  BY LenProperties
<1>2. IsFiniteSet(1 .. Len(h)) /\ Cardinality(1 .. Len(h)) = Len(h)
  <2>1. Cardinality(1 .. Len(h)) = IF 1 > Len(h) THEN 0 ELSE Len(h) - 1 + 1
    BY <1>1, FS_Interval
  <2>2. QED
    BY <1>1, <2>1, FS_Interval, SMTT(40)
<1>3. Holders(h, i) \in SUBSET (1 .. Len(h))
  BY DEF Holders
<1>4. /\ IsFiniteSet(Holders(h, i))
      /\ Cardinality(Holders(h, i)) <= Cardinality(1 .. Len(h))
  BY <1>2, <1>3, FS_Subset
<1>5. Cardinality(Holders(h, i)) = 0 <=> Holders(h, i) = {}
  BY <1>4, FS_EmptySet
<1>6. QED
  BY <1>2, <1>4, <1>5, FS_CardinalityType DEF Holders

LEMMA HoldersAppend ==
    ASSUME NEW h \in Seq(Nat), NEW x \in Nat, NEW i
    PROVE  Cardinality(Holders(Append(h, x), i)) =
              Cardinality(Holders(h, i)) + One(x = i)
<1> DEFINE n == Len(h)  a == Append(h, x)  H == Holders(h, i)
<1>1. /\ n \in Nat /\ Len(a) = n + 1 /\ a[n + 1] = x
      /\ \A k \in 1 .. n : a[k] = h[k]
  BY AppendProperties, LenProperties
<1>2. IsFiniteSet(H) /\ Cardinality(H) \in Nat
  BY HoldersFinite
<1>3. n + 1 \notin H
  BY <1>1 DEF Holders
<1> HIDE DEF n, a
<1>4. /\ \A k \in 1 .. n + 1 : k \in 1 .. n \/ k = n + 1
      /\ \A k \in 1 .. n : k \in 1 .. n + 1 /\ k # n + 1
      /\ n + 1 \in 1 .. n + 1
  BY <1>1
<1>5. CASE x = i
  <2>1. Holders(a, i) = H \cup {n + 1}
    BY <1>1, <1>4, <1>5 DEF Holders, n
  <2>2. QED
    BY <1>2, <1>3, <1>5, <2>1, FS_AddElement DEF One, a
<1>6. CASE x # i
  <2>1. Holders(a, i) = H
    BY <1>1, <1>4, <1>6 DEF Holders, n
  <2>2. QED
    BY <1>2, <1>6, <2>1 DEF One, a
<1>7. QED
  BY <1>5, <1>6

LEMMA HoldersRemove ==
    ASSUME NEW h \in Seq(Nat), NEW k \in 1 .. Len(h), NEW i
    PROVE  Cardinality(Holders(RemoveAt(h, k), i)) =
              Cardinality(Holders(h, i)) - One(h[k] = i)
<1> DEFINE n == Len(h)  t == RemoveAt(h, k)  H == Holders(h, i)
           T == Holders(t, i)
           f == [j \in T |-> IF j < k THEN j ELSE j + 1]
<1>1. /\ n \in Nat \ {0} /\ Len(t) = n - 1 /\ t \in Seq(Nat)
      /\ \A j \in 1 .. n - 1 : t[j] = IF j < k THEN h[j] ELSE h[j + 1]
  BY RemoveAtProperties
<1>2. IsFiniteSet(H) /\ IsFiniteSet(T) /\ Cardinality(H) \in Nat
  BY <1>1, HoldersFinite
<1>3. k \in 1 .. n
  OBVIOUS
<1>4. /\ \A j \in H : j \in 1 .. n /\ h[j] = i
      /\ \A j \in 1 .. n : h[j] = i => j \in H
  BY DEF Holders
<1>5. /\ \A j \in T : j \in 1 .. n - 1 /\ t[j] = i
      /\ \A j \in 1 .. n - 1 : t[j] = i => j \in T
  BY <1>1 DEF Holders
<1> HIDE DEF n, t, H, T
<1>6. ASSUME NEW j \in T PROVE f[j] \in H \ {k}
  <2>1. j \in 1 .. n - 1 /\ t[j] = i /\ f[j] = IF j < k THEN j ELSE j + 1
    BY <1>5
  <2>2. f[j] \in 1 .. n /\ f[j] # k
    BY <1>1, <1>3, <2>1
  <2>3. h[f[j]] = i
    BY <1>1, <2>1
  <2>4. QED
    BY <1>4, <2>2, <2>3
<1>7. ASSUME NEW j \in T, NEW l \in T, f[j] = f[l] PROVE j = l
  <2>1. j \in 1 .. n - 1 /\ l \in 1 .. n - 1
    BY <1>5
  <2>2. /\ f[j] = IF j < k THEN j ELSE j + 1
        /\ f[l] = IF l < k THEN l ELSE l + 1
    OBVIOUS
  <2>3. QED
    BY <1>1, <1>3, <1>7, <2>1, <2>2
<1>8. ASSUME NEW y \in H \ {k} PROVE \E j \in T : f[j] = y
  <2>1. y \in 1 .. n /\ h[y] = i /\ y # k
    BY <1>4
  <2>2. CASE y < k
    <3>1. y \in 1 .. n - 1 /\ t[y] = i
      BY <1>1, <1>3, <2>1, <2>2
    <3>2. y \in T /\ f[y] = y
      BY <1>5, <2>2, <3>1
    <3>3. QED
      BY <3>2
  <2>3. CASE ~(y < k)
    <3>1. y - 1 \in 1 .. n - 1 /\ ~(y - 1 < k) /\ (y - 1) + 1 = y
      BY <1>1, <1>3, <2>1, <2>3
    <3>2. y - 1 \in T
      BY <1>1, <1>5, <2>1, <3>1
    <3>3. f[y - 1] = y
      BY <3>1, <3>2
    <3>4. QED
      BY <3>2, <3>3
  <2>4. QED
    BY <2>2, <2>3
<1>9. ExistsBijection(T, H \ {k})
  <2>1. f \in [T -> H \ {k}]
    BY <1>6
  <2>2. f \in Injection(T, H \ {k})
    BY <1>7, <2>1 DEF Injection, IsInjective
  <2>3. f \in Surjection(T, H \ {k})
    BY <1>8, <2>1 DEF Surjection
  <2>4. QED
    BY <2>2, <2>3 DEF ExistsBijection, Bijection
<1>10. Cardinality(H \ {k}) = Cardinality(T)
  BY <1>2, <1>9, FS_Bijection
<1>11. /\ Cardinality(H \ {k}) =
             IF k \in H THEN Cardinality(H) - 1 ELSE Cardinality(H)
  BY <1>2, FS_RemoveElement
<1>12. k \in H <=> h[k] = i
  BY <1>3, <1>4
<1>13. QED
  BY <1>2, <1>10, <1>11, <1>12 DEF One, H, T, t

LEMMA ScopeFacts ==
    ASSUME ScopeInv
    PROVE  /\ Len(lockers) \in Nat /\ Len(handles) \in Nat
           /\ \A k \in 1 .. Len(handles) : handles[k] \in 1 .. Len(lockers)
           /\ \A i \in 1 .. Len(lockers) :
                 /\ lockers[i] \in [rt : Runtime, refs : 1 .. MaxScope]
                 /\ lockers[i].refs = Cardinality(Holders(handles, i))
                 /\ i > 1 => lockers[i].rt # lockers[i - 1].rt
BY LenProperties, ElementOfSeq DEF ScopeInv, ScopesHoldLockers, Holders

LEMMA ScopesOpened ==
    ASSUME ScopeInv, NEW r \in Runtime, OpenEnvScope(r)
    PROVE  ScopeInv'
<1> DEFINE L == Len(lockers)  Locker == [rt : Runtime, refs : 1 .. MaxScope]
<1>1. /\ lockers \in Seq(Locker) /\ handles \in Seq(Nat) /\ MaxScope \in Nat
      /\ L \in Nat /\ Len(handles) \in Nat /\ Len(handles) < MaxScope
  BY ScopeFacts, BoundAssumption DEF ScopeInv, OpenEnvScope
<1>2. \A i : /\ Cardinality(Holders(handles, i)) \in Nat
             /\ Cardinality(Holders(handles, i)) <= Len(handles)
             /\ Cardinality(Holders(handles, i)) = 0 <=>
                   \A k \in 1 .. Len(handles) : handles[k] # i
  BY <1>1, HoldersFinite
<1>3. ASSUME NEW x \in Nat, handles' = Append(handles, x)
      PROVE  /\ handles' \in Seq(Nat) /\ Len(handles') = Len(handles) + 1
             /\ \A k \in 1 .. Len(handles') :
                   handles'[k] \in 1 .. L \/ handles'[k] = x
             /\ \A i : Cardinality(Holders(handles', i)) =
                          Cardinality(Holders(handles, i)) + One(x = i)
  <2>1. /\ handles' \in Seq(Nat) /\ Len(handles') = Len(handles) + 1
        /\ handles'[Len(handles) + 1] = x
        /\ \A k \in 1 .. Len(handles) : handles'[k] = handles[k]
    BY <1>1, <1>3, AppendProperties
  <2>2. \A k \in 1 .. Len(handles) + 1 :
           k \in 1 .. Len(handles) \/ k = Len(handles) + 1
    BY <1>1
  <2>3. QED
    BY <1>1, <1>3, <2>1, <2>2, HoldersAppend, ScopeFacts
<1>4. CASE HasCurrentRuntime(r)
  <2>1. L \in 1 .. L /\ L > 0
    BY <1>1, <1>4, EmptySeq DEF HasCurrentRuntime
  <2>2. /\ handles' = Append(handles, L)
        /\ lockers' = [lockers EXCEPT ![L].refs = @ + 1]
    BY <1>4 DEF OpenEnvScope
  <2>3. /\ handles' \in Seq(Nat) /\ Len(handles') <= MaxScope
        /\ \A k \in 1 .. Len(handles') : handles'[k] \in 1 .. L
        /\ \A i : Cardinality(Holders(handles', i)) =
                     Cardinality(Holders(handles, i)) + One(L = i)
    <3>1. /\ handles' \in Seq(Nat) /\ Len(handles') = Len(handles) + 1
          /\ \A k \in 1 .. Len(handles') :
                handles'[k] \in 1 .. L \/ handles'[k] = L
          /\ \A i : Cardinality(Holders(handles', i)) =
                       Cardinality(Holders(handles, i)) + One(L = i)
      BY <1>1, <1>3, <2>2
    <3>2. QED
      BY <1>1, <2>1, <3>1
  <2>4. /\ lockers[L] \in Locker
        /\ lockers[L].refs \in Nat /\ lockers[L].refs < MaxScope
    BY <1>1, <1>2, <2>1, ScopeFacts
  <2>5. [lockers[L] EXCEPT !.refs = @ + 1] \in Locker
    <3>1. lockers[L].refs + 1 \in 1 .. MaxScope
      BY <1>1, <2>4
    <3>2. \A x \in Locker, v \in 1 .. MaxScope : [x EXCEPT !.refs = v] \in Locker
      OBVIOUS
    <3>3. QED
      BY <2>4, <3>1, <3>2
  <2>6. /\ lockers' \in Seq(Locker) /\ Len(lockers') = L
        /\ \A i \in 1 .. L : lockers'[i] =
              IF i = L THEN [lockers[L] EXCEPT !.refs = @ + 1] ELSE lockers[i]
    <3>1. lockers' = [lockers EXCEPT ![L] = [lockers[L] EXCEPT !.refs = @ + 1]]
      BY <2>2
    <3>2. QED
      BY <1>1, <2>1, <2>5, <3>1, ExceptSeq
  <2>7. ASSUME NEW i \in 1 .. L
        PROVE  /\ lockers'[i].refs = Cardinality(Holders(handles', i))
               /\ lockers'[i].rt = lockers[i].rt
    <3>1. lockers[i] \in Locker /\ lockers[i].refs = Cardinality(Holders(handles, i))
      BY ScopeFacts
    <3>2. CASE i = L
      BY <1>1, <1>2, <2>3, <2>4, <2>6, <3>1, <3>2, ZenonT(40) DEF One
    <3>3. CASE i # L
      BY <1>1, <1>2, <2>3, <2>6, <3>1, <3>3 DEF One
    <3>4. QED
      BY <3>2, <3>3
  <2>8. \A i \in 1 .. L : i > 1 => lockers'[i].rt # lockers'[i - 1].rt
    <3>1. \A i \in 1 .. L : i > 1 => i - 1 \in 1 .. L
      BY <1>1
    <3>2. QED
      BY <2>7, <3>1, ScopeFacts
  <2>9. QED
    BY <2>3, <2>6, <2>7, <2>8 DEF ScopeInv, ScopesHoldLockers, Holders
<1>5. CASE ~HasCurrentRuntime(r)
  <2> DEFINE new == [rt |-> r, refs |-> 1]
  <2>1. /\ handles' = Append(handles, L + 1)
        /\ lockers' = Append(lockers, new)
    BY <1>5 DEF OpenEnvScope
  <2>2. /\ handles' \in Seq(Nat) /\ Len(handles') <= MaxScope
        /\ \A k \in 1 .. Len(handles') : handles'[k] \in 1 .. L + 1
        /\ \A i : Cardinality(Holders(handles', i)) =
                     Cardinality(Holders(handles, i)) + One(L + 1 = i)
    <3>1. /\ handles' \in Seq(Nat) /\ Len(handles') = Len(handles) + 1
          /\ \A k \in 1 .. Len(handles') :
                handles'[k] \in 1 .. L \/ handles'[k] = L + 1
          /\ \A i : Cardinality(Holders(handles', i)) =
                       Cardinality(Holders(handles, i)) + One(L + 1 = i)
      BY <1>1, <1>3, <2>1
    <3>2. QED
      BY <1>1, <3>1
  <2>3. new \in Locker
    BY <1>1
  <2>4. /\ lockers' \in Seq(Locker) /\ Len(lockers') = L + 1
        /\ lockers'[L + 1] = new /\ \A i \in 1 .. L : lockers'[i] = lockers[i]
    BY <1>1, <2>1, <2>3, AppendProperties
  <2>5. Cardinality(Holders(handles, L + 1)) = 0
    <3>1. \A k \in 1 .. Len(handles) : handles[k] # L + 1
      BY <1>1, ScopeFacts
    <3>2. QED
      BY <1>2, <3>1
  <2>6. \A i \in 1 .. L + 1 : i = L + 1 \/ (i \in 1 .. L /\ i # L + 1)
    BY <1>1
  <2>7. ASSUME NEW i \in 1 .. L + 1
        PROVE  lockers'[i].refs = Cardinality(Holders(handles', i))
    <3>1. CASE i = L + 1
      BY <2>2, <2>4, <2>5, <3>1 DEF One
    <3>2. CASE i \in 1 .. L /\ i # L + 1
      <4>1. /\ lockers'[i].refs = Cardinality(Holders(handles, i))
            /\ One(L + 1 = i) = 0
        BY <2>4, <3>2, ScopeFacts DEF One
      <4>2. QED
        BY <1>2, <2>2, <4>1
    <3>3. QED
      BY <2>6, <3>1, <3>2
  <2>8. ASSUME NEW i \in 1 .. L + 1, i > 1
        PROVE  lockers'[i].rt # lockers'[i - 1].rt
    <3>1. i - 1 \in 1 .. L
      BY <1>1, <2>8
    <3>2. CASE i = L + 1
      <4>1. lockers # <<>> /\ i - 1 = L
        BY <1>1, <3>1, <3>2, EmptySeq
      <4>2. lockers[L].rt # r
        BY <1>5, <4>1 DEF HasCurrentRuntime, Current
      <4>3. QED
        BY <2>4, <3>1, <3>2, <4>1, <4>2
    <3>3. CASE i \in 1 .. L /\ i # L + 1
      BY <2>4, <2>8, <3>1, <3>3, ScopeFacts
    <3>4. QED
      BY <2>6, <3>2, <3>3
  <2>9. QED
    BY <2>2, <2>4, <2>7, <2>8, ZenonT(40) DEF ScopeInv, ScopesHoldLockers, Holders
<1>6. QED
  BY <1>4, <1>5

LEMMA ScopesClosed ==
    ASSUME ScopeInv, NEW k \in 1 .. Len(handles), CloseEnvScope(k)
    PROVE  ScopeInv'
<1> DEFINE L == Len(lockers)  Locker == [rt : Runtime, refs : 1 .. MaxScope]
           n == Len(handles)
<1>1. /\ lockers \in Seq(Locker) /\ handles \in Seq(Nat) /\ MaxScope \in Nat
      /\ n \in Nat \ {0} /\ n <= MaxScope /\ handles[k] = L
      /\ L \in 1 .. L /\ L \in Nat \ {0} /\ lockers # <<>>
      /\ handles' = RemoveAt(handles, k) /\ lockers' = Release
  <2>1. handles[k] = L /\ handles[k] \in 1 .. L /\ L \in Nat /\ n \in Nat
    BY ScopeFacts DEF CloseEnvScope
  <2>2. lockers # <<>>
    BY <2>1, EmptySeq
  <2>3. QED
    BY <2>1, <2>2, BoundAssumption DEF ScopeInv, CloseEnvScope
<1>2. /\ handles' \in Seq(Nat) /\ Len(handles') = n - 1
      /\ \A i \in 1 .. n - 1 :
            handles'[i] = IF i < k THEN handles[i] ELSE handles[i + 1]
  BY <1>1, RemoveAtProperties
<1>3. \A i : Cardinality(Holders(handles', i)) =
                Cardinality(Holders(handles, i)) - One(L = i)
  BY <1>1, HoldersRemove
<1>4. \A i : /\ Cardinality(Holders(handles, i)) \in Nat
             /\ Cardinality(Holders(handles', i)) \in Nat
             /\ Cardinality(Holders(handles', i)) = 0 <=>
                   \A j \in 1 .. n - 1 : handles'[j] # i
  <2>1. ASSUME NEW i
        PROVE  /\ Cardinality(Holders(handles', i)) \in Nat
               /\ Cardinality(Holders(handles', i)) = 0 <=>
                     \A j \in 1 .. Len(handles') : handles'[j] # i
    BY <1>2, HoldersFinite
  <2>2. QED
    BY <1>1, <1>2, <2>1, HoldersFinite
<1>5. \A i \in 1 .. n - 1 : handles'[i] \in 1 .. L
  <2>1. \A i \in 1 .. n - 1 : i \in 1 .. n /\ i + 1 \in 1 .. n
    BY <1>1
  <2>2. QED
    BY <1>2, <2>1, ScopeFacts
<1>6. \A i \in 1 .. L : /\ lockers[i] \in Locker
                        /\ lockers[i].refs = Cardinality(Holders(handles, i))
  BY ScopeFacts
<1>7. CASE Current.refs = 1
  <2>1. /\ lockers' = Front(lockers) /\ lockers[L].refs = 1
    BY <1>1, <1>7 DEF Release, Current
  <2>2. /\ lockers' \in Seq(Locker) /\ Len(lockers') = L - 1
        /\ \A i \in 1 .. L - 1 : lockers'[i] = lockers[i]
    BY <1>1, <2>1, FrontProperties
  <2>3. Cardinality(Holders(handles', L)) = 0
    <3>1. Cardinality(Holders(handles, L)) = 1
      BY <1>1, <1>6, <2>1
    <3>2. One(L = L) = 1
      BY DEF One
    <3>3. QED
      BY <1>3, <3>1, <3>2
  <2>4. \A i \in 1 .. n - 1 : handles'[i] # L
    BY <1>4, <2>3
  <2>5. \A i \in 1 .. n - 1 : handles'[i] \in 1 .. L - 1
    BY <1>1, <1>5, <2>4, SMTT(40)
  <2>6. \A i \in 1 .. L - 1 : i \in 1 .. L /\ i # L /\ (i > 1 => i - 1 \in 1 .. L - 1)
    BY <1>1
  <2>7. ASSUME NEW i \in 1 .. L - 1
        PROVE  lockers'[i].refs = Cardinality(Holders(handles', i))
    <3>1. /\ lockers'[i].refs = Cardinality(Holders(handles, i))
          /\ One(L = i) = 0
      BY <1>6, <2>2, <2>6 DEF One
    <3>2. Cardinality(Holders(handles', i)) =
             Cardinality(Holders(handles, i)) - One(L = i)
      BY <1>3
    <3>3. QED
      BY <1>4, <3>1, <3>2
  <2>8. \A i \in 1 .. L - 1 : i > 1 => lockers'[i].rt # lockers'[i - 1].rt
    BY <2>2, <2>6, ScopeFacts
  <2>9. n - 1 <= MaxScope
    BY <1>1
  <2>10. QED
    BY <1>2, <2>2, <2>5, <2>7, <2>8, <2>9 DEF ScopeInv, ScopesHoldLockers, Holders
<1>8. CASE Current.refs # 1
  <2>1. /\ lockers' = [lockers EXCEPT ![L].refs = @ - 1]
        /\ lockers[L].refs \in 2 .. MaxScope /\ lockers[L] \in Locker
    BY <1>1, <1>6, <1>8 DEF Release, Current
  <2>2. [lockers[L] EXCEPT !.refs = @ - 1] \in Locker
    <3>1. lockers[L].refs - 1 \in 1 .. MaxScope
      BY <1>1, <2>1
    <3>2. \A x \in Locker, v \in 1 .. MaxScope : [x EXCEPT !.refs = v] \in Locker
      OBVIOUS
    <3>3. QED
      BY <2>1, <3>1, <3>2
  <2>3. /\ lockers' \in Seq(Locker) /\ Len(lockers') = L
        /\ \A i \in 1 .. L : lockers'[i] =
              IF i = L THEN [lockers[L] EXCEPT !.refs = @ - 1] ELSE lockers[i]
    <3>1. lockers' = [lockers EXCEPT ![L] = [lockers[L] EXCEPT !.refs = @ - 1]]
      BY <2>1
    <3>2. QED
      BY <1>1, <2>2, <3>1, ExceptSeq
  <2>4. ASSUME NEW i \in 1 .. L
        PROVE  /\ lockers'[i].refs = Cardinality(Holders(handles', i))
               /\ lockers'[i].rt = lockers[i].rt
    <3>1. CASE i = L
      <4>1. One(L = i) = 1
        BY <3>1 DEF One
      <4>2. lockers'[i].refs = lockers[i].refs - 1 /\ lockers'[i].rt = lockers[i].rt
        BY <2>1, <2>3, <3>1
      <4>3. QED
        BY <1>3, <1>6, <4>1, <4>2
    <3>2. CASE i # L
      <4>1. One(L = i) = 0
        BY <3>2 DEF One
      <4>2. /\ lockers'[i] = lockers[i]
            /\ lockers[i].refs = Cardinality(Holders(handles, i))
        BY <1>6, <2>3, <3>2
      <4>3. Cardinality(Holders(handles', i)) =
               Cardinality(Holders(handles, i)) - One(L = i)
        BY <1>3
      <4>4. QED
        BY <1>4, <4>1, <4>2, <4>3
    <3>3. QED
      BY <3>1, <3>2
  <2>5. \A i \in 1 .. L : i > 1 => lockers'[i].rt # lockers'[i - 1].rt
    <3>1. \A i \in 1 .. L : i > 1 => i - 1 \in 1 .. L
      BY <1>1
    <3>2. QED
      BY <2>4, <3>1, ScopeFacts
  <2>6. n - 1 <= MaxScope
    BY <1>1
  <2>7. QED
    BY <1>2, <1>5, <2>3, <2>4, <2>5, <2>6
       DEF ScopeInv, ScopesHoldLockers, Holders
<1>9. QED
  BY <1>7, <1>8

-----------------------------------------------------------------------------
(* Steps that leave the books alone.                                       *)

\* What the lists, the runtimes and the deletions depend on.
Same(x) ==
    /\ env'[x].phase = env[x].phase /\ env'[x].rt = env[x].rt
    /\ env'[x].destructing = env[x].destructing
    /\ env'[x].owned = env[x].owned /\ env'[x].late = env[x].late

LEMMA BooksKept ==
    ASSUME CoreTypes, ListedLive, BookInv, UNCHANGED <<rt, list, calls>>,
           \A x \in Env : Same(x)
    PROVE  ListedLive' /\ BookInv'
<1>1. /\ \A i \in 1 .. Len(calls) : calls[i].env \in Env
      /\ \A r \in Runtime : rt[r].phase # "none" => rt[r].root \in Env
  <2>1. \A i \in 1 .. Len(calls) : calls[i] \in CallRecord
    BY ElementOfSeq DEF CoreTypes
  <2>2. QED
    BY <2>1 DEF CallRecord, BookInv, RtOK
<1>2. ListedLive'
  BY DEF ListedLive, LiveRuntime, Live, Same
<1>3. ASSUME NEW r \in Runtime PROVE RtOK(r)' /\ ListOK(r)'
  <2>1. RtOK(r) /\ ListOK(r)
    BY DEF BookInv
  <2>2. RtOK(r)'
    BY <2>1 DEF RtOK, Live, Same
  <2>3. ListOK(r)'
    BY <2>1 DEF ListOK, Live, Same
  <2>4. QED
    BY <2>2, <2>3
<1>4. ASSUME NEW i \in 1 .. Len(calls)
      PROVE  CallOK(calls[i])' /\ CoverOK(calls[i])'
  <2>1. CallOK(calls[i]) /\ CoverOK(calls[i]) /\ Same(calls[i].env)
    BY <1>1 DEF BookInv
  <2>2. CallOK(calls[i])'
    BY <2>1 DEF CallOK, RootOf, IsDelete, Live, Same
  <2>3. CoverOK(calls[i])'
    BY <2>1 DEF CoverOK, RootOf, IsDelete, Live, Same
  <2>4. QED
    BY <2>2, <2>3
<1>5. NestOK(calls)'
  BY <1>1 DEF BookInv, NestOK, RootOf, IsDelete, Same
<1>6. \A e \in Env : LeftOK(e)' /\ DeletingOK(e)'
  BY DEF BookInv, LeftOK, DeletingOK, IsDelete, Live, Same
<1>7. QED
  BY <1>2, <1>3, <1>4, <1>5, <1>6 DEF BookInv

LEMMA CoreKept ==
    ASSUME IInv, process = "running", UNCHANGED envVars
    PROVE  CoreTypes' /\ ListedLive' /\ RunInv'
<1>1. UNCHANGED <<rt, list, env, tasks, calls, enqueued>>
  BY DEF envVars
<1>2. CoreTypes'
  BY <1>1 DEF IInv, CoreTypes
<1>3. ListedLive' /\ BookInv'
  BY <1>1, BooksKept DEF IInv, RunInv, Same
<1>4. TaskInv' /\ \A e \in Env : EnvOK(e)' /\ PendOK(e)'
  BY <1>1 DEF IInv, RunInv, TaskInv, EnvOK, PendOK, Live
<1>5. QED
  BY <1>2, <1>3, <1>4 DEF RunInv

LEMMA ScopesKept ==
    ASSUME ScopeInv, UNCHANGED scopeVars
    PROVE  ScopeInv'
BY DEF ScopeInv, ScopesHoldLockers, scopeVars

LEMMA RejectionsKept ==
    ASSUME RejectionInv, UNCHANGED rejVars
    PROVE  RejectionInv'
BY DEF RejectionInv, LastRejectionIsUnhandled, rejVars

LEMMA SetTaskRunnerIInv ==
    ASSUME IInv, SetTaskRunner PROVE IInv'
BY CoreKept, ScopesKept, RejectionsKept DEF IInv, SetTaskRunner, HostTurn

LEMMA OpenEnvScopeIInv ==
    ASSUME IInv, NEW r \in Runtime, OpenEnvScope(r) PROVE IInv'
<1>1. /\ process = "running" /\ UNCHANGED <<process, envVars, rejVars>>
  BY DEF OpenEnvScope, HostTurn
<1>2. QED
  BY <1>1, CoreKept, ScopesOpened, RejectionsKept DEF IInv

LEMMA CloseEnvScopeIInv ==
    ASSUME IInv, NEW k \in 1 .. Len(handles), CloseEnvScope(k) PROVE IInv'
<1>1. /\ process = "running" /\ UNCHANGED <<process, envVars, rejVars>>
  BY DEF CloseEnvScope, HostTurn
<1>2. QED
  BY <1>1, CoreKept, ScopesClosed, RejectionsKept DEF IInv

LEMMA RejectionIInv ==
    ASSUME IInv, NEW r \in Runtime, NEW q \in Promise,
           RejectPromise(r, q) \/ HandlePromise(r, q)
    PROVE  IInv'
<1>1. /\ process = "running" /\ UNCHANGED <<process, envVars, scopeVars>>
  BY DEF RejectPromise, HandlePromise, HostTurn
<1>2. RejectionInv'
  <2>1. /\ promise \in [Promise -> [rt : Runtime \cup {None}, handled : BOOLEAN]]
        /\ last \in [Runtime -> Promise \cup {None}]
        /\ \A x \in Runtime : last[x] # None =>
              promise[last[x]].rt = x /\ ~promise[last[x]].handled
        /\ q # None /\ r # None
    BY NoneAssumption DEF IInv, RejectionInv, LastRejectionIsUnhandled
  <2>2. CASE RejectPromise(r, q)
    <3>1. /\ promise[q].rt = None
          /\ promise' = [promise EXCEPT ![q] = [rt |-> r, handled |-> FALSE]]
          /\ last' = [last EXCEPT ![r] = q]
      BY <2>2 DEF RejectPromise
    <3>2. /\ promise' \in [Promise -> [rt : Runtime \cup {None}, handled : BOOLEAN]]
          /\ last' \in [Runtime -> Promise \cup {None}]
      BY <2>1, <3>1
    <3>3. ASSUME NEW x \in Runtime, last'[x] # None
          PROVE  promise'[last'[x]].rt = x /\ ~promise'[last'[x]].handled
      BY <2>1, <3>1, <3>3, NoneAssumption
    <3>4. QED
      BY <3>2, <3>3 DEF RejectionInv, LastRejectionIsUnhandled
  <2>3. CASE HandlePromise(r, q)
    <3>1. /\ promise[q].rt = r
          /\ promise' = [promise EXCEPT ![q].handled = TRUE]
          /\ last' = [last EXCEPT ![r] = IF @ = q THEN None ELSE @]
      BY <2>3 DEF HandlePromise, LastWithout
    <3>2. /\ promise' \in [Promise -> [rt : Runtime \cup {None}, handled : BOOLEAN]]
          /\ last' \in [Runtime -> Promise \cup {None}]
      BY <2>1, <3>1, ZenonT(40)
    <3>3. ASSUME NEW x \in Runtime, last'[x] # None
          PROVE  promise'[last'[x]].rt = x /\ ~promise'[last'[x]].handled
      <4>1. last[x] = last'[x] /\ last[x] # q /\ last[x] \in Promise
        BY <2>1, <3>1, <3>3
      <4>2. QED
        BY <2>1, <3>1, <3>3, <4>1
    <3>4. QED
      BY <3>2, <3>3 DEF RejectionInv, LastRejectionIsUnhandled
  <2>4. QED
    BY <2>2, <2>3
<1>3. QED
  BY <1>1, <1>2, CoreKept, ScopesKept DEF IInv

LEMMA GetAndClearLastRejectionIInv ==
    ASSUME IInv, NEW r \in Runtime, GetAndClearLastRejection(r) PROVE IInv'
<1>1. /\ process = "running" /\ UNCHANGED <<envVars, scopeVars>>
      /\ process' \in {"running", "null"}
  BY DEF GetAndClearLastRejection, HostTurn
<1>2. RejectionInv'
  BY DEF GetAndClearLastRejection, IInv, RejectionInv, LastRejectionIsUnhandled
<1>3. QED
  BY <1>1, <1>2, CoreKept, ScopesKept DEF IInv

-----------------------------------------------------------------------------
(* Finalizers.                                                             *)

LEMMA RunFacts ==
    ASSUME IInv, process = "running"
    PROVE  /\ CoreTypes /\ ListedLive /\ ScopeInv /\ RejectionInv
           /\ TaskInv /\ BookInv
           /\ \A e \in Env : EnvOK(e) /\ PendOK(e)
           /\ \A r \in Runtime : RtOK(r) /\ ListOK(r)
           /\ \A i \in 1 .. Len(calls) :
                 /\ CallOK(calls[i]) /\ CoverOK(calls[i])
                 /\ calls[i] \in CallRecord
           /\ NestOK(calls) /\ \A e \in Env : LeftOK(e) /\ DeletingOK(e)
BY ElementOfSeq DEF IInv, RunInv, BookInv, CoreTypes

\* The call on top of the stack.
LEMMA TopFacts ==
    ASSUME IInv, process = "running", calls # <<>>
    PROVE  /\ Len(calls) \in Nat \ {0} /\ Len(calls) \in 1 .. Len(calls)
           /\ Top = calls[Len(calls)] /\ Top \in CallRecord
           /\ CallOK(Top) /\ CoverOK(Top)
<1>1. calls \in Seq(CallRecord)
  BY DEF IInv, CoreTypes
<1>2. Len(calls) \in Nat \ {0} /\ Len(calls) \in 1 .. Len(calls)
  BY <1>1, EmptySeq, LenProperties
<1>3. QED
  BY <1>2, RunFacts DEF Top

\* A finalizer was taken out of the queue of e.
Took(en, e) ==
    /\ en \in [Env -> EnvRecord]
    /\ \A x \in Env : x # e => en[x] = env[x]
    /\ en[e].pending \in Nat /\ en[e].pending <= env[e].pending
    /\ en[e].phase = env[e].phase /\ en[e].rt = env[e].rt
    /\ en[e].refs = env[e].refs /\ en[e].scheduled = env[e].scheduled
    /\ en[e].destructing = env[e].destructing
    /\ en[e].owned = env[e].owned /\ en[e].late = env[e].late

LEMMA TakenTook ==
    ASSUME CoreTypes, NEW e \in Env, env[e].pending > 0
    PROVE  Took(Taken(e), e) /\ Took(env, e)
<1>1. env[e] \in EnvRecord /\ env \in [Env -> EnvRecord] /\ MaxFinalizer \in Nat
  BY BoundAssumption DEF CoreTypes
<1>2. env[e].pending \in 1 .. MaxFinalizer /\ env[e].pending - 1 \in 0 .. MaxFinalizer
  BY <1>1 DEF EnvRecord
<1> DEFINE v == env[e].pending - 1
<1>3. v \in 0 .. MaxFinalizer /\ v \in Nat /\ v <= env[e].pending
      /\ env[e].pending \in Nat
  BY <1>1, <1>2
<1>4. Taken(e) = [env EXCEPT ![e] = [env[e] EXCEPT !.pending = v]]
  BY DEF Taken
<1> HIDE DEF v
<1>5. \A x \in EnvRecord, w \in 0 .. MaxFinalizer :
         /\ [x EXCEPT !.pending = w] \in EnvRecord
         /\ [x EXCEPT !.pending = w].pending = w
         /\ [x EXCEPT !.pending = w].phase = x.phase
         /\ [x EXCEPT !.pending = w].rt = x.rt
         /\ [x EXCEPT !.pending = w].refs = x.refs
         /\ [x EXCEPT !.pending = w].scheduled = x.scheduled
         /\ [x EXCEPT !.pending = w].destructing = x.destructing
         /\ [x EXCEPT !.pending = w].owned = x.owned
         /\ [x EXCEPT !.pending = w].late = x.late
  BY DEF EnvRecord
<1>6. /\ Taken(e) \in [Env -> EnvRecord] /\ Taken(e)[e] = [env[e] EXCEPT !.pending = v]
      /\ \A x \in Env : x # e => Taken(e)[x] = env[x]
  BY <1>1, <1>3, <1>4, <1>5
<1>7. Took(Taken(e), e)
  BY <1>1, <1>3, <1>5, <1>6 DEF Took
<1>8. Took(env, e)
  BY <1>1, <1>3 DEF Took
<1>9. QED
  BY <1>7, <1>8

\* Only the queue of e got shorter.
LEMMA TookKeeps ==
    ASSUME IInv, process = "running", NEW e \in Env, Took(env', e),
           UNCHANGED <<rt, list, calls, tasks, enqueued, scopeVars, rejVars>>
    PROVE  /\ CoreTypes' /\ ListedLive' /\ ScopeInv' /\ RejectionInv' /\ RunInv'
<1>1. /\ CoreTypes /\ ListedLive /\ ScopeInv /\ RejectionInv /\ TaskInv /\ BookInv
      /\ \A x \in Env : EnvOK(x) /\ PendOK(x)
  BY RunFacts
<1>2. \A x \in Env : Same(x) /\ env'[x].scheduled = env[x].scheduled
                     /\ env'[x].refs = env[x].refs
  BY DEF Took, Same
<1>3. ListedLive' /\ BookInv'
  BY <1>1, <1>2, BooksKept
<1>4. \A x \in Env : /\ env'[x].pending \in Nat /\ env[x].pending \in Nat
                     /\ env'[x].pending <= env[x].pending
  <2>1. \A x \in Env : env[x].pending \in Nat
    BY <1>1, BoundAssumption DEF CoreTypes, EnvRecord
  <2>2. QED
    BY <2>1 DEF Took
<1>5. CoreTypes'
  <2>1. /\ enqueued \in Nat /\ \A x \in Env : env[x].pending <= enqueued
    BY <1>1, BoundAssumption DEF CoreTypes
  <2>2. \A x \in Env : env'[x].pending <= enqueued
    BY <1>4, <2>1
  <2>3. QED
    BY <1>1, <2>2 DEF CoreTypes, Took
<1>6. TaskInv'
  BY <1>1, <1>2 DEF TaskInv
<1>7. ASSUME NEW x \in Env PROVE EnvOK(x)' /\ PendOK(x)'
  <2>1. EnvOK(x) /\ PendOK(x) /\ Same(x)
    BY <1>1, <1>2
  <2>2. EnvOK(x)'
    BY <1>2, <2>1 DEF EnvOK, Same
  <2>3. PendOK(x)'
    <3>1. env'[x].pending > 0 => env[x].pending > 0
      BY <1>4
    <3>2. QED
      BY <1>2, <2>1, <3>1 DEF PendOK, Same, Live
  <2>4. QED
    BY <2>2, <2>3
<1>8. QED
  BY <1>1, <1>3, <1>5, <1>6, <1>7, ScopesKept, RejectionsKept DEF RunInv

LEMMA RunFinalizerIInv ==
    ASSUME IInv, NEW e \in Env, RunFinalizer(e) \/ FinalizerThrows(e)
    PROVE  IInv'
<1>1. /\ process = "running" /\ env' = Taken(e) /\ env[e].pending > 0
      /\ process' \in {"running", "exit"}
      /\ UNCHANGED <<rt, list, calls, tasks, enqueued, scopeVars, rejVars>>
  BY DEF RunFinalizer, FinalizerThrows, Draining
<1>2. Took(env', e)
  BY <1>1, TakenTook DEF IInv
<1>3. QED
  BY <1>1, <1>2, TookKeeps DEF IInv

\* EnqueueFinalizer of f, where a finalizer may have been taken from e.
LEMMA EnqueueIInv ==
    ASSUME IInv, process = "running", NEW e \in Env, NEW f \in Env, NEW en,
           Took(en, e), Live(f), Enqueue(en, f),
           UNCHANGED <<rt, list, calls, scopeVars, rejVars>>
    PROVE  IInv'
<1>1. /\ CoreTypes /\ ListedLive /\ ScopeInv /\ RejectionInv /\ TaskInv /\ BookInv
      /\ \A x \in Env : EnvOK(x) /\ PendOK(x)
  BY RunFacts
<1>2. /\ enqueued \in Nat /\ MaxFinalizer \in Nat /\ enqueued < MaxFinalizer
      /\ enqueued' = enqueued + 1 /\ enqueued' \in 0 .. MaxFinalizer
  <2>1. /\ enqueued \in Nat /\ MaxFinalizer \in Nat
    BY <1>1, BoundAssumption DEF CoreTypes
  <2>2. enqueued < MaxFinalizer /\ enqueued' = enqueued + 1
    BY DEF Enqueue
  <2>3. QED
    BY <2>1, <2>2
<1>3. /\ en \in [Env -> EnvRecord] /\ env \in [Env -> EnvRecord]
      /\ \A x \in Env : /\ en[x] \in EnvRecord /\ env[x] \in EnvRecord
                        /\ en[x].pending \in Nat /\ en[x].pending <= enqueued
                        /\ en[x].phase = env[x].phase /\ en[x].rt = env[x].rt
                        /\ en[x].refs = env[x].refs
                        /\ en[x].scheduled = env[x].scheduled
                        /\ en[x].destructing = env[x].destructing
                        /\ en[x].owned = env[x].owned
                        /\ en[x].late = env[x].late
                        /\ en[x].pending > 0 => env[x].pending > 0
  <2>1. /\ en \in [Env -> EnvRecord] /\ env \in [Env -> EnvRecord]
        /\ \A x \in Env : env[x].pending \in Nat /\ env[x].pending <= enqueued
    BY <1>1, BoundAssumption DEF CoreTypes, Took, EnvRecord
  <2>2. ASSUME NEW x \in Env, x # e PROVE en[x] = env[x]
    BY <2>2 DEF Took
  <2>3. /\ en[e].pending \in Nat /\ en[e].pending <= env[e].pending
    BY DEF Took
  <2>4. /\ en[e].pending <= enqueued
        /\ en[e].pending > 0 => env[e].pending > 0
    BY <1>2, <2>1, <2>3
  <2>5. QED
    BY <2>1, <2>2, <2>3, <2>4 DEF Took
<1>4. CASE process' = "null" /\ env' = en /\ UNCHANGED tasks
  <2>1. \A x \in Env : Same(x)
    BY <1>3, <1>4 DEF Same
  <2>2. ListedLive'
    BY <1>1, <2>1, BooksKept
  <2>3. \A x \in Env : env'[x].pending <= enqueued'
    BY <1>2, <1>3, <1>4
  <2>4. CoreTypes'
    BY <1>1, <1>2, <1>3, <1>4, <2>3 DEF CoreTypes
  <2>5. QED
    BY <1>1, <1>4, <2>2, <2>4, ScopesKept, RejectionsKept DEF IInv
<1> DEFINE p == en[f].pending + 1
<1>5. p \in 0 .. MaxFinalizer /\ p \in Nat /\ p <= enqueued'
  BY <1>2, <1>3
<1> HIDE DEF p
<1>6. \A x \in EnvRecord, w \in 0 .. MaxFinalizer :
         /\ [x EXCEPT !.pending = w] \in EnvRecord
         /\ [x EXCEPT !.pending = w].pending = w
         /\ [x EXCEPT !.pending = w].phase = x.phase
         /\ [x EXCEPT !.pending = w].rt = x.rt
         /\ [x EXCEPT !.pending = w].refs = x.refs
         /\ [x EXCEPT !.pending = w].scheduled = x.scheduled
         /\ [x EXCEPT !.pending = w].destructing = x.destructing
         /\ [x EXCEPT !.pending = w].owned = x.owned
         /\ [x EXCEPT !.pending = w].late = x.late
  BY DEF EnvRecord
<1>7. CASE /\ ~MustSchedule(f) /\ env' = [en EXCEPT ![f].pending = @ + 1]
           /\ UNCHANGED <<process, tasks>>
  <2>1. env' = [en EXCEPT ![f] = [en[f] EXCEPT !.pending = p]]
    BY <1>7 DEF p
  <2>2. /\ env' \in [Env -> EnvRecord]
        /\ env'[f] = [en[f] EXCEPT !.pending = p]
        /\ \A x \in Env : x # f => env'[x] = en[x]
    BY <1>3, <1>5, <1>6, <2>1
  <2>3. \A x \in Env : /\ Same(x) /\ env'[x].scheduled = env[x].scheduled
                       /\ env'[x].refs = env[x].refs
    <3>1. ASSUME NEW x \in Env, x # f
          PROVE  /\ Same(x) /\ env'[x].scheduled = env[x].scheduled
                 /\ env'[x].refs = env[x].refs
      BY <1>3, <2>2, <3>1 DEF Same
    <3>2. /\ Same(f) /\ env'[f].scheduled = env[f].scheduled
          /\ env'[f].refs = env[f].refs
      BY <1>3, <1>5, <1>6, <2>2 DEF Same
    <3>3. QED
      BY <3>1, <3>2
  <2>4. \A x \in Env : env'[x].pending <= enqueued'
    <3>1. env'[f].pending = p
      BY <1>3, <1>5, <1>6, <2>2
    <3>2. ASSUME NEW x \in Env, x # f PROVE env'[x].pending <= enqueued'
      BY <1>2, <1>3, <2>2, <3>2
    <3>3. QED
      BY <1>5, <3>1, <3>2
  <2>5. CoreTypes'
    BY <1>1, <1>2, <1>7, <2>2, <2>4 DEF CoreTypes
  <2>6. ListedLive' /\ BookInv'
    BY <1>1, <2>3, BooksKept
  <2>7. TaskInv'
    BY <1>1, <1>7, <2>3 DEF TaskInv
  <2>8. ASSUME NEW x \in Env PROVE EnvOK(x)' /\ PendOK(x)'
    <3>1. EnvOK(x) /\ PendOK(x)
      BY <1>1
    <3>2. EnvOK(x)'
      BY <2>3, <3>1 DEF EnvOK, Same
    <3>3. CASE x = f
      <4>1. env[x].scheduled \/ env[x].destructing
        BY <1>7, <3>3 DEF MustSchedule
      <4>2. QED
        BY <2>3, <3>2, <4>1 DEF PendOK, Same
    <3>4. CASE x # f
      <4>1. env'[x].pending > 0 => env[x].pending > 0
        BY <1>3, <2>2, <3>4
      <4>2. QED
        BY <2>3, <3>1, <3>2, <4>1 DEF PendOK, Same, Live
    <3>5. QED
      BY <3>3, <3>4
  <2>9. QED
    BY <1>1, <1>7, <2>5, <2>6, <2>7, <2>8, ScopesKept, RejectionsKept
       DEF IInv, RunInv
<1>8. CASE /\ MustSchedule(f)
           /\ env' = [en EXCEPT ![f].pending = @ + 1, ![f].scheduled = TRUE,
                                ![f].refs = @ + 1]
           /\ tasks' = PostTask(f) /\ UNCHANGED process
  <2> DEFINE c == en[f].refs + 1
  <2>1. /\ env[f].scheduled = FALSE /\ env[f].destructing = FALSE
        /\ env[f].refs = One(env[f].owned) /\ env[f].phase = "live"
        /\ env[f].refs \in {1}
    <3>1. ~env[f].scheduled /\ ~env[f].destructing /\ EnvOK(f) /\ Live(f)
      BY <1>1, <1>8 DEF MustSchedule
    <3>2. env[f].scheduled \in BOOLEAN /\ env[f].destructing \in BOOLEAN
          /\ env[f].refs \in 0 .. 2 /\ env[f].owned \in BOOLEAN
      BY <1>3 DEF EnvRecord
    <3>3. QED
      BY <3>1, <3>2 DEF EnvOK, Live, One
  <2>2. c = 2 /\ c \in 0 .. 2
    BY <1>3, <2>1
  <2> HIDE DEF c
  <2> DEFINE y == [en[f] EXCEPT !.pending = p, !.scheduled = TRUE, !.refs = c]
  <2>4. env' = [en EXCEPT ![f] = y]
    BY <1>3, <1>8 DEF p, c
  <2>5. /\ y \in EnvRecord /\ y.pending = p /\ y.scheduled = TRUE
        /\ y.refs = c /\ y.phase = en[f].phase /\ y.rt = en[f].rt
        /\ y.destructing = en[f].destructing
        /\ y.owned = en[f].owned /\ y.late = en[f].late
    <3>1. en[f] \in EnvRecord
      BY <1>3
    <3>2. QED
      BY <1>5, <2>2, <3>1 DEF EnvRecord
  <2> HIDE DEF y
  <2>6. /\ env' \in [Env -> EnvRecord] /\ env'[f] = y
        /\ \A x \in Env : x # f => env'[x] = en[x]
    BY <1>3, <2>4, <2>5
  <2>7. /\ \A x \in Env : Same(x)
        /\ \A x \in Env : x # f => /\ env'[x].scheduled = env[x].scheduled
                                   /\ env'[x].refs = env[x].refs
    BY <1>3, <2>5, <2>6 DEF Same
  <2>8. \A x \in Env : env'[x].pending <= enqueued'
    <3>1. ASSUME NEW x \in Env, x # f PROVE env'[x].pending <= enqueued'
      BY <1>2, <1>3, <2>6, <3>1
    <3>2. QED
      BY <1>5, <2>5, <2>6, <3>1
  <2>9. /\ tasks \in Seq(Env) /\ ~In(f, tasks) /\ IsInjective(tasks)
        /\ tasks' = Append(tasks, f)
    BY <1>1, <1>8, <2>1 DEF CoreTypes, TaskInv, PostTask
  <2>10. /\ tasks' \in Seq(Env) /\ IsInjective(tasks')
         /\ \A x : In(x, tasks') <=> In(x, tasks) \/ x = f
    BY <2>9, InjectiveAppend
  <2>11. CoreTypes'
    BY <1>1, <1>2, <2>6, <2>8, <2>10 DEF CoreTypes
  <2>12. ListedLive' /\ BookInv'
    BY <1>1, <2>7, BooksKept
  <2>13. TaskInv'
    BY <1>1, <2>5, <2>6, <2>7, <2>10 DEF TaskInv
  <2>14. ASSUME NEW x \in Env PROVE EnvOK(x)' /\ PendOK(x)'
    <3>1. EnvOK(x) /\ PendOK(x) /\ Same(x)
      BY <1>1, <2>7
    <3>2. CASE x = f
      <4>1. /\ env'[x].scheduled = TRUE /\ env'[x].refs = 2
            /\ env'[x].owned = env[x].owned /\ env[x].owned \in BOOLEAN
        BY <1>3, <2>2, <2>5, <2>6, <3>2 DEF EnvRecord
      <4>2. env[x].owned /\ One(env'[x].scheduled) + One(env'[x].owned) = 2
        BY <2>1, <3>2, <4>1 DEF One
      <4>3. EnvOK(x)'
        <5>1. /\ env'[x].destructing = FALSE /\ env'[x].phase = "live"
              /\ env'[x].rt \in Runtime /\ rt[env'[x].rt].phase # "none"
          BY <2>1, <3>1, <3>2 DEF EnvOK, Same
        <5>2. QED
          BY <4>1, <4>2, <5>1 DEF EnvOK, One
      <4>4. PendOK(x)'
        BY <4>1 DEF PendOK
      <4>5. QED
        BY <4>3, <4>4
    <3>3. CASE x # f
      <4>1. env'[x].pending > 0 => env[x].pending > 0
        BY <1>3, <2>6, <3>3
      <4>2. PendOK(x)'
        BY <2>7, <3>1, <3>3, <4>1 DEF PendOK, Same, Live
      <4>3. EnvOK(x)'
        BY <2>7, <3>1, <3>3 DEF EnvOK, Same
      <4>4. QED
        BY <4>2, <4>3
    <3>4. QED
      BY <3>2, <3>3
  <2>15. QED
    BY <1>1, <1>8, <2>11, <2>12, <2>13, <2>14, ScopesKept, RejectionsKept
       DEF IInv, RunInv
<1>9. QED
  BY <1>4, <1>7, <1>8 DEF Enqueue

LEMMA EnqueueFinalizerIInv ==
    ASSUME IInv, NEW e \in Env, EnqueueFinalizer(e) PROVE IInv'
<1>1. /\ process = "running" /\ Live(e) /\ Enqueue(env, e)
      /\ UNCHANGED <<rt, list, calls, scopeVars, rejVars>>
  BY DEF EnqueueFinalizer, HostTurn
<1>2. Took(env, e)
  BY BoundAssumption DEF IInv, CoreTypes, EnvRecord, Took
<1>3. QED
  BY <1>1, <1>2, EnqueueIInv

LEMMA FinalizerEnqueuesIInv ==
    ASSUME IInv, NEW e \in Env, NEW f \in Env, FinalizerEnqueues(e, f)
    PROVE  IInv'
<1>1. /\ process = "running" /\ Live(f) /\ Enqueue(Taken(e), f)
      /\ UNCHANGED <<rt, list, calls, scopeVars, rejVars>>
      /\ env[e].pending > 0
  BY DEF FinalizerEnqueues, Draining
<1>2. Took(Taken(e), e)
  BY <1>1, TakenTook DEF IInv
<1>3. QED
  BY <1>1, <1>2, EnqueueIInv

-----------------------------------------------------------------------------
(* The steps of a deletion.                                                *)

\* The call on top has returned.
LEMMA Popped ==
    ASSUME IInv, process = "running", calls # <<>>, calls' = Front(calls)
    PROVE  /\ calls' \in Seq(CallRecord) /\ Len(calls') = Len(calls) - 1
           /\ \A i \in 1 .. Len(calls') :
                 calls'[i] = calls[i] /\ i \in 1 .. Len(calls) /\ i < Len(calls)
           /\ \A i \in 1 .. Len(calls) : i = Len(calls) \/ i \in 1 .. Len(calls')
<1>1. calls \in Seq(CallRecord)
  BY DEF IInv, CoreTypes
<1>2. /\ calls' \in Seq(CallRecord) /\ Len(calls) \in Nat \ {0}
      /\ Len(calls') = Len(calls) - 1
      /\ \A i \in 1 .. Len(calls) - 1 : calls'[i] = calls[i]
  BY <1>1, FrontProperties
<1>3. /\ \A i \in 1 .. Len(calls) - 1 : i \in 1 .. Len(calls) /\ i < Len(calls)
      /\ \A i \in 1 .. Len(calls) : i = Len(calls) \/ i \in 1 .. Len(calls) - 1
  BY <1>2
<1>4. QED
  BY <1>2, <1>3

LEMMA EndTaskIInv ==
    ASSUME IInv, NEW e \in Env, EndTask(e) PROVE IInv'
<1>1. /\ process = "running" /\ calls # <<>> /\ Top.env = e
      /\ UNCHANGED <<process, rt, list, env, tasks, enqueued, scopeVars, rejVars>>
  BY DEF EndTask, Draining
<1>2. calls' = Front(calls)
  BY DEF EndTask
<1>3. /\ calls' \in Seq(CallRecord) /\ Len(calls') = Len(calls) - 1
      /\ \A i \in 1 .. Len(calls') :
            calls'[i] = calls[i] /\ i \in 1 .. Len(calls) /\ i < Len(calls)
      /\ \A i \in 1 .. Len(calls) : i = Len(calls) \/ i \in 1 .. Len(calls')
  BY <1>1, <1>2, Popped
<1>4. /\ CoreTypes /\ ListedLive /\ ScopeInv /\ RejectionInv /\ TaskInv /\ BookInv
      /\ \A x \in Env : EnvOK(x) /\ PendOK(x)
  BY <1>1, RunFacts
<1>5. CoreTypes'
  BY <1>1, <1>3, <1>4 DEF CoreTypes
<1>6. ListedLive'
  BY <1>1, <1>3, <1>4 DEF ListedLive, LiveRuntime, Live
<1>7. \A r \in Runtime : RtOK(r)' /\ ListOK(r)'
  BY <1>1, <1>4 DEF BookInv, RtOK, ListOK, Live
<1>8. ASSUME NEW i \in 1 .. Len(calls')
      PROVE  CallOK(calls[i])' /\ CoverOK(calls[i])'
  <2>1. CallOK(calls[i]) /\ CoverOK(calls[i]) /\ calls'[i] = calls[i]
    BY <1>3, <1>4 DEF BookInv
  <2>2. CallOK(calls[i])'
    BY <1>1, <2>1 DEF CallOK, RootOf, IsDelete, Live
  <2>3. CoverOK(calls[i])'
    BY <1>1, <2>1 DEF CoverOK, RootOf, IsDelete, Live
  <2>4. QED
    BY <2>2, <2>3
<1>9. NestOK(calls)'
  <2>1. NestOK(calls)
    BY <1>4 DEF BookInv
  <2>2. \A i \in 1 .. Len(calls') : /\ IsDelete(calls'[i]) <=> IsDelete(calls[i])
                                    /\ calls'[i].env = calls[i].env
                                    /\ RootOf(calls[i].env)' = RootOf(calls[i].env)
    BY <1>1, <1>3 DEF IsDelete, RootOf
  <2>3. ASSUME NEW i \in 1 .. Len(calls'), NEW j \in 1 .. Len(calls'), i < j,
               IsDelete(calls'[i]), IsDelete(calls'[j])
        PROVE  /\ calls'[i].env # calls'[j].env
               /\ calls'[j].env # RootOf(calls[j].env)'
    <3>1. i \in 1 .. Len(calls) /\ j \in 1 .. Len(calls)
      BY <1>3
    <3>2. QED
      BY <2>1, <2>2, <2>3, <3>1 DEF NestOK
  <2>4. QED
    BY <2>3 DEF NestOK, RootOf, IsDelete
<1>10. \A x \in Env : LeftOK(x)' /\ EnvOK(x)'
  BY <1>1, <1>4 DEF BookInv, LeftOK, EnvOK, Live
<1>10a. ASSUME NEW x \in Env PROVE DeletingOK(x)'
  <2>1. DeletingOK(x) /\ ~IsDelete(calls[Len(calls)])
    BY <1>4 DEF BookInv, EndTask, Top, IsDelete
  <2>2. QED
    BY <1>1, <1>3, <2>1 DEF DeletingOK, IsDelete, Live
<1>11. TaskInv'
  BY <1>1, <1>4 DEF TaskInv
<1>12. ASSUME NEW x \in Env PROVE PendOK(x)'
  <2>1. PendOK(x)
    BY <1>4
  <2>2. CASE x = e
    <3>1. ~(Live(x) /\ env[x].pending > 0)
      BY <2>2 DEF EndTask
    <3>2. QED
      BY <1>1, <3>1 DEF PendOK, Live
  <2>3. CASE x # e
    <3>1. \A i \in 1 .. Len(calls) : calls[i].env = x => i \in 1 .. Len(calls')
      BY <1>1, <1>3, <2>3 DEF Top
    <3>2. QED
      BY <1>1, <1>3, <2>1, <3>1 DEF PendOK, Live
  <2>4. QED
    BY <2>2, <2>3
<1>13. QED
  BY <1>1, <1>4, <1>5, <1>6, <1>7, <1>8, <1>9, <1>10, <1>10a, <1>11,
     <1>12, ScopesKept, RejectionsKept DEF IInv, RunInv, BookInv

\* The call on top goes on to its next step.
LEMMA Stepped ==
    ASSUME IInv, process = "running", calls # <<>>, NEW c \in CallRecord,
           calls' = [calls EXCEPT ![Len(calls)] = c]
    PROVE  /\ calls' \in Seq(CallRecord) /\ Len(calls') = Len(calls)
           /\ calls'[Len(calls)] = c
           /\ \A i \in 1 .. Len(calls) : i # Len(calls) => calls'[i] = calls[i]
<1>1. calls \in Seq(CallRecord) /\ Len(calls) \in 1 .. Len(calls)
  BY TopFacts DEF IInv, CoreTypes
<1>2. QED
  BY <1>1, ExceptSeq

\* It is still the same deletion.
LEMMA SteppedKeeps ==
    ASSUME IInv, process = "running", calls # <<>>, NEW c \in CallRecord,
           calls' = [calls EXCEPT ![Len(calls)] = c],
           c.kind = Top.kind, c.env = Top.env,
           UNCHANGED <<rt, env, tasks, enqueued>>
    PROVE  /\ TaskInv' /\ NestOK(calls)'
           /\ \A x \in Env : EnvOK(x)' /\ PendOK(x)' /\ LeftOK(x)' /\ DeletingOK(x)'
           /\ \A r \in Runtime : RtOK(r)'
           /\ \A i \in 1 .. Len(calls) :
                 calls'[i].kind = calls[i].kind /\ calls'[i].env = calls[i].env
<1>1. /\ calls' \in Seq(CallRecord) /\ Len(calls') = Len(calls)
      /\ calls'[Len(calls)] = c
      /\ \A i \in 1 .. Len(calls) : i # Len(calls) => calls'[i] = calls[i]
  BY Stepped
<1>2. \A i \in 1 .. Len(calls) :
         calls'[i].kind = calls[i].kind /\ calls'[i].env = calls[i].env
  BY <1>1 DEF Top
<1>3. TaskInv' /\ \A r \in Runtime : RtOK(r)'
  BY RunFacts DEF TaskInv, RtOK, Live
<1>4. \A x \in Env : EnvOK(x)' /\ LeftOK(x)'
  BY RunFacts DEF EnvOK, LeftOK, Live
<1>5. \A x \in Env : PendOK(x)'
  BY <1>1, <1>2, RunFacts, ZenonT(40) DEF PendOK, Live
<1>6. NestOK(calls)'
  <2>1. NestOK(calls)
    BY RunFacts
  <2>2. \A i \in 1 .. Len(calls) : /\ IsDelete(calls'[i]) <=> IsDelete(calls[i])
                                   /\ RootOf(calls[i].env)' = RootOf(calls[i].env)
    BY <1>2 DEF IsDelete, RootOf
  <2>3. ASSUME NEW i \in 1 .. Len(calls), NEW j \in 1 .. Len(calls), i < j,
               IsDelete(calls'[i]), IsDelete(calls'[j])
        PROVE  /\ calls'[i].env # calls'[j].env
               /\ calls'[j].env # RootOf(calls[j].env)'
    BY <1>2, <2>1, <2>2, <2>3 DEF NestOK
  <2>4. QED
    BY <1>1, <2>3, ZenonT(40) DEF NestOK, RootOf, IsDelete
<1>7. ASSUME NEW x \in Env PROVE DeletingOK(x)'
  <2>1. DeletingOK(x)
    BY RunFacts
  <2>2. QED
    BY <1>1, <1>2, <2>1 DEF DeletingOK, IsDelete, Live
<1>8. QED
  BY <1>2, <1>3, <1>4, <1>5, <1>6, <1>7

LEMMA EndUnrefIInv ==
    ASSUME IInv, EndUnref PROVE IInv'
<1>1. /\ process = "running" /\ calls # <<>> /\ Top.step = "unref"
      /\ Top.rest = <<>> /\ calls' = [calls EXCEPT ![Len(calls)].step = "drain"]
      /\ UNCHANGED <<process, rt, list, env, tasks, enqueued, scopeVars, rejVars>>
  BY DEF EndUnref, SetStep
<1> DEFINE n == Len(calls)
<1>2. /\ n \in 1 .. n /\ Top = calls[n] /\ Top \in CallRecord
      /\ CallOK(Top) /\ CoverOK(Top)
  BY <1>1, TopFacts
<1>3. PICK c \in CallRecord :
         /\ calls' = [calls EXCEPT ![n] = c]
         /\ c.kind = Top.kind /\ c.env = Top.env
         /\ c.rest = Top.rest /\ c.step = "drain"
  <2> DEFINE c == [Top EXCEPT !.step = "drain"]
  <2>1. /\ c \in CallRecord /\ c.kind = Top.kind /\ c.env = Top.env
        /\ c.rest = Top.rest /\ c.step = "drain"
    BY <1>2 DEF CallRecord
  <2>2. calls' = [calls EXCEPT ![n] = c]
    BY <1>1 DEF Top
  <2> HIDE DEF c
  <2>3. QED
    BY <2>1, <2>2
<1>5. /\ calls' \in Seq(CallRecord) /\ Len(calls') = n /\ calls'[n] = c
      /\ \A i \in 1 .. n : i # n => calls'[i] = calls[i]
  BY <1>1, <1>3, Stepped
<1>6. /\ TaskInv' /\ NestOK(calls)'
      /\ \A x \in Env : EnvOK(x)' /\ PendOK(x)' /\ LeftOK(x)' /\ DeletingOK(x)'
      /\ \A r \in Runtime : RtOK(r)'
  BY <1>1, <1>3, SteppedKeeps
<1>7. /\ CoreTypes /\ ListedLive /\ ScopeInv /\ RejectionInv
      /\ \A r \in Runtime : ListOK(r)
      /\ \A i \in 1 .. n : CallOK(calls[i]) /\ CoverOK(calls[i])
  BY <1>1, RunFacts
<1>8. CoreTypes'
  BY <1>1, <1>5, <1>7 DEF CoreTypes
<1>9. ASSUME NEW i \in 1 .. n PROVE calls'[i].rest = calls[i].rest
  BY <1>2, <1>3, <1>5
<1>10. ListedLive'
  BY <1>1, <1>5, <1>7, <1>9 DEF ListedLive, LiveRuntime, Live
<1>11. \A r \in Runtime : ListOK(r)'
  BY <1>1, <1>7 DEF ListOK, Live
<1>12. ASSUME NEW i \in 1 .. n PROVE CallOK(calls[i])' /\ CoverOK(calls[i])'
  <2>1. CASE i = n
    <3>1. IsDelete(Top)
      BY <1>1, <1>2 DEF CallOK
    <3>2. CallOK(c)'
      BY <1>1, <1>2, <1>3, <3>1 DEF CallOK, RootOf, IsDelete, Live
    <3>3. CoverOK(c)'
      BY <1>1, <1>2, <1>3, <3>1 DEF CoverOK, RootOf, IsDelete, Live
    <3>4. QED
      BY <1>5, <2>1, <3>2, <3>3
  <2>2. CASE i # n
    <3>1. calls'[i] = calls[i] /\ CallOK(calls[i]) /\ CoverOK(calls[i])
      BY <1>5, <1>7, <2>2
    <3>2. CallOK(calls[i])'
      BY <1>1, <3>1 DEF CallOK, RootOf, IsDelete, Live
    <3>3. CoverOK(calls[i])'
      BY <1>1, <3>1 DEF CoverOK, RootOf, IsDelete, Live
    <3>4. QED
      BY <3>2, <3>3
  <2>3. QED
    BY <2>1, <2>2
<1>13. QED
  BY <1>1, <1>5, <1>6, <1>7, <1>8, <1>10, <1>11, <1>12,
     ScopesKept, RejectionsKept DEF IInv, RunInv, BookInv

LEMMA RemoveModuleEnvIInv ==
    ASSUME IInv, NEW e \in Env, RemoveModuleEnv(e) PROVE IInv'
<1>0. PICK r : r = env[e].rt
  OBVIOUS
<1> DEFINE n == Len(calls)
           rest == RemoveFirst(list[r], e)
<1>1. /\ process = "running" /\ calls # <<>> /\ Top.step = "remove" /\ Top.env = e
      /\ calls' = [calls EXCEPT ![n] = Call("delete", e, "unref", Snapshot(r, e))]
      /\ list' = Erased(r, e)
      /\ UNCHANGED <<process, rt, env, tasks, enqueued, scopeVars, rejVars>>
  BY <1>0 DEF RemoveModuleEnv
<1>2. /\ n \in 1 .. n /\ Top = calls[n] /\ Top \in CallRecord
      /\ CallOK(Top) /\ CoverOK(Top)
  BY <1>1, TopFacts
<1>3. /\ CoreTypes /\ ListedLive /\ ScopeInv /\ RejectionInv
      /\ \A s \in Runtime : RtOK(s) /\ ListOK(s)
      /\ \A x \in Env : EnvOK(x)
      /\ \A i \in 1 .. n : CallOK(calls[i]) /\ CoverOK(calls[i])
                           /\ calls[i] \in CallRecord
      /\ NestOK(calls)
  BY <1>1, RunFacts
<1>4. /\ Top.kind = "delete" /\ Live(e) /\ env[e].destructing
      /\ rt[r].phase = "live"
  BY <1>0, <1>1, <1>2 DEF CallOK, IsDelete
<1>5. r \in Runtime /\ env[e].refs = 0
  BY <1>0, <1>3, <1>4 DEF EnvOK, Live
<1>6. /\ list[r] \in Seq(Env) /\ IsInjective(list[r])
      /\ \A x \in Env : In(x, list[r]) => env[x].rt = r /\ Live(x)
      /\ \A x \in Env : /\ Live(x) /\ env[x].rt = r /\ ~env[x].destructing
                        => In(x, list[r])
  BY <1>3, <1>4, <1>5 DEF CoreTypes, ListOK, ListedLive, LiveRuntime
<1>7. /\ rest \in Seq(Env) /\ IsInjective(rest)
      /\ \A x : In(x, rest) <=> In(x, list[r]) /\ x # e
  BY <1>6, RemoveFirstProperties
<1>8. /\ list' \in [Runtime -> Seq(Env)] /\ list'[r] = rest
      /\ \A s \in Runtime : s # r => list'[s] = list[s]
  BY <1>1, <1>3, <1>5, <1>7 DEF CoreTypes, Erased
<1> HIDE DEF rest
<1>9. Snapshot(r, e) = IF rt[r].root = e THEN rest ELSE <<>>
  BY DEF Snapshot, rest
<1>10. /\ <<>> \in Seq(Env) /\ IsInjective(<<>>) /\ \A x : ~In(x, <<>>)
  BY EmptySeq, LenProperties DEF IsInjective, In
<1>10a. PICK sn : sn = Snapshot(r, e)
  OBVIOUS
<1>11. /\ sn \in Seq(Env) /\ IsInjective(sn)
       /\ \A x : In(x, sn) <=> rt[r].root = e /\ In(x, rest)
       /\ sn # <<>> => rt[r].root = e
  BY <1>7, <1>9, <1>10, <1>10a
<1>12. PICK c \in CallRecord :
          /\ calls' = [calls EXCEPT ![n] = c]
          /\ c.kind = "delete" /\ c.env = e /\ c.step = "unref" /\ c.rest = sn
  <2> DEFINE c == Call("delete", e, "unref", sn)
  <2>1. /\ c \in CallRecord /\ c.kind = "delete" /\ c.env = e
        /\ c.step = "unref" /\ c.rest = sn
    BY <1>11 DEF Call, CallRecord
  <2>2. calls' = [calls EXCEPT ![n] = c]
    BY <1>1, <1>10a
  <2> HIDE DEF c
  <2>3. QED
    BY <2>1, <2>2
<1>13. /\ calls' \in Seq(CallRecord) /\ Len(calls') = n /\ calls'[n] = c
       /\ \A i \in 1 .. n : i # n => calls'[i] = calls[i]
  BY <1>1, <1>12, Stepped
<1>14. /\ TaskInv' /\ NestOK(calls)'
       /\ \A x \in Env : EnvOK(x)' /\ PendOK(x)' /\ LeftOK(x)' /\ DeletingOK(x)'
       /\ \A s \in Runtime : RtOK(s)'
  BY <1>1, <1>4, <1>12, SteppedKeeps
<1>15. CoreTypes'
  BY <1>1, <1>3, <1>8, <1>13 DEF CoreTypes
<1>16. \A x \in Env : In(x, sn) => /\ Live(x) /\ env[x].owned
                                   /\ env[x].rt = r /\ x # e
  <2>1. ASSUME NEW x \in Env, In(x, sn)
        PROVE  /\ Live(x) /\ env[x].rt = r /\ x # e /\ rt[r].root = e
    BY <1>6, <1>7, <1>11, <2>1
  <2>2. In(e, list[r])
    BY <1>0, <1>1, <1>2, <1>4 DEF CallOK, IsDelete
  <2>3. ASSUME NEW x \in Env, In(x, sn) PROVE env[x].owned
    BY <1>3, <1>4, <1>5, <2>1, <2>2, <2>3 DEF ListOK
  <2>4. QED
    BY <2>1, <2>3
<1>17. ListedLive'
  <2>1. ASSUME NEW s \in LiveRuntime', NEW x \in Env, In(x, list'[s])
        PROVE  Live(x)'
    <3>1. s \in LiveRuntime /\ In(x, list[s])
      BY <1>1, <1>7, <1>8, <2>1 DEF LiveRuntime
    <3>2. QED
      BY <1>1, <1>3, <3>1 DEF ListedLive, Live
  <2>2. ASSUME NEW i \in 1 .. n, NEW x \in Env, In(x, calls'[i].rest)
        PROVE  Live(x)'
    BY <1>1, <1>3, <1>12, <1>13, <1>16, <2>2 DEF ListedLive, Live
  <2>3. QED
    BY <1>13, <2>1, <2>2 DEF ListedLive
<1>18. ASSUME NEW s \in Runtime PROVE ListOK(s)'
  <2>1. CASE s # r
    BY <1>1, <1>3, <1>8, <2>1 DEF ListOK, Live
  <2>2. CASE s = r
    BY <1>1, <1>3, <1>4, <1>6, <1>7, <1>8, <2>2 DEF ListOK, Live
  <2>3. QED
    BY <2>1, <2>2
<1>19. ASSUME NEW i \in 1 .. n PROVE CallOK(calls[i])' /\ CoverOK(calls[i])'
  <2>1. CASE i = n
    <3>1. CallOK(c)'
      <4>1. /\ IsDelete(c) /\ ~In(e, list'[r])
            /\ c.rest # <<>> => c.env = RootOf(c.env)
        BY <1>0, <1>7, <1>8, <1>11, <1>12 DEF IsDelete, RootOf
      <4>2. QED
        BY <1>0, <1>1, <1>4, <1>11, <1>12, <1>16, <4>1
           DEF CallOK, RootOf, IsDelete, Live
    <3>2. CoverOK(c)'
      <4>1. ASSUME NEW x \in Env, e = rt[r].root, Live(x), env[x].rt = r,
                   env[x].owned
            PROVE  In(x, sn)
        <5>1. ~env[x].destructing
          <6>1. EnvOK(x) /\ env[x] \in EnvRecord
            BY <1>3 DEF CoreTypes
          <6>2. env[x].refs # 0
            BY <4>1, <6>1 DEF EnvOK, One, EnvRecord
          <6>3. QED
            BY <4>1, <6>1, <6>2 DEF EnvOK, Live
        <5>2. x # e
          BY <1>4, <5>1
        <5>3. QED
          BY <1>6, <1>7, <1>11, <4>1, <5>1, <5>2
      <4>2. QED
        BY <1>0, <1>1, <1>12, <4>1 DEF CoverOK, RootOf, IsDelete, Live
    <3>3. QED
      BY <1>13, <2>1, <3>1, <3>2
  <2>2. CASE i # n
    <3>1. /\ calls'[i] = calls[i] /\ CallOK(calls[i]) /\ CoverOK(calls[i])
          /\ calls[i] \in CallRecord
      BY <1>3, <1>13, <2>2
    <3>2. CallOK(calls[i])'
      <4>1. IsDelete(calls[i]) =>
               /\ calls[i].env # e /\ calls[i].env \in Env
               /\ env[calls[i].env].rt \in Runtime
        <5>1. ASSUME IsDelete(calls[i]) PROVE calls[i].env # e
          <6>1. i < n /\ IsDelete(calls[n])
            BY <1>2, <1>4, <2>2 DEF IsDelete
          <6>2. QED
            BY <1>1, <1>2, <1>3, <5>1, <6>1 DEF NestOK
        <5>2. calls[i].env \in Env
          BY <3>1 DEF CallRecord
        <5>3. IsDelete(calls[i]) => env[calls[i].env].rt \in Runtime
          BY <1>3, <3>1, <5>2 DEF CallOK, EnvOK, Live
        <5>4. QED
          BY <5>1, <5>2, <5>3
      <4>2. IsDelete(calls[i]) =>
               (In(calls[i].env, list'[env[calls[i].env].rt]) <=>
                   In(calls[i].env, list[env[calls[i].env].rt]))
        BY <1>7, <1>8, <4>1
      <4>3. QED
        BY <1>1, <3>1, <4>2 DEF CallOK, RootOf, IsDelete, Live
    <3>3. CoverOK(calls[i])'
      BY <1>1, <3>1 DEF CoverOK, RootOf, IsDelete, Live
    <3>4. QED
      BY <3>2, <3>3
  <2>3. QED
    BY <2>1, <2>2
<1>20. QED
  BY <1>1, <1>3, <1>13, <1>14, <1>15, <1>17, <1>18, <1>19,
     ScopesKept, RejectionsKept DEF IInv, RunInv, BookInv

\* A deletion that ends has nothing left to let go of, and the environment is
\* in no list and in no copy of one.
LEMMA EndDeleteIInv ==
    ASSUME IInv, NEW e \in Env, EndDelete(e) PROVE IInv'
<1>0. PICK r : r = env[e].rt
  OBVIOUS
<1> DEFINE n == Len(calls)
<1>1. /\ process = "running" /\ calls # <<>> /\ Top.env = e /\ Top.step = "drain"
      /\ Top.kind = "delete" /\ calls' = Front(calls)
      /\ env' = [env EXCEPT ![e].phase = "deleted"]
      /\ UNCHANGED <<process, list, tasks, enqueued, scopeVars, promise>>
  BY DEF EndDelete, Draining
<1>2. /\ n \in 1 .. n /\ Top = calls[n] /\ Top \in CallRecord
      /\ CallOK(Top) /\ CoverOK(Top)
  BY <1>1, TopFacts
<1>3. /\ CoreTypes /\ ListedLive /\ ScopeInv /\ RejectionInv /\ TaskInv
      /\ \A s \in Runtime : RtOK(s) /\ ListOK(s)
      /\ \A x \in Env : EnvOK(x) /\ PendOK(x) /\ LeftOK(x) /\ DeletingOK(x)
      /\ \A i \in 1 .. n : CallOK(calls[i]) /\ CoverOK(calls[i])
                           /\ calls[i] \in CallRecord
      /\ NestOK(calls)
  BY <1>1, RunFacts
<1>4. /\ calls' \in Seq(CallRecord) /\ Len(calls') = n - 1
      /\ \A i \in 1 .. Len(calls') :
            calls'[i] = calls[i] /\ i \in 1 .. n /\ i < n
      /\ \A i \in 1 .. n : i = n \/ i \in 1 .. Len(calls')
  BY <1>1, Popped
<1>5. /\ Live(e) /\ env[e].destructing /\ rt[r].phase = "live"
      /\ ~In(e, list[r]) /\ Top.rest = <<>> /\ env[e].refs = 0
      /\ r \in Runtime
  <2>1. /\ Live(e) /\ env[e].destructing /\ rt[r].phase = "live"
        /\ ~In(e, list[r]) /\ Top.rest = <<>>
    BY <1>0, <1>1, <1>2 DEF CallOK, IsDelete
  <2>2. QED
    BY <1>0, <1>3, <2>1 DEF EnvOK, Live
<1>6. ~env[e].owned /\ ~env[e].scheduled
  <2>1. EnvOK(e) /\ env[e] \in EnvRecord
    BY <1>3 DEF CoreTypes
  <2>2. QED
    BY <1>5, <2>1 DEF EnvOK, One, EnvRecord
<1>7. /\ env' \in [Env -> EnvRecord] /\ \A x \in Env : x # e => env'[x] = env[x]
      /\ env'[e].phase = "deleted" /\ env'[e].rt = r /\ env'[e].refs = 0
      /\ env'[e].scheduled = env[e].scheduled
      /\ env'[e].destructing = env[e].destructing
      /\ env'[e].pending = env[e].pending
      /\ env'[e].owned = env[e].owned /\ env'[e].late = env[e].late
  <2>1. env \in [Env -> EnvRecord] /\ env[e] \in EnvRecord
    BY <1>3 DEF CoreTypes
  <2> DEFINE y == [env[e] EXCEPT !.phase = "deleted"]
  <2>2. /\ y \in EnvRecord /\ y.phase = "deleted" /\ y.rt = r /\ y.refs = 0
        /\ y.scheduled = env[e].scheduled /\ y.destructing = env[e].destructing
        /\ y.pending = env[e].pending /\ y.owned = env[e].owned
        /\ y.late = env[e].late
    BY <1>0, <1>5, <2>1 DEF EnvRecord, Phase
  <2>3. env' = [env EXCEPT ![e] = y]
    BY <1>1
  <2> HIDE DEF y
  <2>4. QED
    BY <2>1, <2>2, <2>3
<1>8. /\ \A s \in Runtime : s # r => rt'[s] = rt[s]
      /\ rt' \in [Runtime -> RuntimeRecord]
      /\ rt'[r].wrapper = rt[r].wrapper /\ rt'[r].root = rt[r].root
      /\ rt'[r].phase = IF rt[r].root = e THEN "deleted" ELSE "live"
      /\ rt[r].root # e => rt' = rt
  <2>1. rt \in [Runtime -> RuntimeRecord] /\ rt[r] \in RuntimeRecord
    BY <1>3, <1>5 DEF CoreTypes
  <2>2. CASE rt[r].root = e
    <3>1. rt' = [rt EXCEPT ![r].phase = "deleted"]
      BY <1>0, <2>2 DEF EndDelete
    <3>2. QED
      BY <1>5, <2>1, <2>2, <3>1 DEF RuntimeRecord, Phase
  <2>3. CASE rt[r].root # e
    <3>1. rt' = rt
      BY <1>0, <2>3 DEF EndDelete
    <3>2. QED
      BY <1>5, <2>1, <2>3, <3>1
  <2>4. QED
    BY <2>2, <2>3
<1>9. RejectionInv'
  <2>1. last' = last \/ last' = [last EXCEPT ![r] = None]
    BY <1>0 DEF EndDelete
  <2>2. QED
    BY <1>1, <1>3, <2>1 DEF RejectionInv, LastRejectionIsUnhandled
<1>10. CoreTypes'
  <2>1. \A x \in Env : env'[x].pending <= enqueued
    BY <1>3, <1>7 DEF CoreTypes
  <2>2. QED
    BY <1>1, <1>3, <1>4, <1>7, <1>8, <2>1 DEF CoreTypes
<1>11. \A i \in 1 .. n : ~In(e, calls[i].rest)
  BY <1>3, <1>6 DEF CallOK
<1>12. \A s \in Runtime : rt'[s].phase = "live" => rt[s].phase = "live"
  BY <1>5, <1>8
<1>13. \A s \in Runtime : rt'[s].phase = "live" => ~In(e, list[s])
  <2>1. ASSUME NEW s \in Runtime, rt'[s].phase = "live", In(e, list[s]) PROVE FALSE
    <3>1. env[e].rt = s
      BY <1>3, <1>12, <2>1 DEF ListOK
    <3>2. QED
      BY <1>0, <1>5, <2>1, <3>1
  <2>2. QED
    BY <2>1
<1>14. ListedLive'
  <2>1. ASSUME NEW s \in LiveRuntime', NEW x \in Env, In(x, list'[s])
        PROVE  Live(x)'
    <3>1. x # e /\ s \in LiveRuntime /\ In(x, list[s])
      BY <1>1, <1>12, <1>13, <2>1 DEF LiveRuntime
    <3>2. QED
      BY <1>3, <1>7, <3>1 DEF ListedLive, Live
  <2>2. ASSUME NEW i \in 1 .. Len(calls'), NEW x \in Env, In(x, calls'[i].rest)
        PROVE  Live(x)'
    <3>1. x # e /\ i \in 1 .. n /\ In(x, calls[i].rest)
      BY <1>4, <1>11, <2>2
    <3>2. QED
      BY <1>3, <1>7, <3>1 DEF ListedLive, Live
  <2>3. QED
    BY <2>1, <2>2 DEF ListedLive
<1>15. ASSUME NEW s \in Runtime PROVE RtOK(s)' /\ ListOK(s)'
  <2>1. RtOK(s) /\ ListOK(s) /\ RtOK(r)
    BY <1>3, <1>5
  <2>2. rt[s].phase # "none" /\ rt[s].root = e => s = r
    BY <1>0, <2>1 DEF RtOK
  <2>3. /\ rt'[s].root = rt[s].root /\ rt'[s].wrapper = rt[s].wrapper
        /\ rt'[s].phase = "none" <=> rt[s].phase = "none"
        /\ rt'[s].phase = rt[s].phase \/ (s = r /\ rt[s].root = e)
    BY <1>5, <1>8
  <2>4. RtOK(s)'
    <3>1. CASE rt[s].phase # "none" /\ rt[s].root = e
      <4>1. ~rt[r].wrapper /\ rt'[r].phase = "deleted" /\ s = r
        BY <1>5, <1>6, <1>8, <2>1, <2>2, <3>1 DEF RtOK
      <4>2. QED
        BY <1>7, <2>1, <2>3, <3>1, <4>1 DEF RtOK
    <3>2. CASE rt[s].phase # "none" /\ rt[s].root # e
      <4>1. rt[s].root \in Env /\ env'[rt[s].root] = env[rt[s].root]
            /\ rt'[s].phase = rt[s].phase
        BY <1>7, <2>1, <2>3, <3>2 DEF RtOK
      <4>2. QED
        BY <2>1, <2>3, <4>1 DEF RtOK, Live
    <3>3. CASE rt[s].phase = "none"
      BY <2>1, <2>3, <3>3 DEF RtOK
    <3>4. QED
      BY <3>1, <3>2, <3>3
  <2>5. ListOK(s)'
    <3>1. ASSUME rt'[s].phase = "live" PROVE ~In(e, list[s]) /\ rt[s].phase = "live"
      BY <1>12, <1>13, <3>1
    <3>2. \A x \in Env : /\ Live(x)' => Live(x) /\ x # e /\ env'[x] = env[x]
                         /\ env'[x].rt = env[x].rt
      BY <1>0, <1>7 DEF Live
    <3>3. QED
      BY <1>1, <2>1, <2>3, <3>1, <3>2 DEF ListOK
  <2>6. QED
    BY <2>4, <2>5
\* When the root goes, the calls below it are immediates.
<1>16. \A i \in 1 .. Len(calls') :
          IsDelete(calls[i]) => /\ rt[r].root # e /\ rt' = rt
                                /\ calls[i].env # e /\ calls[i].env \in Env
  <2>1. ASSUME NEW i \in 1 .. Len(calls'), IsDelete(calls[i])
        PROVE  rt[r].root # e /\ calls[i].env # e /\ calls[i].env \in Env
    <3>1. /\ i \in 1 .. n /\ i < n /\ IsDelete(calls[n]) /\ calls[n].env = e
          /\ calls[i] \in CallRecord
      BY <1>1, <1>2, <1>3, <1>4 DEF IsDelete
    <3>2. e # RootOf(e) /\ calls[i].env # e
      BY <1>2, <1>3, <2>1, <3>1 DEF NestOK
    <3>3. QED
      BY <1>0, <3>1, <3>2 DEF RootOf, CallRecord
  <2>2. QED
    BY <1>8, <2>1
<1>17. ASSUME NEW i \in 1 .. Len(calls')
       PROVE  CallOK(calls[i])' /\ CoverOK(calls[i])'
  <2>1. PICK c : c = calls[i]
    OBVIOUS
  <2>2. /\ calls'[i] = c /\ CallOK(c) /\ CoverOK(c) /\ c \in CallRecord
        /\ ~In(e, c.rest)
    BY <1>3, <1>4, <1>11, <2>1
  <2>3. CASE IsDelete(c)
    <3>1. rt' = rt /\ c.env # e /\ c.env \in Env /\ env'[c.env] = env[c.env]
      BY <1>7, <1>16, <2>1, <2>3
    <3>2. \A x \in Env : /\ Live(x)' => Live(x) /\ x # e /\ env'[x] = env[x]
                         /\ x # e => env'[x] = env[x]
      BY <1>7 DEF Live
    <3>3. CallOK(c)'
      BY <1>1, <2>2, <2>3, <3>1, <3>2 DEF CallOK, RootOf, IsDelete, Live
    <3>4. CoverOK(c)'
      BY <2>2, <3>1, <3>2 DEF CoverOK, RootOf, IsDelete
    <3>5. QED
      BY <2>2, <3>3, <3>4
  <2>4. CASE ~IsDelete(c)
    <3>1. c.rest = <<>> /\ c.step = "drain"
      BY <2>2, <2>4 DEF CallOK
    <3>2. IsInjective(c.rest) /\ \A x : ~In(x, c.rest)
      BY <3>1, EmptySeq, LenProperties DEF IsInjective, In
    <3>3. CallOK(c)' /\ CoverOK(c)'
      BY <2>4, <3>1, <3>2 DEF CallOK, CoverOK, IsDelete
    <3>4. QED
      BY <2>2, <3>3
  <2>5. QED
    BY <2>3, <2>4
<1>18. NestOK(calls)'
  <2>1. ASSUME NEW i \in 1 .. Len(calls'), NEW j \in 1 .. Len(calls'), i < j,
               IsDelete(calls'[i]), IsDelete(calls'[j])
        PROVE  /\ calls'[i].env # calls'[j].env
               /\ calls'[j].env # RootOf(calls[j].env)'
    <3>1. /\ i \in 1 .. n /\ j \in 1 .. n /\ calls'[i] = calls[i]
          /\ calls'[j] = calls[j]
      BY <1>4
    <3>2. RootOf(calls[j].env)' = RootOf(calls[j].env)
      BY <1>7, <1>16, <2>1, <3>1 DEF RootOf
    <3>3. QED
      BY <1>3, <2>1, <3>1, <3>2 DEF NestOK
  <2>2. QED
    BY <2>1 DEF NestOK, RootOf, IsDelete
<1>19. ASSUME NEW x \in Env
       PROVE  EnvOK(x)' /\ PendOK(x)' /\ LeftOK(x)' /\ DeletingOK(x)'
  <2>1. EnvOK(x) /\ PendOK(x) /\ LeftOK(x) /\ DeletingOK(x)
    BY <1>3
  <2>2. EnvOK(x)'
    <3>1. \A s \in Runtime : rt[s].phase # "none" => rt'[s].phase # "none"
      BY <1>8
    <3>2. CASE x = e
      <4>1. /\ One(env'[e].scheduled) = 0 /\ One(env'[e].owned) = 0
            /\ rt'[r].phase # "none"
        BY <1>5, <1>6, <1>7, <3>1 DEF One
      <4>2. env'[x].destructing /\ env'[x].refs = 0
        BY <1>5, <1>7, <3>2, Zenon
      <4>3. env'[x].refs = One(env'[x].scheduled) + One(env'[x].owned)
        BY <3>2, <4>1, <4>2
      <4>4. /\ env'[x].phase = "deleted" /\ env'[x].rt \in Runtime
            /\ rt'[env'[x].rt].phase # "none"
        BY <1>5, <1>7, <3>2, <4>1
      <4>5. QED
        BY <4>2, <4>3, <4>4 DEF EnvOK
    <3>3. CASE x # e
      BY <1>7, <2>1, <3>1, <3>3 DEF EnvOK
    <3>4. QED
      BY <3>2, <3>3
  <2>3. CASE x = e
    <3>1. ~Live(x)'
      BY <1>7, <2>3 DEF Live
    <3>2. QED
      BY <2>2, <3>1 DEF PendOK, LeftOK, DeletingOK
  <2>4. CASE x # e
    <3>1. env'[x] = env[x]
      BY <1>7, <2>4
    <3>2. \A i \in 1 .. n : calls[i].env = x =>
             i \in 1 .. Len(calls') /\ calls'[i] = calls[i]
      BY <1>1, <1>2, <1>4, <2>4
    <3>3. PendOK(x)'
      BY <2>1, <3>1, <3>2 DEF PendOK, Live
    <3>4. DeletingOK(x)'
      BY <2>1, <3>1, <3>2 DEF DeletingOK, IsDelete, Live
    <3>5. LeftOK(x)'
      <4>1. ASSUME Live(x), env[x].rt = r, rt[r].root = e, env[x].owned
            PROVE  env[x].late
        <5>1. ~In(x, Top.rest)
          BY <1>5, EmptySeq, LenProperties DEF In
        <5>2. QED
          BY <1>0, <1>1, <1>2, <4>1, <5>1 DEF CoverOK, IsDelete, RootOf
      <4>2. CASE Live(x) /\ rt'[env[x].rt].phase = "deleted"
        <5>1. env[x].rt \in Runtime
          BY <2>1, <4>2 DEF EnvOK, Live
        <5>2. rt[env[x].rt].phase = "deleted" \/ (env[x].rt = r /\ rt[r].root = e)
          BY <1>5, <1>8, <4>2, <5>1
        <5>3. QED
          BY <2>1, <3>1, <4>1, <4>2, <5>2 DEF LeftOK, Live
      <4>3. QED
        BY <3>1, <4>2 DEF LeftOK, Live
    <3>6. QED
      BY <2>2, <3>3, <3>4, <3>5
  <2>5. QED
    BY <2>3, <2>4
<1>20. TaskInv'
  BY <1>1, <1>3, <1>7 DEF TaskInv
<1>21. QED
  BY <1>1, <1>3, <1>9, <1>10, <1>14, <1>15, <1>17, <1>18, <1>19, <1>20,
     ScopesKept DEF IInv, RunInv, BookInv

-----------------------------------------------------------------------------
(* Creation.                                                               *)

LEMMA NewEnvFacts ==
    ASSUME NEW r \in Runtime, NEW l \in BOOLEAN
    PROVE  /\ NewEnv(r, l) \in EnvRecord /\ NewEnv(r, l).phase = "live"
           /\ NewEnv(r, l).rt = r /\ NewEnv(r, l).refs = 1
           /\ NewEnv(r, l).scheduled = FALSE /\ NewEnv(r, l).destructing = FALSE
           /\ NewEnv(r, l).pending = 0 /\ NewEnv(r, l).owned = TRUE
           /\ NewEnv(r, l).late = l
<1>1. 0 \in 0 .. MaxFinalizer /\ 1 \in 0 .. 2 /\ 0 \in 0 .. 2
  BY BoundAssumption
<1>2. NoEnv \in EnvRecord
  BY <1>1 DEF NoEnv, EnvRecord, Phase
<1>3. NewEnv(r, l) \in EnvRecord
  BY <1>1, <1>2 DEF NewEnv, EnvRecord, Phase
<1>4. /\ NewEnv(r, l).phase = "live" /\ NewEnv(r, l).rt = r
      /\ NewEnv(r, l).refs = 1 /\ NewEnv(r, l).pending = 0
  BY DEF NewEnv, NoEnv
<1>5. /\ NewEnv(r, l).scheduled = FALSE /\ NewEnv(r, l).destructing = FALSE
      /\ NewEnv(r, l).owned = TRUE /\ NewEnv(r, l).late = l
  BY DEF NewEnv, NoEnv
<1>6. QED
  BY <1>3, <1>4, <1>5

\* Environment f is created, with its runtime or in one that is there, by the
\* application or by a finalizer of e.
LEMMA EnvCreated ==
    ASSUME IInv, process = "running", NEW e \in Env, NEW f \in Env, NEW en,
           Took(en, e), env[f].phase = "none", NEW r \in Runtime,
           NEW l \in BOOLEAN, l = ~rt'[r].wrapper,
           env' = [en EXCEPT ![f] = NewEnv(r, l)],
           rt' \in [Runtime -> RuntimeRecord], list' \in [Runtime -> Seq(Env)],
           \A s \in Runtime : s # r => rt'[s] = rt[s] /\ list'[s] = list[s],
           \/ /\ rt[r].phase # "none" /\ rt' = rt
              /\ list'[r] = Append(list[r], f)
           \/ /\ rt[r].phase = "none" /\ rt'[r].phase = "live"
              /\ rt'[r].wrapper /\ rt'[r].root = f /\ list'[r] = <<f>>,
           UNCHANGED <<process, tasks, calls, enqueued, scopeVars, rejVars>>
    PROVE  IInv'
<1> DEFINE n == Len(calls)
<1>1. /\ CoreTypes /\ ListedLive /\ ScopeInv /\ RejectionInv /\ TaskInv
      /\ \A s \in Runtime : RtOK(s) /\ ListOK(s)
      /\ \A x \in Env : EnvOK(x) /\ PendOK(x) /\ LeftOK(x) /\ DeletingOK(x)
      /\ \A i \in 1 .. n : CallOK(calls[i]) /\ CoverOK(calls[i])
                           /\ calls[i] \in CallRecord
      /\ NestOK(calls)
  BY RunFacts
<1>2. /\ en \in [Env -> EnvRecord] /\ enqueued \in Nat
      /\ \A x \in Env : /\ en[x].pending \in Nat /\ env[x].pending \in Nat
                        /\ en[x].pending <= env[x].pending
                        /\ env[x].pending <= enqueued
                        /\ en[x].phase = env[x].phase /\ en[x].rt = env[x].rt
                        /\ en[x].refs = env[x].refs
                        /\ en[x].scheduled = env[x].scheduled
                        /\ en[x].destructing = env[x].destructing
                        /\ en[x].owned = env[x].owned
                        /\ en[x].late = env[x].late
  <2>1. /\ \A x \in Env : env[x].pending \in Nat /\ env[x].pending <= enqueued
        /\ enqueued \in Nat
    BY <1>1, BoundAssumption DEF CoreTypes, EnvRecord
  <2>2. ASSUME NEW x \in Env, x # e
        PROVE  en[x] = env[x] /\ en[x].pending <= env[x].pending
    <3>1. en[x] = env[x] /\ env[x].pending \in Nat
      BY <2>1, <2>2 DEF Took
    <3>2. QED
      BY <3>1
  <2>3. QED
    BY <2>1, <2>2 DEF Took
<1> DEFINE y == NewEnv(r, l)
<1>3. /\ y \in EnvRecord /\ y.phase = "live" /\ y.rt = r /\ y.refs = 1
      /\ y.scheduled = FALSE /\ y.destructing = FALSE /\ y.pending = 0
      /\ y.owned = TRUE /\ y.late = l
  BY NewEnvFacts DEF y
<1> HIDE DEF y
<1>4. /\ env' \in [Env -> EnvRecord] /\ env'[f] = y
      /\ \A x \in Env : x # f => env'[x] = en[x]
  BY <1>2, <1>3 DEF y
<1>5. \A x \in Env : x # f => /\ Same(x) /\ env'[x].refs = env[x].refs
                              /\ env'[x].scheduled = env[x].scheduled
                              /\ env'[x].pending > 0 => env[x].pending > 0
  <2>1. ASSUME NEW x \in Env, x # f
        PROVE  /\ Same(x) /\ env'[x].refs = env[x].refs
               /\ env'[x].scheduled = env[x].scheduled
               /\ env'[x].pending > 0 => env[x].pending > 0
    <3>1. en[x].pending > 0 => env[x].pending > 0
      BY <1>2
    <3>2. QED
      BY <1>2, <1>4, <2>1, <3>1 DEF Same
  <2>2. QED
    BY <2>1
<1>6. /\ \A s \in Runtime : rt[s].phase # "none" => rt'[s] = rt[s]
      /\ rt'[r].phase # "none"
  OBVIOUS
<1>7. CoreTypes'
  <2>1. ASSUME NEW x \in Env PROVE env'[x].pending <= enqueued
    <3>1. CASE x = f
      BY <1>2, <1>3, <1>4, <3>1
    <3>2. CASE x # f
      <4>1. env'[x].pending = en[x].pending
        BY <1>4, <3>2
      <4>2. QED
        BY <1>2, <4>1
    <3>3. QED
      BY <3>1, <3>2
  <2>2. QED
    BY <1>1, <1>4, <2>1 DEF CoreTypes
<1>8. ~Live(f) /\ ~env[f].scheduled /\ env[f].refs = 0
  <2>1. EnvOK(f) /\ env[f] \in EnvRecord
    BY <1>1 DEF CoreTypes
  <2>2. QED
    BY <2>1 DEF EnvOK, One, EnvRecord, Live
<1>9. \A s \in Runtime : rt[s].phase = "live" => ~In(f, list[s])
  BY <1>1, <1>8 DEF ListedLive, LiveRuntime
<1>10. \A i \in 1 .. n : ~In(f, calls[i].rest)
  BY <1>1, <1>8 DEF ListedLive
<1>11. ASSUME rt[r].phase = "none", NEW x \in Env, x # f, env[x].phase # "none"
       PROVE  env[x].rt # r
  BY <1>1, <1>11 DEF EnvOK
\* What the list of r has.
<1>12. rt[r].phase = "live" => /\ IsInjective(list'[r])
                               /\ \A x : In(x, list'[r]) <=> In(x, list[r]) \/ x = f
  <2>1. ASSUME rt[r].phase = "live"
        PROVE  /\ IsInjective(list'[r])
               /\ \A x : In(x, list'[r]) <=> In(x, list[r]) \/ x = f
    <3>1. /\ list[r] \in Seq(Env) /\ IsInjective(list[r]) /\ ~In(f, list[r])
          /\ list'[r] = Append(list[r], f)
      BY <1>1, <1>9, <2>1 DEF CoreTypes, ListOK
    <3>2. QED
      BY <3>1, InjectiveAppend
  <2>2. QED
    BY <2>1
<1>13. rt[r].phase = "none" => /\ IsInjective(list'[r])
                               /\ \A x : In(x, list'[r]) <=> x = f
  <2>1. Len(<<f>>) = 1 /\ <<f>>[1] = f /\ DOMAIN <<f>> = 1 .. 1
    OBVIOUS
  <2>2. QED
    BY <2>1 DEF IsInjective, In
<1>14. \A x \in Env : Live(x) => Live(x)'
  BY <1>3, <1>4, <1>5 DEF Live, Same
<1>15. ListedLive'
  <2>1. ASSUME NEW s \in LiveRuntime', NEW x \in Env, In(x, list'[s])
        PROVE  Live(x)'
    <3>1. s \in Runtime /\ rt'[s].phase = "live"
      BY <2>1 DEF LiveRuntime
    <3>2. CASE x = f
      BY <1>3, <1>4, <3>2 DEF Live
    <3>3. CASE x # f
      <4>1. rt[s].phase = "live" /\ In(x, list[s])
        BY <1>6, <1>12, <1>13, <2>1, <3>1, <3>3
      <4>2. QED
        BY <1>1, <1>14, <3>1, <4>1 DEF ListedLive, LiveRuntime
    <3>4. QED
      BY <3>2, <3>3
  <2>2. ASSUME NEW i \in 1 .. n, NEW x \in Env, In(x, calls[i].rest)
        PROVE  Live(x)'
    BY <1>1, <1>14, <2>2 DEF ListedLive
  <2>3. QED
    BY <2>1, <2>2 DEF ListedLive
<1>16. ASSUME NEW s \in Runtime PROVE RtOK(s)'
  <2>1. CASE rt[s].phase # "none"
    <3>1. RtOK(s) /\ rt'[s] = rt[s]
      BY <1>1, <1>6, <2>1
    <3>2. rt[s].root \in Env /\ rt[s].root # f
      BY <2>1, <3>1 DEF RtOK
    <3>3. Same(rt[s].root)
      BY <1>5, <3>2
    <3>4. QED
      BY <3>1, <3>2, <3>3 DEF RtOK, Live, Same
  <2>2. CASE rt[s].phase = "none" /\ s # r
    BY <1>1, <2>2 DEF RtOK
  <2>3. CASE rt[s].phase = "none" /\ s = r
    <3>1. rt'[s].phase = "live" /\ rt'[s].wrapper = TRUE /\ rt'[s].root = f
      BY <2>3 DEF RuntimeRecord
    <3>2. QED
      BY <1>3, <1>4, <2>3, <3>1 DEF RtOK, Live
  <2>4. QED
    BY <2>1, <2>2, <2>3
<1>17. ASSUME NEW s \in Runtime PROVE ListOK(s)'
  <2>1. CASE s # r
    <3>1. /\ ListOK(s) /\ rt'[s] = rt[s] /\ list'[s] = list[s]
          /\ rt[s].phase = "live" => ~In(f, list[s])
      BY <1>1, <1>9, <2>1
    <3>2. env'[f].rt # s
      BY <1>3, <1>4, <2>1
    <3>3. ASSUME rt[s].phase = "live", NEW x \in Env
          PROVE  /\ In(x, list[s]) => env'[x].rt = s
                 /\ Live(x)' /\ env'[x].rt = s /\ ~env'[x].destructing
                    => In(x, list[s])
                 /\ Live(x)' /\ env'[x].rt = s /\ ~env'[x].owned
                    /\ x # rt[s].root => ~In(rt[s].root, list[s])
      <4>1. CASE x = f
        BY <3>1, <3>2, <3>3, <4>1
      <4>2. CASE x # f
        <5>1. Same(x)
          BY <1>5, <4>2
        <5>2. QED
          BY <3>1, <3>3, <5>1 DEF ListOK, Live, Same
      <4>3. QED
        BY <4>1, <4>2
    <3>4. QED
      BY <3>1, <3>3 DEF ListOK
  <2>2. CASE s = r /\ rt[r].phase = "live"
    <3>1. /\ ListOK(r) /\ RtOK(r) /\ rt'[r] = rt[r] /\ IsInjective(list'[r])
          /\ \A x : In(x, list'[r]) <=> In(x, list[r]) \/ x = f
      BY <1>1, <1>6, <1>12, <2>2
    <3>2. /\ rt[r].root # f /\ env'[f].rt = r /\ env'[f].owned
          /\ ~In(f, list[r])
      BY <1>3, <1>4, <1>9, <2>2, <3>1 DEF RtOK
    <3>3. ASSUME NEW x \in Env
          PROVE  /\ In(x, list'[r]) => env'[x].rt = r
                 /\ Live(x)' /\ env'[x].rt = r /\ ~env'[x].destructing
                    => In(x, list'[r])
                 /\ Live(x)' /\ env'[x].rt = r /\ ~env'[x].owned
                    /\ x # rt[r].root => ~In(rt[r].root, list'[r])
      <4>1. CASE x = f
        BY <3>1, <3>2, <4>1
      <4>2. CASE x # f
        <5>1. Same(x)
          BY <1>5, <4>2
        <5>2. QED
          BY <2>2, <3>1, <3>2, <4>2, <5>1 DEF ListOK, Live, Same
      <4>3. QED
        BY <4>1, <4>2
    <3>4. QED
      BY <2>2, <3>1, <3>3 DEF ListOK
  <2>3. CASE s = r /\ rt[r].phase = "none"
    <3>1. \A x \in Env : Live(x)' /\ env'[x].rt = r => x = f
      BY <1>5, <1>11, <2>3 DEF Live, Same
    <3>2. env'[f].rt = r
      BY <1>3, <1>4
    <3>3. rt'[r].root = f
      BY <2>3
    <3>4. QED
      BY <1>13, <2>3, <3>1, <3>2, <3>3 DEF ListOK
  <2>4. CASE s = r /\ rt[r].phase # "live" /\ rt[r].phase # "none"
    BY <1>6, <2>4 DEF ListOK
  <2>5. QED
    BY <2>1, <2>2, <2>3, <2>4
<1>18. \A i \in 1 .. n :
          IsDelete(calls[i]) =>
             /\ calls[i].env \in Env /\ calls[i].env # f /\ Same(calls[i].env)
             /\ env[calls[i].env].rt \in Runtime
             /\ rt[env[calls[i].env].rt].phase = "live"
             /\ rt'[env[calls[i].env].rt] = rt[env[calls[i].env].rt]
  <2>1. ASSUME NEW i \in 1 .. n, IsDelete(calls[i])
        PROVE  /\ calls[i].env \in Env /\ calls[i].env # f /\ Same(calls[i].env)
               /\ env[calls[i].env].rt \in Runtime
               /\ rt[env[calls[i].env].rt].phase = "live"
    <3>1. /\ calls[i].env \in Env /\ Live(calls[i].env) /\ calls[i].env # f
          /\ rt[env[calls[i].env].rt].phase = "live"
      BY <1>1, <1>8, <2>1 DEF CallOK, CallRecord
    <3>2. QED
      BY <1>1, <1>5, <3>1 DEF EnvOK, Live
  <2>2. QED
    BY <1>6, <2>1
<1>19. ASSUME NEW i \in 1 .. n PROVE CallOK(calls[i])' /\ CoverOK(calls[i])'
  <2>1. PICK c : c = calls[i]
    OBVIOUS
  <2>2. /\ calls'[i] = c /\ CallOK(c) /\ CoverOK(c) /\ c \in CallRecord
        /\ ~In(f, c.rest)
    BY <1>1, <1>10, <2>1
  <2>3. CASE IsDelete(c)
    <3>1. PICK s \in Runtime : s = env[c.env].rt
      BY <1>18, <2>1, <2>3
    <3>2. /\ c.env \in Env /\ c.env # f /\ Same(c.env)
          /\ rt[s].phase = "live" /\ rt'[s] = rt[s] /\ env'[c.env].rt = s
      BY <1>18, <2>1, <2>3, <3>1 DEF Same
    <3>3. In(c.env, list'[s]) <=> In(c.env, list[s])
      BY <1>12, <3>2
    <3>4. CallOK(c)'
      <4>1. \A x \in Env : In(x, c.rest) =>
               Live(x)' /\ env'[x].owned /\ env'[x].rt = s /\ x # c.env
        BY <1>5, <1>14, <2>2, <3>1 DEF CallOK, Same
      <4>2. QED
        BY <1>5, <1>14, <2>2, <2>3, <3>1, <3>2, <3>3, <4>1
           DEF CallOK, RootOf, IsDelete, Same
    <3>5. CoverOK(c)'
      <4>1. ASSUME c.env = rt[s].root, s = r PROVE l
        <5>1. EnvOK(c.env) /\ env[c.env] \in EnvRecord /\ RtOK(s)
              /\ env[c.env].destructing /\ Live(c.env)
          BY <1>1, <2>2, <2>3, <3>2 DEF CallOK, CoreTypes
        <5>2. env[c.env].refs = 0
          BY <5>1 DEF EnvOK, Live
        <5>3. ~env[c.env].owned
          BY <5>1, <5>2 DEF EnvOK, One, EnvRecord
        <5>4. QED
          BY <3>2, <4>1, <5>1, <5>3 DEF RtOK
      <4>2. /\ env'[f].late = l /\ env'[f].rt = r
        BY <1>3, <1>4
      <4>3. QED
        BY <1>5, <2>2, <2>3, <3>1, <3>2, <4>1, <4>2, SMTT(40)
           DEF CoverOK, RootOf, IsDelete, Live, Same
    <3>6. QED
      BY <2>2, <3>4, <3>5
  <2>4. CASE ~IsDelete(c)
    <3>1. c.rest = <<>> /\ c.step = "drain"
      BY <2>2, <2>4 DEF CallOK
    <3>2. IsInjective(c.rest) /\ \A x : ~In(x, c.rest)
      BY <3>1, EmptySeq, LenProperties DEF IsInjective, In
    <3>3. CallOK(c)' /\ CoverOK(c)'
      BY <2>4, <3>1, <3>2 DEF CallOK, CoverOK, IsDelete
    <3>4. QED
      BY <2>2, <3>3
  <2>5. QED
    BY <2>3, <2>4
<1>20. NestOK(calls)'
  <2>1. ASSUME NEW i \in 1 .. n, NEW j \in 1 .. n, i < j,
               IsDelete(calls[i]), IsDelete(calls[j])
        PROVE  /\ calls[i].env # calls[j].env
               /\ calls[j].env # RootOf(calls[j].env)'
    <3>1. RootOf(calls[j].env)' = RootOf(calls[j].env)
      BY <1>18, <2>1 DEF RootOf, Same
    <3>2. QED
      BY <1>1, <2>1, <3>1 DEF NestOK
  <2>2. QED
    BY <2>1 DEF NestOK, RootOf, IsDelete
<1>21. ASSUME NEW x \in Env
       PROVE  EnvOK(x)' /\ PendOK(x)' /\ LeftOK(x)' /\ DeletingOK(x)'
  <2>1. CASE x = f
    <3>1. EnvOK(x)'
      BY <1>3, <1>4, <1>6, <2>1 DEF EnvOK, One
    <3>2. PendOK(x)' /\ DeletingOK(x)'
      BY <1>3, <1>4, <2>1 DEF PendOK, DeletingOK
    <3>3. LeftOK(x)'
      BY <1>3, <1>4, <1>16, <2>1 DEF LeftOK, RtOK
    <3>4. QED
      BY <3>1, <3>2, <3>3
  <2>2. CASE x # f
    <3>1. /\ EnvOK(x) /\ PendOK(x) /\ LeftOK(x) /\ DeletingOK(x) /\ Same(x)
          /\ env'[x].refs = env[x].refs /\ env'[x].scheduled = env[x].scheduled
          /\ env'[x].pending > 0 => env[x].pending > 0
      BY <1>1, <1>5, <2>2
    <3>2. env[x].phase # "none" => rt'[env[x].rt] = rt[env[x].rt]
      BY <1>6, <3>1 DEF EnvOK
    <3>3. EnvOK(x)'
      BY <3>1, <3>2 DEF EnvOK, Same
    <3>4. PendOK(x)'
      BY <3>1 DEF PendOK, Live, Same
    <3>5. LeftOK(x)' /\ DeletingOK(x)'
      BY <3>1, <3>2 DEF LeftOK, DeletingOK, IsDelete, Live, Same
    <3>6. QED
      BY <3>3, <3>4, <3>5
  <2>3. QED
    BY <2>1, <2>2
<1>22. TaskInv'
  BY <1>1, <1>3, <1>4, <1>5, <1>8 DEF TaskInv
<1>23. QED
  BY <1>1, <1>7, <1>15, <1>16, <1>17, <1>19, <1>20, <1>21, <1>22,
     ScopesKept, RejectionsKept DEF IInv, RunInv, BookInv

LEMMA CreateRuntimeIInv ==
    ASSUME IInv, NEW r \in Runtime, NEW e \in Env, CreateRuntime(r, e)
    PROVE  IInv'
<1>1. /\ process = "running" /\ rt[r].phase = "none" /\ env[e].phase = "none"
      /\ rt' = [rt EXCEPT ![r] = [phase |-> "live", wrapper |-> TRUE, root |-> e,
                                  runner |-> TakesRunner]]
      /\ env' = [env EXCEPT ![e] = NewEnv(r, FALSE)]
      /\ list' = [list EXCEPT ![r] = <<e>>]
      /\ UNCHANGED <<process, tasks, calls, enqueued, scopeVars, rejVars>>
  BY DEF CreateRuntime, HostTurn
<1>2. /\ rt \in [Runtime -> RuntimeRecord] /\ list \in [Runtime -> Seq(Env)]
      /\ <<e>> \in Seq(Env)
  BY DEF IInv, CoreTypes
<1>3. PICK u \in RuntimeRecord : /\ rt' = [rt EXCEPT ![r] = u]
                                /\ u.phase = "live" /\ u.wrapper = TRUE
                                /\ u.root = e
  <2> DEFINE u == [phase |-> "live", wrapper |-> TRUE, root |-> e,
                   runner |-> TakesRunner]
  <2>1. TakesRunner \in BOOLEAN
    BY DEF TakesRunner
  <2>2. u \in RuntimeRecord /\ u.phase = "live" /\ u.wrapper = TRUE /\ u.root = e
    BY <2>1 DEF RuntimeRecord, Phase
  <2>3. rt' = [rt EXCEPT ![r] = u]
    BY <1>1
  <2> HIDE DEF u
  <2>4. QED
    BY <2>2, <2>3
<1>4. /\ rt' \in [Runtime -> RuntimeRecord] /\ list' \in [Runtime -> Seq(Env)]
      /\ \A s \in Runtime : s # r => rt'[s] = rt[s] /\ list'[s] = list[s]
      /\ rt'[r] = u /\ list'[r] = <<e>>
  BY <1>1, <1>2, <1>3
<1>5. FALSE = ~rt'[r].wrapper
  BY <1>3, <1>4
<1>6. Took(env, e)
  BY BoundAssumption DEF IInv, CoreTypes, EnvRecord, Took
<1>7. /\ rt[r].phase = "none" /\ rt'[r].phase = "live"
      /\ rt'[r].wrapper /\ rt'[r].root = e /\ list'[r] = <<e>>
  BY <1>1, <1>3, <1>4
<1>8. PICK l \in BOOLEAN : l = FALSE /\ l = ~rt'[r].wrapper
  BY <1>5
<1>9. env' = [env EXCEPT ![e] = NewEnv(r, l)]
  BY <1>1, <1>8
<1>10. PICK en : /\ Took(en, e) /\ env' = [en EXCEPT ![e] = NewEnv(r, l)]
  BY <1>6, <1>9
<1>11. /\ process = "running" /\ env[e].phase = "none"
       /\ rt' \in [Runtime -> RuntimeRecord] /\ list' \in [Runtime -> Seq(Env)]
       /\ \A s \in Runtime : s # r => rt'[s] = rt[s] /\ list'[s] = list[s]
       /\ UNCHANGED <<process, tasks, calls, enqueued, scopeVars, rejVars>>
  BY <1>1, <1>4
<1>12. QED
  BY <1>7, <1>8, <1>10, <1>11, EnvCreated

LEMMA CreateNodeApiIInv ==
    ASSUME IInv, NEW r \in Runtime, NEW e \in Env, CreateNodeApi(r, e)
    PROVE  IInv'
<1>1. /\ process = "running" /\ rt[r].wrapper /\ env[e].phase = "none"
      /\ env' = [env EXCEPT ![e] = NewEnv(r, FALSE)]
      /\ list' = [list EXCEPT ![r] = Append(@, e)]
      /\ UNCHANGED <<process, rt, tasks, calls, enqueued, scopeVars, rejVars>>
  BY DEF CreateNodeApi, HostTurn
<1>2. /\ rt \in [Runtime -> RuntimeRecord] /\ list \in [Runtime -> Seq(Env)]
      /\ rt[r].wrapper \in BOOLEAN /\ rt[r].phase = "live"
  BY <1>1, RunFacts DEF CoreTypes, RtOK, RuntimeRecord
<1>3. Append(list[r], e) \in Seq(Env)
  BY <1>2, AppendProperties
<1>4. /\ list' \in [Runtime -> Seq(Env)] /\ list'[r] = Append(list[r], e)
      /\ \A s \in Runtime : s # r => list'[s] = list[s]
  BY <1>1, <1>2, <1>3
<1>5. FALSE = ~rt'[r].wrapper /\ rt' = rt /\ rt[r].phase # "none"
  BY <1>1, <1>2
<1>6. Took(env, e)
  BY BoundAssumption DEF IInv, CoreTypes, EnvRecord, Took
<1>7. QED
  BY <1>1, <1>2, <1>4, <1>5, <1>6, EnvCreated

LEMMA FinalizerCreatesIInv ==
    ASSUME IInv, NEW e \in Env, NEW f \in Env, FinalizerCreates(e, f)
    PROVE  IInv'
<1>0. PICK r : r = env[e].rt
  OBVIOUS
<1>1. /\ process = "running" /\ Live(e) /\ env[e].pending > 0
      /\ env[f].phase = "none"
      /\ env' = [Taken(e) EXCEPT ![f] = NewEnv(r, ~rt[r].wrapper)]
      /\ list' = [list EXCEPT ![r] = Append(@, f)]
      /\ UNCHANGED <<process, rt, tasks, calls, enqueued, scopeVars, rejVars>>
  BY <1>0 DEF FinalizerCreates, Draining
<1>2. r \in Runtime /\ rt[r].phase # "none"
  BY <1>0, <1>1, RunFacts DEF EnvOK, Live
<1>3. /\ rt \in [Runtime -> RuntimeRecord] /\ list \in [Runtime -> Seq(Env)]
      /\ rt[r].wrapper \in BOOLEAN
  BY <1>2 DEF IInv, CoreTypes, RuntimeRecord
<1>4. Append(list[r], f) \in Seq(Env)
  BY <1>2, <1>3, AppendProperties
<1>5. /\ list' \in [Runtime -> Seq(Env)] /\ list'[r] = Append(list[r], f)
      /\ \A s \in Runtime : s # r => list'[s] = list[s]
  BY <1>1, <1>2, <1>3, <1>4
<1>6. PICK l \in BOOLEAN : l = ~rt[r].wrapper
  BY <1>3
<1>7. Took(Taken(e), e)
  BY <1>1, TakenTook DEF IInv
<1>8. /\ l = ~rt'[r].wrapper /\ rt' = rt
      /\ env' = [Taken(e) EXCEPT ![f] = NewEnv(r, l)]
  BY <1>1, <1>6
<1>9. PICK en : /\ Took(en, e) /\ env' = [en EXCEPT ![f] = NewEnv(r, l)]
  BY <1>7, <1>8
<1>10. /\ process = "running" /\ env[f].phase = "none" /\ rt[r].phase # "none"
       /\ rt' \in [Runtime -> RuntimeRecord] /\ list' \in [Runtime -> Seq(Env)]
       /\ \A s \in Runtime : s # r => rt'[s] = rt[s] /\ list'[s] = list[s]
       /\ UNCHANGED <<process, tasks, calls, enqueued, scopeVars, rejVars>>
       /\ rt' = rt /\ list'[r] = Append(list[r], f)
  BY <1>1, <1>2, <1>3, <1>5
<1>11. l = ~rt'[r].wrapper
  BY <1>8
<1>12. QED
  BY <1>2, <1>9, <1>10, <1>11, EnvCreated

-----------------------------------------------------------------------------
(* Unref.                                                                  *)

\* The owner or the immediate of e gives up its reference, which is still
\* counted.
Dropped(en, e) ==
    /\ en \in [Env -> EnvRecord]
    /\ \A x \in Env : x # e => en[x] = env[x]
    /\ en[e].phase = env[e].phase /\ en[e].rt = env[e].rt
    /\ en[e].refs = env[e].refs /\ en[e].pending = env[e].pending
    /\ en[e].destructing = env[e].destructing /\ en[e].late = env[e].late
    /\ en[e].refs = 1 + One(en[e].scheduled) + One(en[e].owned)
    /\ en[e].owned => env[e].owned

\* What Unref makes of the environment and of the calls.
UnrefDone(en, e, cs) ==
    /\ env' \in [Env -> EnvRecord]
    /\ \A x \in Env : x # e => env'[x] = env[x]
    /\ env'[e].phase = env[e].phase /\ env'[e].rt = env[e].rt
    /\ env'[e].pending = env[e].pending /\ env'[e].late = env[e].late
    /\ env'[e].scheduled = en[e].scheduled
    /\ env'[e].owned = en[e].owned
    /\ env[e].destructing = FALSE
    /\ \/ process' = "runtime" /\ calls' = cs
       \/ /\ process' = "running" /\ calls' = cs
          /\ env'[e].refs # 0 /\ env'[e].destructing = FALSE
          /\ env'[e].refs = One(en[e].scheduled) + One(en[e].owned)
       \/ /\ process' = "running" /\ rt[env[e].rt].phase = "live"
          /\ calls' = Append(cs, Call("delete", e, "remove", <<>>))
          /\ env'[e].refs = 0 /\ env'[e].destructing = TRUE
          /\ 0 = One(en[e].scheduled) + One(en[e].owned)

LEMMA UnrefFacts ==
    ASSUME IInv, process = "running", NEW e \in Env, NEW en, NEW cs, Live(e),
           Dropped(en, e), Unref(en, e, cs)
    PROVE  UnrefDone(en, e, cs)
<1>1. /\ EnvOK(e) /\ en[e] \in EnvRecord /\ env[e] \in EnvRecord
      /\ en \in [Env -> EnvRecord]
      /\ rt \in [Runtime -> RuntimeRecord]
  BY RunFacts DEF Dropped, CoreTypes
<1>2. PICK k \in Nat : k = One(en[e].scheduled) + One(en[e].owned)
  BY DEF One
<1>3. /\ en[e].refs = 1 + k /\ en[e].refs \in 0 .. 2
  <2>1. /\ en[e].refs = 1 + One(en[e].scheduled) + One(en[e].owned)
        /\ en[e].refs \in 0 .. 2
    BY <1>1 DEF Dropped, EnvRecord
  <2>2. One(en[e].scheduled) \in Nat /\ One(en[e].owned) \in Nat
    BY DEF One
  <2>3. QED
    BY <1>2, <2>1, <2>2
<1>4. /\ en[e].refs - 1 = k /\ k \in 0 .. 2 /\ en[e].refs # 0
      /\ en[e].refs > 1 <=> k # 0
  BY <1>2, <1>3
<1>5. env[e].destructing = FALSE
  <2>1. env[e].refs # 0 /\ env[e].destructing \in BOOLEAN
    BY <1>1, <1>4 DEF Dropped, EnvRecord
  <2>2. QED
    BY <1>1, <2>1 DEF EnvOK, Live
<1>6. /\ env[e].rt \in Runtime /\ rt[env[e].rt].phase # "none"
      /\ rt[env[e].rt].phase \in Phase
  BY <1>1 DEF EnvOK, Live, RuntimeRecord
<1>7. \A x \in EnvRecord, w \in 0 .. 2 :
         /\ [x EXCEPT !.refs = w] \in EnvRecord /\ [x EXCEPT !.refs = w].refs = w
         /\ [x EXCEPT !.refs = w].phase = x.phase
         /\ [x EXCEPT !.refs = w].rt = x.rt
         /\ [x EXCEPT !.refs = w].pending = x.pending
         /\ [x EXCEPT !.refs = w].scheduled = x.scheduled
         /\ [x EXCEPT !.refs = w].destructing = x.destructing
         /\ [x EXCEPT !.refs = w].owned = x.owned
         /\ [x EXCEPT !.refs = w].late = x.late
  BY DEF EnvRecord
<1>8. \A x \in EnvRecord :
         /\ [x EXCEPT !.destructing = TRUE] \in EnvRecord
         /\ [x EXCEPT !.destructing = TRUE].refs = x.refs
         /\ [x EXCEPT !.destructing = TRUE].phase = x.phase
         /\ [x EXCEPT !.destructing = TRUE].rt = x.rt
         /\ [x EXCEPT !.destructing = TRUE].pending = x.pending
         /\ [x EXCEPT !.destructing = TRUE].scheduled = x.scheduled
         /\ [x EXCEPT !.destructing = TRUE].destructing = TRUE
         /\ [x EXCEPT !.destructing = TRUE].owned = x.owned
         /\ [x EXCEPT !.destructing = TRUE].late = x.late
  BY DEF EnvRecord
<1>9. CASE en[e].refs > 1
  <2>1. /\ env' = [en EXCEPT ![e].refs = @ - 1] /\ calls' = cs
        /\ process' = process
    BY <1>9 DEF Unref
  <2>2. env' = [en EXCEPT ![e] = [en[e] EXCEPT !.refs = k]]
    BY <1>1, <1>4, <2>1
  <2>3. /\ env' \in [Env -> EnvRecord] /\ env'[e] = [en[e] EXCEPT !.refs = k]
        /\ \A x \in Env : x # e => env'[x] = en[x]
    BY <1>1, <1>4, <1>7, <2>2
  <2>4. /\ env'[e].refs = k /\ env'[e].destructing = en[e].destructing
        /\ env'[e].phase = en[e].phase /\ env'[e].rt = en[e].rt
        /\ env'[e].pending = en[e].pending /\ env'[e].late = en[e].late
        /\ env'[e].scheduled = en[e].scheduled
        /\ env'[e].owned = en[e].owned
    BY <1>1, <1>4, <1>7, <2>3
  <2>5. env'[e].destructing = FALSE /\ k # 0
    BY <1>4, <1>5, <1>9, <2>4 DEF Dropped
  <2>6. QED
    BY <1>2, <1>5, <2>1, <2>3, <2>4, <2>5 DEF Dropped, UnrefDone
<1>10. CASE ~(en[e].refs > 1) /\ rt[en[e].rt].phase = "deleted"
  <2>1. env' = en /\ calls' = cs /\ process' = "runtime"
    BY <1>10 DEF Unref
  <2>2. QED
    BY <1>1, <1>5, <2>1 DEF Dropped, UnrefDone
<1>11. CASE ~(en[e].refs > 1) /\ rt[en[e].rt].phase # "deleted"
  <2>1. /\ env' = [en EXCEPT ![e].refs = @ - 1, ![e].destructing = TRUE]
        /\ calls' = Append(cs, Call("delete", e, "remove", <<>>))
        /\ process' = process
    BY <1>11 DEF Unref
  <2> DEFINE z == [en[e] EXCEPT !.refs = k]
             y == [z EXCEPT !.destructing = TRUE]
  <2>2. env' = [en EXCEPT ![e] = y]
    BY <1>1, <1>4, <2>1
  <2>2a. /\ z \in EnvRecord /\ z.refs = k
         /\ z.phase = en[e].phase /\ z.rt = en[e].rt
         /\ z.pending = en[e].pending /\ z.late = en[e].late
         /\ z.scheduled = en[e].scheduled /\ z.owned = en[e].owned
    BY <1>1, <1>4, <1>7, ZenonT(40)
  <2> HIDE DEF z
  <2>3. /\ y \in EnvRecord /\ y.refs = k /\ y.destructing = TRUE
        /\ y.phase = en[e].phase /\ y.rt = en[e].rt
        /\ y.pending = en[e].pending /\ y.late = en[e].late
        /\ y.scheduled = en[e].scheduled /\ y.owned = en[e].owned
    BY <1>8, <2>2a
  <2> HIDE DEF y
  <2>4. /\ env' \in [Env -> EnvRecord] /\ env'[e] = y
        /\ \A x \in Env : x # e => env'[x] = en[x]
    BY <1>1, <2>2, <2>3
  <2>5. k = 0 /\ rt[env[e].rt].phase = "live"
    BY <1>4, <1>6, <1>11 DEF Phase, Dropped
  <2>6. QED
    BY <1>2, <1>5, <2>1, <2>3, <2>4, <2>5 DEF Dropped, UnrefDone
<1>12. QED
  BY <1>9, <1>10, <1>11

\* Unref of e on top of the calls cs, which go on where calls was.
LEMMA UnrefIInv ==
    ASSUME IInv, process = "running", NEW e \in Env, Live(e),
           NEW en, Dropped(en, e), NEW cs \in Seq(CallRecord), Unref(en, e, cs),
           UNCHANGED <<list, enqueued, scopeVars, rejVars>>,
           rt' \in [Runtime -> RuntimeRecord],
           \A s \in Runtime :
              /\ rt'[s].phase = rt[s].phase /\ rt'[s].root = rt[s].root
              /\ rt'[s].wrapper => rt[s].phase = "live"
              /\ rt[s].phase = "live" => (rt'[s].wrapper <=> en[rt[s].root].owned),
           en[e].owned \/ e = RootOf(e) \/ ~In(RootOf(e), list[env[e].rt])
              \/ ~env[e].owned,
           tasks' \in Seq(Env), IsInjective(tasks'),
           \A x \in Env : en[x].scheduled <=> In(x, tasks'),
           \A i \in 1 .. Len(calls) :
              \E j \in 1 .. Len(cs) : /\ cs[j].env = calls[i].env
                                     /\ cs[j].kind = calls[i].kind,
           ~en[e].owned \/ \E j \in 1 .. Len(cs) : cs[j].env = e,
           \A i \in 1 .. Len(cs) :
              /\ CallOK(cs[i]) /\ ~In(e, cs[i].rest)
              /\ IsDelete(cs[i]) => e # RootOf(e)
              /\ IsDelete(cs[i]) /\ cs[i].env = RootOf(cs[i].env)
                 /\ cs[i].step # "remove" =>
                    \A x \in Env : /\ Live(x) /\ env[x].rt = env[cs[i].env].rt
                                   /\ en[x].owned /\ ~env[x].late
                                   => In(x, cs[i].rest),
           NestOK(cs)
    PROVE  IInv'
<1> DEFINE m == Len(cs)
<1>0. UnrefDone(en, e, cs)
  BY UnrefFacts
<1>1. /\ CoreTypes /\ ListedLive /\ ScopeInv /\ RejectionInv
      /\ \A s \in Runtime : RtOK(s) /\ ListOK(s)
      /\ \A x \in Env : EnvOK(x) /\ PendOK(x) /\ LeftOK(x) /\ DeletingOK(x)
  BY RunFacts
<1>2. /\ env' \in [Env -> EnvRecord]
      /\ \A x \in Env : x # e => env'[x] = env[x]
      /\ env'[e].phase = env[e].phase /\ env'[e].rt = env[e].rt
      /\ env'[e].pending = env[e].pending /\ env'[e].late = env[e].late
      /\ env'[e].scheduled = en[e].scheduled /\ env'[e].owned = en[e].owned
      /\ env[e].destructing = FALSE
  BY <1>0 DEF UnrefDone
<1>3. \A x \in Env : /\ env'[x].phase = env[x].phase /\ env'[x].rt = env[x].rt
                     /\ env'[x].pending = env[x].pending
                     /\ env'[x].late = env[x].late
                     /\ env'[x].scheduled = en[x].scheduled
                     /\ env'[x].owned = en[x].owned
                     /\ env'[x].owned => env[x].owned
                     /\ x # e => env'[x] = env[x] /\ en[x] = env[x]
  BY <1>2 DEF Dropped
<1>4. \A x \in Env : Live(x)' <=> Live(x)
  BY <1>3 DEF Live
\* The call of DeleteMe.
<1> DEFINE d == Call("delete", e, "remove", <<>>)
<1>5. /\ d \in CallRecord /\ d.kind = "delete" /\ d.env = e
      /\ d.step = "remove" /\ d.rest = <<>>
  BY EmptySeq DEF Call, CallRecord
<1>6. IsInjective(<<>>) /\ \A x : ~In(x, <<>>)
  BY EmptySeq, LenProperties DEF IsInjective, In
<1> HIDE DEF d
<1>7. \/ process' = "runtime" /\ calls' = cs
      \/ /\ process' = "running" /\ calls' = cs
         /\ env'[e].refs # 0 /\ env'[e].destructing = FALSE
         /\ env'[e].refs = One(en[e].scheduled) + One(en[e].owned)
      \/ /\ process' = "running" /\ rt[env[e].rt].phase = "live"
         /\ calls' = Append(cs, d)
         /\ env'[e].refs = 0 /\ env'[e].destructing = TRUE
         /\ 0 = One(en[e].scheduled) + One(en[e].owned)
  BY <1>0 DEF UnrefDone, d
<1>8. m \in Nat /\ \A i \in 1 .. m : cs[i] \in CallRecord /\ cs[i].env \in Env
  <2>1. m \in Nat
    BY LenProperties
  <2>2. \A i \in 1 .. m : cs[i] \in CallRecord
    BY ElementOfSeq
  <2>3. QED
    BY <2>1, <2>2 DEF CallRecord
<1>9. /\ Append(cs, d) \in Seq(CallRecord) /\ Len(Append(cs, d)) = m + 1
      /\ Append(cs, d)[m + 1] = d
      /\ \A i \in 1 .. m : Append(cs, d)[i] = cs[i]
  BY <1>5, AppendProperties
<1>10. /\ \A i \in 1 .. m + 1 : i \in 1 .. m \/ i = m + 1
       /\ \A i \in 1 .. m : i \in 1 .. m + 1 /\ i < m + 1
       /\ m + 1 \in 1 .. m + 1
  BY <1>8
<1>11. /\ calls' \in Seq(CallRecord)
       /\ \A i \in 1 .. m : i \in 1 .. Len(calls') /\ calls'[i] = cs[i]
       /\ \A i \in 1 .. Len(calls') :
             \/ i \in 1 .. m /\ calls'[i] = cs[i]
             \/ i = m + 1 /\ calls' = Append(cs, d) /\ calls'[i] = d
  BY <1>7, <1>9, <1>10
<1>12. CoreTypes'
  <2>1. \A x \in Env : env'[x].pending <= enqueued
    BY <1>1, <1>3 DEF CoreTypes
  <2>2. QED
    BY <1>1, <1>2, <1>11, <2>1 DEF CoreTypes
<1>13. ListedLive'
  <2>1. ASSUME NEW s \in LiveRuntime', NEW x \in Env, In(x, list'[s])
        PROVE  Live(x)'
    <3>1. s \in LiveRuntime
      BY <2>1 DEF LiveRuntime
    <3>2. QED
      BY <1>1, <1>4, <2>1, <3>1 DEF ListedLive
  <2>2. ASSUME NEW i \in 1 .. Len(calls'), NEW x \in Env, In(x, calls'[i].rest)
        PROVE  Live(x)'
    <3>1. CASE i \in 1 .. m /\ calls'[i] = cs[i]
      <4>1. CallOK(cs[i]) /\ In(x, cs[i].rest)
        BY <2>2, <3>1
      <4>2. QED
        BY <1>4, <4>1 DEF CallOK
    <3>2. CASE calls'[i] = d
      BY <1>5, <1>6, <2>2, <3>2
    <3>3. QED
      BY <1>11, <3>1, <3>2
  <2>3. QED
    BY <2>1, <2>2 DEF ListedLive
<1>14. ScopeInv' /\ RejectionInv'
  BY <1>1, ScopesKept, RejectionsKept
<1>15. CASE process' = "runtime"
  BY <1>12, <1>13, <1>14, <1>15 DEF IInv
<1>16. CASE process' = "running"
  <2>1. /\ env'[e].refs = One(env'[e].scheduled) + One(env'[e].owned)
        /\ env'[e].destructing <=> env'[e].refs = 0
        /\ env'[e].destructing => /\ calls' = Append(cs, d)
                                  /\ rt[env[e].rt].phase = "live"
        /\ calls' = Append(cs, d) => env'[e].destructing
                                     /\ rt[env[e].rt].phase = "live"
    <3>1. Append(cs, d) # cs
      BY <1>8, <1>9
    <3>2. QED
      BY <1>2, <1>7, <1>16, <3>1
  <2>2. ASSUME NEW x \in Env PROVE EnvOK(x)'
    <3>1. EnvOK(x) /\ env[x].phase # "none" => rt'[env[x].rt].phase # "none"
      BY <1>1 DEF EnvOK
    <3>2. EnvOK(x)
      BY <1>1
    <3>3. CASE x = e
      <4>1. env'[x].phase = "live" /\ env'[x].rt = env[x].rt
            /\ env[x].phase = "live" /\ env[x].rt \in Runtime
        BY <1>2, <3>2, <3>3 DEF Live, EnvOK
      <4>2. QED
        BY <2>1, <3>1, <3>2, <3>3, <4>1 DEF EnvOK
    <3>4. CASE x # e
      BY <1>2, <3>1, <3>2, <3>4 DEF EnvOK
    <3>5. QED
      BY <3>3, <3>4
  <2>3. ASSUME NEW x \in Env PROVE PendOK(x)'
    <3>1. CASE x = e
      <4>1. CASE ~env'[e].owned /\ ~env'[e].destructing
        <5>1. env'[e].scheduled
          BY <2>1, <4>1 DEF One
        <5>2. QED
          BY <3>1, <5>1 DEF PendOK
      <4>2. CASE env'[e].destructing
        BY <3>1, <4>2 DEF PendOK
      <4>3. CASE \E j \in 1 .. m : cs[j].env = e
        BY <1>11, <3>1, <4>3 DEF PendOK
      <4>4. QED
        BY <1>2, <4>1, <4>2, <4>3
    <3>2. CASE x # e
      <4>1. PendOK(x) /\ env'[x] = env[x]
        BY <1>1, <1>2, <3>2
      <4>2. (\E i \in 1 .. Len(calls) : calls[i].env = x) =>
               \E j \in 1 .. Len(calls') : calls'[j].env = x
        BY <1>11
      <4>3. QED
        BY <4>1, <4>2 DEF PendOK, Live
    <3>3. QED
      BY <3>1, <3>2
  <2>4. TaskInv'
    BY <1>3 DEF TaskInv
  <2>5. ASSUME NEW s \in Runtime PROVE RtOK(s)'
    <3>1. RtOK(s) /\ rt'[s].phase = rt[s].phase /\ rt'[s].root = rt[s].root
      BY <1>1
    <3>2. rt[s].phase # "none" =>
             /\ rt[s].root \in Env /\ env'[rt[s].root].rt = env[rt[s].root].rt
             /\ env'[rt[s].root].phase = env[rt[s].root].phase
             /\ env'[rt[s].root].owned = en[rt[s].root].owned
      BY <1>3, <3>1 DEF RtOK
    <3>3. QED
      BY <3>1, <3>2 DEF RtOK, Live
  <2>6. ASSUME NEW s \in Runtime PROVE ListOK(s)'
    <3>1. ListOK(s) /\ rt'[s].phase = rt[s].phase /\ rt'[s].root = rt[s].root
      BY <1>1
    <3>2. ASSUME rt[s].phase = "live", NEW x \in Env
          PROVE  /\ In(x, list[s]) => env'[x].rt = s
                 /\ Live(x)' /\ env'[x].rt = s /\ ~env'[x].destructing
                    => In(x, list[s])
                 /\ Live(x)' /\ env'[x].rt = s /\ ~env'[x].owned
                    /\ x # rt[s].root => ~In(rt[s].root, list[s])
      <4>1. /\ In(x, list[s]) => env[x].rt = s
            /\ Live(x) /\ env[x].rt = s /\ ~env[x].destructing => In(x, list[s])
            /\ Live(x) /\ env[x].rt = s /\ ~env[x].owned
               /\ x # rt[s].root => ~In(rt[s].root, list[s])
        BY <3>1, <3>2 DEF ListOK
      <4>2. CASE x = e
        <5>1. /\ In(e, list[s]) => env'[e].rt = s
              /\ Live(e)' /\ env'[e].rt = s => In(e, list[s])
          BY <1>2, <1>4, <4>1, <4>2
        <5>2. ASSUME env'[e].rt = s, ~env'[e].owned, e # rt[s].root
              PROVE  ~In(rt[s].root, list[s])
          BY <1>2, <1>4, <4>1, <4>2, <5>2 DEF RootOf
        <5>3. QED
          BY <4>2, <5>1, <5>2
      <4>3. CASE x # e
        BY <1>2, <1>4, <4>1, <4>3
      <4>4. QED
        BY <4>2, <4>3
    <3>3. QED
      BY <3>1, <3>2 DEF ListOK
  <2>7. \A x \in Env : Live(x) => RootOf(x)' = RootOf(x)
    <3>1. \A x \in Env : Live(x) => env[x].rt \in Runtime
      BY <1>1 DEF EnvOK, Live
    <3>2. QED
      BY <1>3, <3>1 DEF RootOf
  \* A deletion that goes on is of another environment.
  <2>8. \A i \in 1 .. m : IsDelete(cs[i]) =>
                             /\ cs[i].env # e /\ Live(cs[i].env)
                             /\ env[cs[i].env].rt \in Runtime
    <3>1. ASSUME NEW i \in 1 .. m, IsDelete(cs[i])
          PROVE  /\ cs[i].env # e /\ Live(cs[i].env)
                 /\ env[cs[i].env].rt \in Runtime
      <4>1. Live(cs[i].env) /\ env[cs[i].env].destructing /\ cs[i].env \in Env
        BY <1>8, <3>1 DEF CallOK
      <4>2. QED
        BY <1>1, <1>2, <4>1 DEF EnvOK, Live
    <3>2. QED
      BY <3>1
  <2>9. ASSUME NEW i \in 1 .. Len(calls')
        PROVE  CallOK(calls[i])' /\ CoverOK(calls[i])'
    <3>1. CASE i \in 1 .. m /\ calls'[i] = cs[i]
      <4>1. PICK c : c = cs[i]
        OBVIOUS
      <4>2. /\ calls'[i] = c /\ CallOK(c) /\ ~In(e, c.rest) /\ c.env \in Env
            /\ IsDelete(c) => /\ c.env # e /\ Live(c.env)
                              /\ env[c.env].rt \in Runtime
        BY <1>8, <2>8, <3>1, <4>1
      <4>3. /\ env'[c.env].rt = env[c.env].rt
            /\ IsDelete(c) => env'[c.env] = env[c.env]
            /\ Live(c.env) => RootOf(c.env)' = RootOf(c.env)
        BY <1>2, <1>3, <2>7, <4>2
      <4>4. CallOK(c)'
        <5>1. \A x \in Env : In(x, c.rest) =>
                 /\ Live(x)' /\ env'[x].owned /\ env'[x].rt = env'[c.env].rt
                 /\ x # c.env
          BY <1>2, <1>4, <4>2, <4>3 DEF CallOK
        <5>2. IsDelete(c) =>
                 /\ Live(c.env)' /\ env'[c.env].destructing
                 /\ rt'[env'[c.env].rt].phase = "live"
                 /\ c.step = "remove" <=> In(c.env, list'[env'[c.env].rt])
          BY <1>4, <4>2, <4>3 DEF CallOK
        <5>3. c.rest # <<>> => /\ IsDelete(c) /\ c.step = "unref"
                               /\ c.env = RootOf(c.env)'
          BY <4>2, <4>3 DEF CallOK
        <5>4. QED
          BY <4>2, <5>1, <5>2, <5>3 DEF CallOK, IsDelete, RootOf
      <4>5. CoverOK(c)'
        <5>1. ASSUME IsDelete(c), c.env = RootOf(c.env)', c.step # "remove",
                     NEW x \in Env, Live(x)', env'[x].rt = env'[c.env].rt,
                     env'[x].owned, ~env'[x].late
              PROVE  In(x, c.rest)
          <6>1. /\ c.env = RootOf(c.env) /\ Live(x) /\ env[x].rt = env[c.env].rt
                /\ en[x].owned /\ ~env[x].late
            BY <1>3, <1>4, <4>2, <4>3, <5>1
          <6>2. QED
            BY <3>1, <4>1, <5>1, <6>1
        <5>2. QED
          BY <5>1 DEF CoverOK, IsDelete, RootOf, Live
      <4>6. QED
        BY <4>2, <4>4, <4>5
    <3>2. CASE calls'[i] = d /\ calls' = Append(cs, d)
      <4>1. /\ Live(e)' /\ env'[e].destructing /\ rt'[env'[e].rt].phase = "live"
        <5>1. env[e].rt \in Runtime
          BY <1>1 DEF EnvOK, Live
        <5>2. QED
          BY <1>2, <1>4, <2>1, <3>2, <5>1
      <4>2. In(e, list'[env'[e].rt])
        <5>1. env[e].rt \in Runtime /\ rt[env[e].rt].phase = "live"
          BY <1>1, <2>1, <3>2 DEF EnvOK, Live
        <5>2. In(e, list[env[e].rt])
          BY <1>1, <1>2, <5>1 DEF ListOK
        <5>3. QED
          BY <1>2, <5>2
      <4>3. CallOK(d)'
        BY <1>5, <1>6, <4>1, <4>2 DEF CallOK, IsDelete
      <4>4. CoverOK(d)'
        BY <1>5 DEF CoverOK
      <4>5. QED
        BY <3>2, <4>3, <4>4
    <3>3. QED
      BY <1>11, <3>1, <3>2
  <2>10. NestOK(calls)'
    <3>1. ASSUME NEW i \in 1 .. Len(calls'), NEW j \in 1 .. Len(calls'), i < j,
                 IsDelete(calls'[i]), IsDelete(calls'[j])
          PROVE  /\ calls'[i].env # calls'[j].env
                 /\ calls'[j].env # RootOf(calls[j].env)'
      <4>1. CASE i \in 1 .. m /\ calls'[i] = cs[i] /\ j \in 1 .. m /\ calls'[j] = cs[j]
        <5>1. /\ cs[i].env # cs[j].env /\ cs[j].env # RootOf(cs[j].env)
          BY <3>1, <4>1 DEF NestOK
        <5>2. RootOf(calls[j].env)' = RootOf(cs[j].env)
          <6>1. PICK x \in Env : x = cs[j].env /\ Live(x)
            BY <1>8, <2>8, <3>1, <4>1
          <6>2. RootOf(x)' = RootOf(x)
            BY <2>7, <6>1
          <6>3. QED
            BY <4>1, <6>1, <6>2 DEF RootOf
        <5>3. QED
          BY <4>1, <5>1, <5>2
      <4>2. CASE i \in 1 .. m /\ calls'[i] = cs[i] /\ calls'[j] = d
        <5>1. IsDelete(cs[i]) /\ cs[i].env # e /\ e # RootOf(e)
          BY <2>8, <3>1, <4>2
        <5>2. RootOf(calls[j].env)' = RootOf(e)
          <6>1. RootOf(e)' = RootOf(e)
            BY <2>7
          <6>2. QED
            BY <1>5, <4>2, <6>1 DEF RootOf
        <5>3. QED
          BY <1>5, <4>2, <5>1, <5>2
      <4>3. CASE i = m + 1
        <5>1. FALSE
          <6>1. j \in 1 .. m \/ j = m + 1
            BY <1>11
          <6>2. QED
            BY <1>8, <3>1, <4>3, <6>1
        <5>2. QED
          BY <5>1
      <4>4. QED
        BY <1>11, <4>1, <4>2, <4>3
    <3>2. QED
      BY <3>1 DEF NestOK, RootOf, IsDelete
  <2>11. ASSUME NEW x \in Env PROVE LeftOK(x)' /\ DeletingOK(x)'
    <3>1. LeftOK(x) /\ DeletingOK(x) /\ EnvOK(x)
      BY <1>1
    <3>2. LeftOK(x)'
      <4>1. Live(x) => rt'[env[x].rt].phase = rt[env[x].rt].phase
        BY <3>1 DEF EnvOK, Live
      <4>2. QED
        BY <1>3, <1>4, <3>1, <4>1 DEF LeftOK
    <3>3. CASE x = e
      <4>1. ASSUME env'[x].destructing
            PROVE  \E i \in 1 .. Len(calls') : IsDelete(calls'[i]) /\ calls'[i].env = x
        <5>1. m + 1 \in 1 .. Len(calls') /\ calls'[m + 1] = d
          BY <1>9, <1>10, <2>1, <3>3, <4>1
        <5>2. QED
          BY <1>5, <3>3, <5>1 DEF IsDelete
      <4>2. QED
        BY <3>2, <4>1 DEF DeletingOK, IsDelete
    <3>4. CASE x # e
      <4>1. (\E i \in 1 .. Len(calls) : IsDelete(calls[i]) /\ calls[i].env = x) =>
               \E j \in 1 .. Len(calls') : IsDelete(calls'[j]) /\ calls'[j].env = x
        BY <1>11, SMTT(40) DEF IsDelete
      <4>2. env'[x] = env[x]
        BY <1>2, <3>4
      <4>3. DeletingOK(x)'
        BY <3>1, <4>1, <4>2 DEF DeletingOK, IsDelete, Live
      <4>4. QED
        BY <3>2, <4>3
    <3>5. QED
      BY <3>3, <3>4
  <2>12. QED
    BY <1>12, <1>13, <1>14, <1>16, <2>2, <2>3, <2>4, <2>5, <2>6, <2>9, <2>10,
       <2>11 DEF IInv, RunInv, BookInv
<1>17. QED
  BY <1>7, <1>15, <1>16

LEMMA OwnerDropped ==
    ASSUME IInv, process = "running", NEW e \in Env, Live(e), env[e].owned,
           NEW en, en = [env EXCEPT ![e].owned = FALSE]
    PROVE  /\ Dropped(en, e) /\ ~en[e].owned
           /\ en[e].scheduled = env[e].scheduled
           /\ \A x \in Env : en[x].scheduled <=> In(x, tasks)
<1>1. /\ EnvOK(e) /\ env[e] \in EnvRecord /\ env \in [Env -> EnvRecord] /\ TaskInv
  BY RunFacts DEF CoreTypes
<1> DEFINE y == [env[e] EXCEPT !.owned = FALSE]
<1>2. /\ y \in EnvRecord /\ y.phase = env[e].phase /\ y.rt = env[e].rt
      /\ y.refs = env[e].refs /\ y.scheduled = env[e].scheduled
      /\ y.destructing = env[e].destructing /\ y.pending = env[e].pending
      /\ y.owned = FALSE /\ y.late = env[e].late
  BY <1>1 DEF EnvRecord
<1>3. en = [env EXCEPT ![e] = y]
  OBVIOUS
<1> HIDE DEF y
<1>4. /\ en \in [Env -> EnvRecord] /\ en[e] = y
      /\ \A x \in Env : x # e => en[x] = env[x]
  BY <1>1, <1>2, <1>3
<1>5. en[e].refs = 1 + One(en[e].scheduled) + One(en[e].owned)
  <2>1. env[e].refs = IF env[e].scheduled THEN 2 ELSE 1
    BY <1>1 DEF EnvOK, One
  <2>2. /\ en[e].refs = env[e].refs /\ en[e].owned = FALSE
        /\ en[e].scheduled <=> env[e].scheduled
    BY <1>2, <1>4
  <2>3. QED
    BY <2>1, <2>2 DEF One
<1>6. Dropped(en, e)
  BY <1>2, <1>4, <1>5 DEF Dropped
<1>7. \A x \in Env : en[x].scheduled <=> In(x, tasks)
  BY <1>1, <1>2, <1>4 DEF TaskInv
<1>8. QED
  BY <1>2, <1>4, <1>6, <1>7

LEMMA RunTaskIInv ==
    ASSUME IInv, RunTask PROVE IInv'
<1>1. /\ process = "running" /\ calls = <<>> /\ tasks # <<>>
      /\ tasks' = Tail(tasks)
      /\ UNCHANGED <<rt, list, enqueued, scopeVars, rejVars>>
  BY DEF RunTask, HostTurn
<1>2. /\ CoreTypes /\ TaskInv /\ \A x \in Env : EnvOK(x)
      /\ \A s \in Runtime : RtOK(s)
  BY <1>1, RunFacts
<1>3. /\ tasks' \in Seq(Env) /\ IsInjective(tasks')
      /\ Head(tasks) \in Env /\ In(Head(tasks), tasks)
      /\ \A y : In(y, tasks') <=> In(y, tasks) /\ y # Head(tasks)
  BY <1>1, <1>2, InjectiveTail DEF CoreTypes, TaskInv
<1>4. PICK e \in Env : e = Head(tasks)
  BY <1>3
<1>5. PICK en : en = [env EXCEPT ![e].scheduled = FALSE]
  OBVIOUS
<1>6. PICK cs : cs = <<Call("task", e, "drain", <<>>)>>
  OBVIOUS
<1>7. Unref(en, e, cs)
  BY <1>4, <1>5, <1>6 DEF RunTask, Unscheduled
<1>8. /\ env[e].scheduled /\ EnvOK(e) /\ env[e] \in EnvRecord
      /\ env \in [Env -> EnvRecord]
  BY <1>2, <1>3, <1>4 DEF TaskInv, CoreTypes
<1>9. /\ env[e].refs = 1 + One(env[e].owned) /\ env[e].refs # 0
  BY <1>8 DEF EnvOK, One
<1>10. Live(e)
  <2>1. env[e].phase \in Phase
    BY <1>8 DEF EnvRecord
  <2>2. QED
    BY <1>8, <1>9, <2>1 DEF EnvOK, Live, Phase
<1> DEFINE y == [env[e] EXCEPT !.scheduled = FALSE]
<1>11. /\ y \in EnvRecord /\ y.phase = env[e].phase /\ y.rt = env[e].rt
       /\ y.refs = env[e].refs /\ y.scheduled = FALSE
       /\ y.destructing = env[e].destructing /\ y.pending = env[e].pending
       /\ y.owned = env[e].owned /\ y.late = env[e].late
  BY <1>8 DEF EnvRecord
<1>12. en = [env EXCEPT ![e] = y]
  BY <1>5
<1> HIDE DEF y
<1>13. /\ en \in [Env -> EnvRecord] /\ en[e] = y
       /\ \A x \in Env : x # e => en[x] = env[x]
  BY <1>8, <1>11, <1>12
<1>14. Dropped(en, e)
  <2>1. One(en[e].scheduled) = 0 /\ One(en[e].owned) = One(env[e].owned)
        /\ One(env[e].owned) \in Nat
    BY <1>11, <1>13 DEF One
  <2>2. en[e].refs = 1 + One(en[e].scheduled) + One(en[e].owned)
    BY <1>9, <1>11, <1>13, <2>1
  <2>3. QED
    BY <1>11, <1>13, <2>2 DEF Dropped
<1>15. /\ \A x \in Env : en[x].owned = env[x].owned
       /\ \A x \in Env : en[x].scheduled <=> In(x, tasks')
  BY <1>2, <1>3, <1>4, <1>11, <1>13 DEF TaskInv
<1> DEFINE c == Call("task", e, "drain", <<>>)
<1>16. /\ c \in CallRecord /\ c.kind = "task" /\ c.env = e
       /\ c.step = "drain" /\ c.rest = <<>>
  BY EmptySeq DEF Call, CallRecord
<1>17. cs = <<c>>
  BY <1>6
<1> HIDE DEF c
<1>18. /\ cs \in Seq(CallRecord) /\ Len(cs) = 1 /\ cs[1] = c /\ 1 \in 1 .. Len(cs)
       /\ \A i \in 1 .. Len(cs) : i = 1 /\ cs[i] = c
       /\ Len(calls) = 0
  BY <1>1, <1>16, <1>17
<1>19. IsInjective(<<>>) /\ \A x : ~In(x, <<>>)
  BY EmptySeq, LenProperties DEF IsInjective, In
<1>20. CallOK(c) /\ ~IsDelete(c) /\ ~In(e, c.rest)
  BY <1>16, <1>19 DEF CallOK, IsDelete
<1>21. NestOK(cs)
  BY <1>18, <1>20 DEF NestOK
<1>22. /\ rt' \in [Runtime -> RuntimeRecord]
       /\ \A s \in Runtime :
             /\ rt'[s].phase = rt[s].phase /\ rt'[s].root = rt[s].root
             /\ rt'[s].wrapper => rt[s].phase = "live"
             /\ rt[s].phase = "live" => (rt'[s].wrapper <=> en[rt[s].root].owned)
  BY <1>1, <1>2, <1>15 DEF CoreTypes, RtOK
<1>23. en[e].owned \/ e = RootOf(e) \/ ~In(RootOf(e), list[env[e].rt])
          \/ ~env[e].owned
  BY <1>15
<1>24. /\ \A i \in 1 .. Len(calls) :
             \E j \in 1 .. Len(cs) : /\ cs[j].env = calls[i].env
                                    /\ cs[j].kind = calls[i].kind
       /\ \E j \in 1 .. Len(cs) : cs[j].env = e
  BY <1>16, <1>18
<1>25. \A i \in 1 .. Len(cs) :
          /\ CallOK(cs[i]) /\ ~In(e, cs[i].rest)
          /\ IsDelete(cs[i]) => e # RootOf(e)
          /\ IsDelete(cs[i]) /\ cs[i].env = RootOf(cs[i].env)
             /\ cs[i].step # "remove" =>
                \A x \in Env : /\ Live(x) /\ env[x].rt = env[cs[i].env].rt
                               /\ en[x].owned /\ ~env[x].late
                               => In(x, cs[i].rest)
  BY <1>18, <1>20
<1>26. QED
  BY <1>1, <1>3, <1>7, <1>10, <1>14, <1>15, <1>18, <1>21, <1>22, <1>23,
     <1>24, <1>25, UnrefIInv

LEMMA DeleteRuntimeIInv ==
    ASSUME IInv, NEW r \in Runtime, DeleteRuntime(r) PROVE IInv'
<1>1. /\ process = "running" /\ calls = <<>> /\ rt[r].wrapper
      /\ rt' = [rt EXCEPT ![r].wrapper = FALSE]
      /\ UNCHANGED <<list, tasks, enqueued, scopeVars, rejVars>>
  BY DEF DeleteRuntime, HostTurn
<1>2. /\ CoreTypes /\ TaskInv /\ \A s \in Runtime : RtOK(s)
  BY <1>1, RunFacts
<1>3. /\ rt[r].phase = "live" /\ rt[r].root \in Env /\ Live(rt[r].root)
      /\ env[rt[r].root].owned /\ env[rt[r].root].rt = r
  BY <1>1, <1>2 DEF RtOK
<1>4. PICK e \in Env : e = rt[r].root
  BY <1>3
<1>5. PICK en : en = [env EXCEPT ![e].owned = FALSE]
  OBVIOUS
<1>6. PICK cs : cs = <<>>
  OBVIOUS
<1>7. Unref(en, e, cs)
  BY <1>4, <1>5, <1>6 DEF DeleteRuntime
<1>8. Live(e) /\ env[e].owned /\ e = RootOf(e) /\ env[e].rt = r
  BY <1>3, <1>4 DEF RootOf
<1>9. /\ Dropped(en, e) /\ ~en[e].owned
      /\ \A x \in Env : en[x].scheduled <=> In(x, tasks)
  BY <1>1, <1>5, <1>8, OwnerDropped
<1>10. /\ rt' \in [Runtime -> RuntimeRecord]
       /\ rt'[r].phase = rt[r].phase /\ rt'[r].root = rt[r].root
       /\ ~rt'[r].wrapper /\ \A s \in Runtime : s # r => rt'[s] = rt[s]
  BY <1>1, <1>2 DEF CoreTypes, RuntimeRecord
<1>11. ASSUME NEW s \in Runtime
       PROVE  /\ rt'[s].phase = rt[s].phase /\ rt'[s].root = rt[s].root
              /\ rt'[s].wrapper => rt[s].phase = "live"
              /\ rt[s].phase = "live" => (rt'[s].wrapper <=> en[rt[s].root].owned)
  <2>1. CASE s = r
    BY <1>4, <1>9, <1>10, <2>1
  <2>2. CASE s # r
    <3>1. rt'[s] = rt[s] /\ RtOK(s)
      BY <1>2, <1>10, <2>2
    <3>2. rt[s].phase = "live" => en[rt[s].root] = env[rt[s].root]
      BY <1>8, <1>9, <2>2, <3>1 DEF RtOK, Dropped
    <3>3. QED
      BY <3>1, <3>2 DEF RtOK
  <2>3. QED
    BY <2>1, <2>2
<1>12. /\ cs \in Seq(CallRecord) /\ Len(cs) = 0 /\ Len(calls) = 0 /\ NestOK(cs)
       /\ \A i \in 1 .. Len(cs) : FALSE
       /\ \A i \in 1 .. Len(calls) : FALSE
  BY <1>1, <1>6, EmptySeq DEF NestOK
<1>13. /\ \A i \in 1 .. Len(calls) :
             \E j \in 1 .. Len(cs) : /\ cs[j].env = calls[i].env
                                    /\ cs[j].kind = calls[i].kind
       /\ \A i \in 1 .. Len(cs) :
             /\ CallOK(cs[i]) /\ ~In(e, cs[i].rest)
             /\ IsDelete(cs[i]) => e # RootOf(e)
             /\ IsDelete(cs[i]) /\ cs[i].env = RootOf(cs[i].env)
                /\ cs[i].step # "remove" =>
                   \A x \in Env : /\ Live(x) /\ env[x].rt = env[cs[i].env].rt
                                  /\ en[x].owned /\ ~env[x].late
                                  => In(x, cs[i].rest)
  BY <1>12
<1>14. /\ tasks' \in Seq(Env) /\ IsInjective(tasks')
       /\ \A x \in Env : en[x].scheduled <=> In(x, tasks')
  BY <1>1, <1>2, <1>9 DEF CoreTypes, TaskInv
<1>15. QED
  BY <1>1, <1>7, <1>8, <1>9, <1>10, <1>11, <1>12, <1>13, <1>14, UnrefIInv

\* The root is the outermost deletion, so that the calls below the top are
\* immediates.
LEMMA UnrefModuleEnvIInv ==
    ASSUME IInv, UnrefModuleEnv PROVE IInv'
<1> DEFINE n == Len(calls)
<1>1. /\ process = "running" /\ calls # <<>> /\ Top.step = "unref"
      /\ Top.rest # <<>>
      /\ UNCHANGED <<rt, list, tasks, enqueued, scopeVars, rejVars>>
  BY DEF UnrefModuleEnv
<1>2. /\ n \in Nat \ {0} /\ n \in 1 .. n /\ Top = calls[n] /\ Top \in CallRecord
      /\ CallOK(Top) /\ CoverOK(Top)
  BY <1>1, TopFacts
<1>3. /\ CoreTypes /\ TaskInv /\ NestOK(calls)
      /\ \A s \in Runtime : RtOK(s) /\ ListOK(s)
      /\ \A i \in 1 .. n : CallOK(calls[i]) /\ calls[i] \in CallRecord
  BY <1>1, RunFacts
<1>4. PICK t \in CallRecord : t = Top
  BY <1>2
<1>5. /\ t = calls[n] /\ t.step = "unref" /\ t.rest # <<>> /\ IsDelete(t)
      /\ t.env = RootOf(t.env) /\ CallOK(t) /\ CoverOK(t)
      /\ t.rest \in Seq(Env) /\ IsInjective(t.rest) /\ t.env \in Env
  BY <1>1, <1>2, <1>4 DEF CallOK, CallRecord
<1>6. /\ Tail(t.rest) \in Seq(Env) /\ IsInjective(Tail(t.rest))
      /\ Head(t.rest) \in Env /\ In(Head(t.rest), t.rest)
      /\ \A y : In(y, Tail(t.rest)) <=> In(y, t.rest) /\ y # Head(t.rest)
  BY <1>5, InjectiveTail
<1>7. PICK e \in Env : e = Head(t.rest)
  BY <1>6
<1>8. /\ Live(e) /\ env[e].owned /\ env[e].rt = env[t.env].rt /\ e # t.env
      /\ RootOf(e) = t.env /\ ~In(RootOf(e), list[env[e].rt])
  <2>1. /\ Live(e) /\ env[e].owned /\ env[e].rt = env[t.env].rt /\ e # t.env
    BY <1>5, <1>6, <1>7 DEF CallOK
  <2>2. RootOf(e) = t.env
    BY <1>5, <2>1 DEF RootOf
  <2>3. ~In(t.env, list[env[t.env].rt])
    BY <1>5 DEF CallOK
  <2>4. QED
    BY <2>1, <2>2, <2>3
<1>9. PICK en : en = [env EXCEPT ![e].owned = FALSE]
  OBVIOUS
<1>10. PICK cs : cs = [calls EXCEPT ![n].rest = Tail(@)]
  OBVIOUS
<1>11. Unref(en, e, cs)
  BY <1>4, <1>7, <1>9, <1>10 DEF UnrefModuleEnv
<1>12. /\ Dropped(en, e) /\ ~en[e].owned
       /\ \A x \in Env : en[x].scheduled <=> In(x, tasks)
  BY <1>1, <1>8, <1>9, OwnerDropped
<1> DEFINE c == [t EXCEPT !.rest = Tail(t.rest)]
<1>13. /\ c \in CallRecord /\ c.kind = t.kind /\ c.env = t.env
       /\ c.step = t.step /\ c.rest = Tail(t.rest)
  BY <1>6 DEF CallRecord
<1>14. cs = [calls EXCEPT ![n] = c]
  BY <1>5, <1>10
<1> HIDE DEF c
<1>15. /\ cs \in Seq(CallRecord) /\ Len(cs) = n /\ cs[n] = c
       /\ \A i \in 1 .. n : i # n => cs[i] = calls[i]
  <2>1. calls \in Seq(CallRecord)
    BY <1>3 DEF CoreTypes
  <2>2. QED
    BY <1>2, <1>13, <1>14, <2>1, ExceptSeq
<1>16. \A i \in 1 .. n : i # n => ~IsDelete(calls[i])
  <2>1. ASSUME NEW i \in 1 .. n, i # n PROVE ~IsDelete(calls[i])
    <3>1. i < n
      BY <1>2, <2>1
    <3>2. QED
      BY <1>2, <1>3, <1>5, <3>1 DEF NestOK
  <2>2. QED
    BY <2>1
<1>17. NestOK(cs)
  <2>1. ASSUME NEW i \in 1 .. n, NEW j \in 1 .. n, i < j, IsDelete(cs[i]) PROVE FALSE
    <3>1. i # n
      BY <1>2, <2>1
    <3>2. QED
      BY <1>15, <1>16, <2>1, <3>1
  <2>2. QED
    BY <1>15, <2>1 DEF NestOK
<1>18. CallOK(c) /\ ~In(e, c.rest)
  <2>1. \A x \in Env : In(x, c.rest) => In(x, t.rest) /\ x # e
    BY <1>6, <1>7, <1>13
  <2>2. CallOK(c)
    BY <1>5, <1>6, <1>13, <2>1 DEF CallOK, IsDelete
  <2>3. QED
    BY <1>6, <1>7, <1>13, <2>2
<1>19. ASSUME NEW i \in 1 .. Len(cs)
       PROVE  /\ CallOK(cs[i]) /\ ~In(e, cs[i].rest)
              /\ IsDelete(cs[i]) => e # RootOf(e)
              /\ IsDelete(cs[i]) /\ cs[i].env = RootOf(cs[i].env)
                 /\ cs[i].step # "remove" =>
                    \A x \in Env : /\ Live(x) /\ env[x].rt = env[cs[i].env].rt
                                   /\ en[x].owned /\ ~env[x].late
                                   => In(x, cs[i].rest)
  <2>1. CASE i = n
    <3>1. ASSUME NEW x \in Env, Live(x), env[x].rt = env[c.env].rt,
                 en[x].owned, ~env[x].late
          PROVE  In(x, c.rest)
      <4>1. x # e /\ env[x].owned
        BY <1>12, <3>1 DEF Dropped
      <4>2. In(x, t.rest)
        BY <1>5, <1>13, <3>1, <4>1 DEF CoverOK
      <4>3. QED
        BY <1>6, <1>7, <1>13, <4>1, <4>2
    <3>2. QED
      BY <1>8, <1>15, <1>18, <2>1, <3>1
  <2>2. CASE i # n
    <3>1. cs[i] = calls[i] /\ ~IsDelete(cs[i]) /\ CallOK(cs[i])
      BY <1>3, <1>15, <1>16, <2>2
    <3>2. cs[i].rest = <<>>
      BY <3>1 DEF CallOK
    <3>3. ~In(e, cs[i].rest)
      BY <3>2, EmptySeq, LenProperties DEF In
    <3>4. QED
      BY <3>1, <3>3
  <2>3. QED
    BY <2>1, <2>2
<1>20. \A i \in 1 .. Len(calls) :
          \E j \in 1 .. Len(cs) : /\ cs[j].env = calls[i].env
                                 /\ cs[j].kind = calls[i].kind
  <2>1. ASSUME NEW i \in 1 .. n
        PROVE  cs[i].env = calls[i].env /\ cs[i].kind = calls[i].kind
    BY <1>5, <1>13, <1>15
  <2>2. QED
    BY <1>15, <2>1
<1>21. /\ rt' \in [Runtime -> RuntimeRecord]
       /\ \A s \in Runtime :
             /\ rt'[s].phase = rt[s].phase /\ rt'[s].root = rt[s].root
             /\ rt'[s].wrapper => rt[s].phase = "live"
             /\ rt[s].phase = "live" => (rt'[s].wrapper <=> en[rt[s].root].owned)
  <2>1. ASSUME NEW s \in Runtime, rt[s].phase = "live"
        PROVE  en[rt[s].root] = env[rt[s].root]
    <3>1. rt[s].root \in Env /\ env[rt[s].root].rt = s
      BY <1>3, <2>1 DEF RtOK
    <3>2. rt[s].root # e
      BY <1>8, <3>1 DEF RootOf
    <3>3. QED
      BY <1>12, <3>1, <3>2 DEF Dropped
  <2>2. QED
    BY <1>1, <1>3, <2>1 DEF CoreTypes, RtOK
<1>22. /\ tasks' \in Seq(Env) /\ IsInjective(tasks')
       /\ \A x \in Env : en[x].scheduled <=> In(x, tasks')
  BY <1>1, <1>3, <1>12 DEF CoreTypes, TaskInv
<1>23. QED
  BY <1>1, <1>8, <1>11, <1>12, <1>15, <1>17, <1>19, <1>20, <1>21, <1>22,
     UnrefIInv

-----------------------------------------------------------------------------
(* The theorems.                                                           *)

LEMMA InitIInv == ASSUME Init PROVE IInv
<1>1. process = "running" /\ RejectionInv
  BY DEF Init, RejectionInv, LastRejectionIsUnhandled
<1>2. /\ tasks = <<>> /\ calls = <<>> /\ lockers = <<>> /\ handles = <<>>
      /\ enqueued = 0 /\ Len(<<>>) = 0
      /\ \A S : <<>> \in Seq(S)
  BY EmptySeq DEF Init
<1>3. ScopeInv
  BY <1>2, BoundAssumption DEF ScopeInv, ScopesHoldLockers
<1>4. IsInjective(<<>>) /\ \A x : ~In(x, <<>>)
  BY EmptySeq, LenProperties DEF IsInjective, In
<1>5. NoEnv \in EnvRecord
  BY BoundAssumption DEF NoEnv, EnvRecord, Phase
<1>6. /\ NoEnv.phase = "none" /\ NoEnv.refs = 0 /\ NoEnv.pending = 0
      /\ NoEnv.scheduled = FALSE /\ NoEnv.owned = FALSE
      /\ NoEnv.destructing = FALSE
  BY DEF NoEnv
<1>7. /\ env = [e \in Env |-> NoEnv] /\ list = [r \in Runtime |-> <<>>]
      /\ rt = [r \in Runtime |-> [phase |-> "none", wrapper |-> FALSE,
                                  root |-> None, runner |-> FALSE]]
  BY DEF Init
<1>8. CoreTypes
  <2>1. rt \in [Runtime -> RuntimeRecord]
    BY <1>7 DEF RuntimeRecord, Phase
  <2>2. 0 \in 0 .. MaxFinalizer /\ 0 <= 0
    BY BoundAssumption
  <2>3. QED
    BY <1>2, <1>5, <1>6, <1>7, <2>1, <2>2 DEF CoreTypes
<1>9. \A r \in Runtime : rt[r].phase = "none" /\ ~rt[r].wrapper
  BY <1>7
<1>10. \A e \in Env : env[e] = NoEnv /\ ~Live(e)
  BY <1>6, <1>7 DEF Live
<1>11. ListedLive
  BY <1>2, <1>9 DEF ListedLive, LiveRuntime
<1>12. \A e \in Env : EnvOK(e) /\ PendOK(e) /\ LeftOK(e) /\ DeletingOK(e)
  BY <1>6, <1>10 DEF EnvOK, PendOK, LeftOK, DeletingOK, One
<1>13. TaskInv
  BY <1>2, <1>4, <1>6, <1>10 DEF TaskInv
<1>14. \A r \in Runtime : RtOK(r) /\ ListOK(r)
  BY <1>9 DEF RtOK, ListOK
<1>15. NestOK(calls) /\ \A i \in 1 .. Len(calls) : FALSE
  BY <1>2 DEF NestOK
<1>16. QED
  BY <1>1, <1>3, <1>8, <1>11, <1>12, <1>13, <1>14, <1>15
     DEF IInv, RunInv, BookInv

LEMMA NextIInv == ASSUME IInv, [Next]_vars PROVE IInv'
<1>1. CASE UNCHANGED vars
  <2>1. /\ process' = process /\ UNCHANGED envVars /\ UNCHANGED scopeVars
        /\ UNCHANGED rejVars
    BY <1>1 DEF vars
  <2>2. ScopeInv' /\ RejectionInv'
    BY <2>1, ScopesKept, RejectionsKept DEF IInv
  <2>3. CoreTypes' /\ ListedLive'
    BY <2>1 DEF IInv, CoreTypes, ListedLive, LiveRuntime, Live, envVars
  <2>4. QED
    BY <2>1, <2>2, <2>3, CoreKept DEF IInv
<1>2. CASE \E e \in Env : EnvStep(e)
  <2>1. PICK e \in Env : EnvStep(e)
    BY <1>2
  <2>2. QED
    BY <2>1, CreateRuntimeIInv, CreateNodeApiIInv, EnqueueFinalizerIInv,
       RunFinalizerIInv, FinalizerEnqueuesIInv, FinalizerCreatesIInv,
       EndTaskIInv, RemoveModuleEnvIInv, EndDeleteIInv DEF EnvStep
<1>3. CASE \E r \in Runtime : RuntimeStep(r)
  <2>1. PICK r \in Runtime : RuntimeStep(r)
    BY <1>3
  <2>2. QED
    BY <2>1, DeleteRuntimeIInv, OpenEnvScopeIInv, RejectionIInv,
       GetAndClearLastRejectionIInv DEF RuntimeStep
<1>4. QED
  BY <1>1, <1>2, <1>3, SetTaskRunnerIInv, RunTaskIInv, UnrefModuleEnvIInv,
     EndUnrefIInv, CloseEnvScopeIInv DEF Next

LEMMA Invariance == Spec => []IInv
<1>1. Init => IInv
  BY InitIInv
<1>2. IInv /\ [Next]_vars => IInv'
  BY NextIInv
<1>3. QED
  BY <1>1, <1>2, PTL DEF Spec

\* One immediate for an environment that is scheduled, none for another.
LEMMA PostedCount ==
    ASSUME CoreTypes, TaskInv, NEW e \in Env
    PROVE  Cardinality({i \in 1 .. Len(tasks) : tasks[i] = e}) =
              IF env[e].scheduled THEN 1 ELSE 0
<1> DEFINE P == {i \in 1 .. Len(tasks) : tasks[i] = e}
<1>1. tasks \in Seq(Env) /\ DOMAIN tasks = 1 .. Len(tasks)
  BY LenProperties DEF CoreTypes
<1>2. CASE env[e].scheduled
  <2>1. PICK k \in 1 .. Len(tasks) : tasks[k] = e
    BY <1>2 DEF TaskInv, In
  <2>2. P = {k}
    BY <1>1, <2>1 DEF TaskInv, IsInjective
  <2>3. Cardinality(P) = 1
    BY <2>2, FS_Singleton
  <2>4. QED
    BY <1>2, <2>3
<1>3. CASE ~env[e].scheduled
  <2>1. P = {}
    BY <1>3 DEF TaskInv, In
  <2>2. Cardinality(P) = 0
    BY <2>1, FS_EmptySet
  <2>3. QED
    BY <1>3, <2>2
<1>4. QED
  BY <1>2, <1>3

LEMMA AccountsHold == ASSUME IInv PROVE EnvsAreAccountedFor
<1>1. TypeOK
  <2>1. /\ rt \in [Runtime -> RuntimeRecord] /\ env \in [Env -> EnvRecord]
        /\ list \in [Runtime -> Seq(Env)] /\ tasks \in Seq(Env)
        /\ calls \in Seq(CallRecord) /\ last \in [Runtime -> Promise \cup {None}]
        /\ lockers \in Seq([rt : Runtime, refs : 1 .. MaxScope])
    BY DEF IInv, CoreTypes, ScopeInv, RejectionInv
  <2>2. \A r \in Runtime : /\ rt[r].phase \in {"none", "live", "deleted"}
                           /\ list[r] \in Seq(Env)
                           /\ last[r] \in Promise \cup {None}
    BY <2>1 DEF RuntimeRecord, Phase
  <2>3. \A e \in Env : /\ env[e].phase \in {"none", "live", "deleted"}
                       /\ env[e].refs \in 0 .. 2
                       /\ env[e].pending \in 0 .. MaxFinalizer
    BY <2>1 DEF EnvRecord, Phase
  <2>4. \A i \in 1 .. Len(calls) : calls[i].rest \in Seq(Env)
    <3>1. \A i \in 1 .. Len(calls) : calls[i] \in CallRecord
      BY <2>1, ElementOfSeq
    <3>2. QED
      BY <3>1 DEF CallRecord
  <2>5. \A i \in 1 .. Len(lockers) : lockers[i].refs \in 1 .. MaxScope
    <3>1. \A i \in 1 .. Len(lockers) :
             lockers[i] \in [rt : Runtime, refs : 1 .. MaxScope]
      BY <2>1, ElementOfSeq
    <3>2. QED
      BY <3>1
  <2>6. QED
    BY <2>1, <2>2, <2>3, <2>4, <2>5 DEF TypeOK, IInv
<1>2. RefsAreOwnerAndImmediate
  <2>1. ASSUME process = "running", NEW e \in Env, NEW k,
               k = Cardinality({i \in 1 .. Len(tasks) : tasks[i] = e})
        PROVE  /\ k = IF env[e].scheduled THEN 1 ELSE 0
               /\ env[e].refs = k + (IF env[e].owned THEN 1 ELSE 0)
    <3>1. CoreTypes /\ TaskInv /\ EnvOK(e)
      BY <2>1, RunFacts
    <3>2. k = IF env[e].scheduled THEN 1 ELSE 0
      BY <2>1, <3>1, PostedCount
    <3>3. QED
      BY <3>1, <3>2 DEF EnvOK, One
  <2>2. QED
    BY <2>1 DEF RefsAreOwnerAndImmediate
<1>3. ListedEnvsAreLive
  <2>1. ASSUME NEW r \in LiveRuntime, NEW i \in 1 .. Len(list[r])
        PROVE  Live(list[r][i])
    <3>1. r \in Runtime /\ list[r] \in Seq(Env)
      BY DEF IInv, CoreTypes, LiveRuntime
    <3>2. list[r][i] \in Env /\ In(list[r][i], list[r])
      BY <3>1, ElementOfSeq DEF In
    <3>3. QED
      BY <3>2 DEF IInv, ListedLive
  <2>2. ASSUME NEW k \in 1 .. Len(calls), NEW i \in 1 .. Len(calls[k].rest)
        PROVE  Live(calls[k].rest[i])
    <3>1. calls[k].rest \in Seq(Env)
      BY <1>1 DEF TypeOK
    <3>2. calls[k].rest[i] \in Env /\ In(calls[k].rest[i], calls[k].rest)
      BY <3>1, ElementOfSeq DEF In
    <3>3. QED
      BY <3>2 DEF IInv, ListedLive
  <2>3. QED
    BY <2>1, <2>2 DEF ListedEnvsAreLive
<1>4. OnlyScheduledEnvsAreLeft
  <2>1. ASSUME process = "running", NEW e \in Env, Live(e),
               rt[env[e].rt].phase = "deleted", ~env[e].late
        PROVE  env[e].scheduled
    <3>1. /\ EnvOK(e) /\ LeftOK(e) /\ DeletingOK(e)
          /\ \A i \in 1 .. Len(calls) : CallOK(calls[i])
      BY <2>1, RunFacts
    <3>2. ~env[e].destructing
      <4>1. ASSUME env[e].destructing PROVE FALSE
        <5>1. PICK i \in 1 .. Len(calls) : IsDelete(calls[i]) /\ calls[i].env = e
          BY <2>1, <3>1, <4>1 DEF DeletingOK
        <5>2. rt[env[e].rt].phase = "live"
          BY <3>1, <5>1 DEF CallOK
        <5>3. QED
          BY <2>1, <5>2
      <4>2. QED
        BY <4>1
    <3>3. ~env[e].owned /\ env[e].refs # 0
      BY <2>1, <3>1, <3>2 DEF LeftOK, EnvOK, Live
    <3>4. QED
      BY <3>1, <3>3 DEF EnvOK, One
  <2>2. QED
    BY <2>1 DEF OnlyScheduledEnvsAreLeft
<1>5. PendingHasImmediate
  <2>1. ASSUME process = "running", NEW e \in Env, Live(e), env[e].pending > 0,
               ~env[e].destructing
        PROVE  \/ \E i \in 1 .. Len(tasks) : tasks[i] = e
               \/ \E i \in 1 .. Len(calls) : calls[i].env = e
    <3>1. PendOK(e) /\ TaskInv
      BY <2>1, RunFacts
    <3>2. QED
      BY <2>1, <3>1 DEF PendOK, TaskInv, In
  <2>2. QED
    BY <2>1 DEF PendingHasImmediate
<1>6. ScopesHoldLockers
  BY DEF IInv, ScopeInv
<1>7. QED
  BY <1>1, <1>2, <1>3, <1>4, <1>5, <1>6 DEF EnvsAreAccountedFor

(* However runtimes, environments, finalizers and immediates come and go,  *)
(* the reference count of an environment is what its owner and its one     *)
(* immediate make, the list of a runtime and the copy its root goes        *)
(* through name live environments, what a deleted runtime leaves behind    *)
(* waits for its immediate or was created in the teardown, queued          *)
(* finalizers have an immediate, and open scopes hold their lockers.       *)
THEOREM EnvsAreAccountedForHolds == Spec => []EnvsAreAccountedFor
<1>1. IInv => EnvsAreAccountedFor
  BY AccountsHold
<1>2. QED
  BY <1>1, Invariance, PTL

(* What jsr_get_and_clear_last_unhandled_promise_rejection would return is *)
(* of a promise of that runtime which nobody has handled, whatever was     *)
(* rejected, handled or torn down before.                                  *)
THEOREM LastRejectionIsUnhandledHolds == Spec => []LastRejectionIsUnhandled
<1>1. IInv => LastRejectionIsUnhandled
  BY DEF IInv, RejectionInv
<1>2. QED
  BY <1>1, Invariance, PTL

=============================================================================
