----------------------------- MODULE JsiProofs -----------------------------
(***************************************************************************)
(* Proofs about the two JSI runtimes.                                      *)
(*                                                                         *)
(* NodeApiPointers, for any number of instances, threads, references and   *)
(* scopes: the value of a jsi::Pointer is kept, a handle is never used     *)
(* after its scope, and an instance is deleted once.                       *)
(*                                                                         *)
(* JsiRuntime, for any number of runtimes, isolates, host objects and      *)
(* nested calls: a host object is released once and in time, the isolate   *)
(* outlives its users, and no exception is lost between C++ and            *)
(* JavaScript.                                                             *)
(***************************************************************************)
EXTENDS NodeApiPointers, JsiRuntime, SequenceTheorems, FiniteSetTheorems, TLAPS

-----------------------------------------------------------------------------
(* NodeApiPointers.                                                        *)

\* The entries of stackScopes_ nest as NodeApiScope and pushScope open them,
\* and one that is being closed still counts for the bound.
ScopesNest ==
    /\ \A i \in 1 .. Len(scopes) :
          scopes[i].kind = "inner" => i > 1 /\ scopes[i - 1].kind = "outer"
    /\ closing.kind = "inner" =>
          scopes # <<>> /\ scopes[Len(scopes)].kind = "outer"
    /\ pc = "run" <=> closing = NoScope
    /\ Len(scopes) + (IF pc = "run" THEN 0 ELSE 1) <= MaxScopes

\* The marks of the scopes ascend to the top of stackValues_; nothing is left
\* above that of a scope that was swept.
MarksAscend ==
    /\ \A i, j \in 1 .. Len(scopes) : i <= j => scopes[i].mark <= scopes[j].mark
    /\ \A i \in 1 .. Len(scopes) : scopes[i].mark <= Len(values)
    /\ pc # "run" =>
          /\ closing.mark <= Len(values)
          /\ \A i \in 1 .. Len(scopes) : scopes[i].mark <= closing.mark
    /\ pc \in {"select", "delete"} => Len(values) <= closing.mark

\* The scopes with a handle scope that were open when entry k of stackValues_
\* was made.
OuterScopes(s, k) == {i \in 1 .. Len(s) : s[i].kind # "inner" /\ s[i].mark < k}
OpenBelow(k) ==
    Cardinality(OuterScopes(scopes, k))
    + (IF closing.kind \in {"outer", "callback"} /\ closing.mark < k
       THEN 1 ELSE 0)

\* The handle of an entry is in one of these.
HandlesNest ==
    \A k \in 1 .. Len(values) : value[values[k]] \in 1 .. OpenBelow(k)

ScopeInv == ScopesNest /\ MarksAscend /\ HandlesNest

\* What keeps an instance, by its state.
PointerInv ==
    \A p \in Pointer :
       /\ state[p] # "live" =>
             /\ refCount[p] = 0
             /\ ~Contains(values, p) /\ ~InPool(p) /\ ~BeingAdded(p)
       /\ state[p] = "unborn" =>
             value[p] = 0 /\ ref[p] = "none" /\ ~fromStack[p] /\ ~collected[p]
       /\ state[p] = "live" =>
             /\ value[p] # 0 <=> Contains(values, p)
             /\ ref[p] \in {"none", NewRef(pointerKind[p])}
             /\ refCount[p] > 0 =>
                   /\ ~InPool(p) /\ ~BeingAdded(p) /\ ~fromStack[p]
                   /\ value[p] # 0 \/ ref[p] = NewRef(pointerKind[p])
                   /\ pointerKind[p] # "weak" => ~collected[p]

\* The pending deletions count the runtime and every instance.
LiveSet == {p \in Pointer : state[p] = "live"}
PendingCount ==
    /\ IsFiniteSet(LiveSet)
    /\ pending = Cardinality(LiveSet) + (IF alive THEN 1 ELSE 0)

IInv ==
    /\ TypeOK
    /\ ScopeInv
    /\ PointerInv
    /\ OneWayToDeletion
    /\ IsInjective(values)
    /\ PendingCount
    /\ failure # "value"

-----------------------------------------------------------------------------
(* Sequences.                                                              *)

LEMMA FrontFacts ==
    ASSUME NEW S, NEW s \in Seq(S), s # <<>>
    PROVE  /\ Len(s) \in Nat \ {0}
           /\ Last(s) = s[Len(s)] /\ Last(s) \in S
           /\ Front(s) \in Seq(S)
           /\ Len(Front(s)) = Len(s) - 1
           /\ \A i \in 1 .. Len(s) - 1 : Front(s)[i] = s[i]
<1>1. Len(s) \in Nat \ {0} /\ \A i \in 1 .. Len(s) : s[i] \in S
  BY EmptySeq, ElementOfSeq
<1>2. PICK n \in Nat : n = Len(s) - 1
  BY <1>1
<1>3. \A i \in 1 .. n : s[i] \in S
  BY <1>1, <1>2
<1>4. /\ SubSeq(s, 1, n) \in Seq(S) /\ Len(SubSeq(s, 1, n)) = n
      /\ \A i \in 1 .. n : SubSeq(s, 1, n)[i] = s[i]
  BY <1>3, SubSeqProperties
<1>5. QED
  BY <1>1, <1>2, <1>4 DEF Front, Last

LEMMA RemoveAtFacts ==
    ASSUME NEW S, NEW s \in Seq(S), NEW i \in 1 .. Len(s)
    PROVE  /\ RemoveAt(s, i) \in Seq(S)
           /\ Len(RemoveAt(s, i)) = Len(s) - 1
           /\ \A k \in 1 .. Len(s) - 1 :
                 RemoveAt(s, i)[k] = IF k < i THEN s[k] ELSE s[k + 1]
<1>1. Len(s) \in Nat /\ \A k \in 1 .. Len(s) : s[k] \in S
  BY LenProperties, ElementOfSeq
<1>2. PICK n \in Nat, m \in Nat : n = Len(s) /\ m = i - 1 /\ m < n
  BY <1>1
<1> DEFINE a == SubSeq(s, 1, m)
           b == SubSeq(s, m + 2, n)
<1>3. /\ a \in Seq(S) /\ Len(a) = m /\ \A k \in 1 .. m : a[k] = s[k]
  <2>1. \A k \in 1 .. m : s[k] \in S
    BY <1>1, <1>2
  <2>2. QED
    BY <2>1, SubSeqProperties
<1>4. /\ b \in Seq(S) /\ Len(b) = n - m - 1
      /\ \A k \in 1 .. n - m - 1 : b[k] = s[k + m + 1]
  <2>1. \A k \in m + 2 .. n : s[k] \in S
    BY <1>1, <1>2
  <2>2. /\ b \in Seq(S) /\ Len(b) = IF m + 2 <= n THEN n - (m + 2) + 1 ELSE 0
        /\ \A k \in 1 .. n - (m + 2) + 1 : b[k] = s[(m + 2) + k - 1]
    BY <2>1, SubSeqProperties
  <2>3. QED
    BY <1>2, <2>2
<1>5. RemoveAt(s, i) = a \o b
  <2>1. i - 1 = m /\ i + 1 = m + 2 /\ Len(s) = n
    BY <1>2
  <2>2. RemoveAt(s, i) = SubSeq(s, 1, i - 1) \o SubSeq(s, i + 1, Len(s))
    BY DEF RemoveAt
  <2>3. QED
    BY <2>1, <2>2
<1> HIDE DEF a, b
<1>6. /\ a \o b \in Seq(S) /\ Len(a \o b) = Len(a) + Len(b)
      /\ \A k \in 1 .. Len(a) + Len(b) :
            (a \o b)[k] = IF k <= Len(a) THEN a[k] ELSE b[k - Len(a)]
  BY <1>3, <1>4, ConcatProperties, SMTT(40)
<1>7. Len(a \o b) = n - 1
  BY <1>2, <1>3, <1>4, <1>6
<1>8. ASSUME NEW k \in 1 .. n - 1
      PROVE  (a \o b)[k] = IF k <= m THEN s[k] ELSE s[k + 1]
  <2>1. CASE k <= m
    BY <1>2, <1>3, <1>4, <1>6, <2>1
  <2>2. CASE k > m
    <3>1. k - m \in 1 .. n - m - 1 /\ k \in 1 .. Len(a) + Len(b)
      BY <1>2, <1>3, <1>4, <2>2
    <3>2. (a \o b)[k] = b[k - m] /\ b[k - m] = s[(k - m) + m + 1]
      BY <1>3, <1>4, <1>6, <2>2, <3>1
    <3>3. (k - m) + m + 1 = k + 1
      OBVIOUS
    <3>4. QED
      BY <2>2, <3>2, <3>3
  <2>3. k <= m \/ k > m
    OBVIOUS
  <2>4. QED
    BY <2>1, <2>2, <2>3
<1>9. QED
  BY <1>2, <1>5, <1>6, <1>7, <1>8

LEMMA ContainsAppend ==
    ASSUME NEW S, NEW s \in Seq(S), NEW x \in S
    PROVE  \A y : Contains(Append(s, x), y) <=> Contains(s, y) \/ y = x
<1>1. /\ Len(Append(s, x)) = Len(s) + 1 /\ Len(s) \in Nat
      /\ \A i \in 1 .. Len(s) : Append(s, x)[i] = s[i]
      /\ Append(s, x)[Len(s) + 1] = x
  BY AppendProperties, LenProperties
<1>2. QED
  BY <1>1 DEF Contains

LEMMA InjectiveAppend ==
    ASSUME NEW S, NEW s \in Seq(S), NEW x \in S, ~Contains(s, x),
           IsInjective(s)
    PROVE  IsInjective(Append(s, x))
<1>1. /\ Len(Append(s, x)) = Len(s) + 1 /\ Len(s) \in Nat
      /\ \A i \in 1 .. Len(s) : Append(s, x)[i] = s[i]
      /\ Append(s, x)[Len(s) + 1] = x
      /\ DOMAIN Append(s, x) = 1 .. Len(s) + 1 /\ DOMAIN s = 1 .. Len(s)
  BY AppendProperties, LenProperties
<1>2. QED
  BY <1>1 DEF Contains, IsInjective

(* Without one entry of a sequence without repetitions.                    *)
LEMMA InjectiveRemoveAt ==
    ASSUME NEW S, NEW s \in Seq(S), NEW i \in 1 .. Len(s), IsInjective(s)
    PROVE  /\ IsInjective(RemoveAt(s, i))
           /\ \A y : Contains(RemoveAt(s, i), y) <=> Contains(s, y) /\ y # s[i]
<1> DEFINE r == RemoveAt(s, i)
<1>1. /\ r \in Seq(S) /\ Len(r) = Len(s) - 1
      /\ \A k \in 1 .. Len(s) - 1 : r[k] = IF k < i THEN s[k] ELSE s[k + 1]
  BY RemoveAtFacts
<1>2. /\ Len(s) \in Nat /\ DOMAIN s = 1 .. Len(s)
      /\ DOMAIN r = 1 .. Len(s) - 1
  BY <1>1, LenProperties
<1>3. \A a, b \in 1 .. Len(s) : s[a] = s[b] => a = b
  BY <1>2 DEF IsInjective
<1> HIDE DEF r
<1>4. IsInjective(r)
  <2>1. SUFFICES ASSUME NEW a \in 1 .. Len(s) - 1, NEW b \in 1 .. Len(s) - 1,
                        r[a] = r[b]
                 PROVE  a = b
    BY <1>2 DEF IsInjective
  <2>2. a \in 1 .. Len(s) /\ a + 1 \in 1 .. Len(s)
        /\ b \in 1 .. Len(s) /\ b + 1 \in 1 .. Len(s)
    BY <1>2
  <2>3. QED
    BY <1>1, <1>2, <1>3, <2>1, <2>2
<1>5. ASSUME NEW y PROVE Contains(r, y) <=> Contains(s, y) /\ y # s[i]
  <2>1. ASSUME Contains(r, y) PROVE Contains(s, y) /\ y # s[i]
    <3>1. PICK k \in 1 .. Len(s) - 1 : r[k] = y
      BY <1>1, <2>1 DEF Contains
    <3>2. k \in 1 .. Len(s) /\ k + 1 \in 1 .. Len(s)
      BY <1>2
    <3>3. PICK j \in 1 .. Len(s) : s[j] = y /\ j # i
      BY <1>1, <3>1, <3>2
    <3>4. QED
      BY <1>3, <3>3 DEF Contains
  <2>2. ASSUME NEW j \in 1 .. Len(s), s[j] = y, y # s[i]
        PROVE  Contains(r, y)
    <3>1. CASE j < i
      <4>1. j \in 1 .. Len(s) - 1 /\ r[j] = s[j]
        BY <1>1, <1>2, <3>1
      <4>2. QED
        BY <1>1, <2>2, <4>1 DEF Contains
    <3>2. CASE j > i
      <4>1. j - 1 \in 1 .. Len(s) - 1 /\ ~(j - 1 < i) /\ (j - 1) + 1 = j
        BY <1>2, <3>2
      <4>2. r[j - 1] = s[j]
        BY <1>1, <4>1
      <4>3. QED
        BY <1>1, <2>2, <4>1, <4>2 DEF Contains
    <3>3. QED
      BY <2>2, <3>1, <3>2
  <2>3. QED
    BY <2>1, <2>2 DEF Contains
<1>6. QED
  BY <1>4, <1>5 DEF r

-----------------------------------------------------------------------------
(* The depth of the handle scopes.                                         *)

LEMMA OuterFinite ==
    ASSUME NEW s \in Seq(Scope), NEW k \in Nat
    PROVE  /\ IsFiniteSet(OuterScopes(s, k))
           /\ Cardinality(OuterScopes(s, k)) \in Nat
           /\ Cardinality(OuterScopes(s, k)) <= Len(s)
<1>1. Len(s) \in Nat
  BY LenProperties
<1>2. IsFiniteSet(1 .. Len(s)) /\ Cardinality(1 .. Len(s)) = Len(s)
  BY <1>1, FS_Interval
<1>3. OuterScopes(s, k) \in SUBSET (1 .. Len(s))
  BY DEF OuterScopes
<1>4. /\ IsFiniteSet(OuterScopes(s, k))
      /\ Cardinality(OuterScopes(s, k)) <= Cardinality(1 .. Len(s))
  BY <1>2, <1>3, FS_Subset
<1>5. QED
  BY <1>2, <1>4, FS_CardinalityType

\* The entry that is being closed, if it has a handle scope.
ClosingOuter == IF closing.kind \in {"outer", "callback"} THEN 1 ELSE 0

(* No entry is below more handle scopes than are open; a new one is below  *)
(* all of them.                                                            *)
LEMMA DepthFacts ==
    ASSUME scopes \in Seq(Scope), NEW k \in Nat
    PROVE  /\ Depth \in Nat
           /\ Depth <= Len(scopes) + ClosingOuter
           /\ OpenBelow(k) \in Nat
           /\ OpenBelow(k) <= Depth
           /\ (/\ \A i \in 1 .. Len(scopes) : scopes[i].mark < k
               /\ ClosingOuter = 1 => closing.mark < k)
              => OpenBelow(k) = Depth
<1> DEFINE A == {i \in DOMAIN scopes : scopes[i].kind # "inner"}
<1>1. Len(scopes) \in Nat /\ DOMAIN scopes = 1 .. Len(scopes)
  BY LenProperties
<1>2. IsFiniteSet(1 .. Len(scopes)) /\ Cardinality(1 .. Len(scopes)) = Len(scopes)
  BY <1>1, FS_Interval
<1>3. A \in SUBSET (1 .. Len(scopes))
  BY <1>1
<1>4. IsFiniteSet(A) /\ Cardinality(A) <= Len(scopes) /\ Cardinality(A) \in Nat
  <2> HIDE DEF A
  <2>1. QED
    BY <1>2, <1>3, FS_Subset, FS_CardinalityType
<1>5. OuterScopes(scopes, k) \in SUBSET A
  BY <1>1 DEF OuterScopes
<1>6. /\ Cardinality(OuterScopes(scopes, k)) <= Cardinality(A)
      /\ Cardinality(OuterScopes(scopes, k)) \in Nat
  <2> HIDE DEF A
  <2>1. QED
    BY <1>4, <1>5, FS_Subset, OuterFinite
<1>7. Depth = Cardinality(A) + ClosingOuter
  BY DEF Depth, ClosingOuter
<1>8. (\A i \in 1 .. Len(scopes) : scopes[i].mark < k)
         => OuterScopes(scopes, k) = A
  BY <1>1 DEF OuterScopes
<1> HIDE DEF A
<1>9. QED
  BY <1>1, <1>4, <1>6, <1>7, <1>8 DEF OpenBelow, ClosingOuter

LEMMA DepthType ==
    ASSUME scopes \in Seq(Scope)
    PROVE  Depth \in Nat /\ Depth <= Len(scopes) + ClosingOuter
<1>1. 0 \in Nat
  OBVIOUS
<1>2. QED
  BY <1>1, DepthFacts

LEMMA MarksAreNat ==
    ASSUME NEW s \in Seq(Scope), NEW i \in 1 .. Len(s)
    PROVE  s[i].mark \in Nat /\ s[i].kind \in ScopeKind
<1>1. s[i] \in Scope
  BY ElementOfSeq
<1>2. QED
  BY <1>1 DEF Scope

(* The types of the scopes, as the lemmas below need them.                 *)
ScopeTypes ==
    /\ scopes \in Seq(Scope)
    /\ values \in Seq(Pointer)
    /\ value \in [Pointer -> 0 .. MaxScopes]
    /\ closing \in Scope \cup {NoScope}
    /\ pc \in {"run", "sweep", "select", "delete"}

(* A step that leaves scopes and handles alone.                            *)
LEMMA ScopesUnchanged ==
    ASSUME ScopeInv, UNCHANGED <<scopes, closing, pc, values, value>>
    PROVE  ScopeInv'
BY DEF ScopeInv, ScopesNest, MarksAscend, HandlesNest, OpenBelow

(* A step that adds an entry to stackValues_, in the innermost scope.      *)
LEMMA ValueAppended ==
    ASSUME ScopeTypes, ScopeInv, pc = "run", Depth > 0, NEW p \in Pointer,
           ~Contains(values, p), values' = Append(values, p),
           value' = [value EXCEPT ![p] = Depth],
           UNCHANGED <<scopes, closing, pc>>
    PROVE  ScopeInv' /\ ScopeTypes'
<1>1. closing = NoScope /\ ClosingOuter = 0 /\ Len(scopes) <= MaxScopes
  BY DEF ScopeInv, ScopesNest, NoScope, ClosingOuter
<1>2. Len(scopes) \in Nat /\ Len(values) \in Nat
  BY LenProperties DEF ScopeTypes
<1>3. Depth \in 1 .. MaxScopes
  <2>1. Depth \in Nat /\ Depth <= Len(scopes)
    BY <1>1, <1>2, DepthType DEF ScopeTypes
  <2>2. QED
    BY <1>1, <1>2, <2>1, MaxScopesAssumption
<1>4. /\ values' \in Seq(Pointer) /\ Len(values') = Len(values) + 1
      /\ \A k \in 1 .. Len(values) : values'[k] = values[k]
      /\ values'[Len(values) + 1] = p
  BY AppendProperties DEF ScopeTypes
<1>5. ScopeTypes'
  BY <1>3, <1>4 DEF ScopeTypes
<1>6. ScopesNest'
  BY DEF ScopeInv, ScopesNest
<1>7. MarksAscend'
  <2>1. \A i \in 1 .. Len(scopes) : scopes[i] \in Scope
    BY ElementOfSeq DEF ScopeTypes
  <2>2. QED
    BY <1>2, <1>4, <2>1 DEF ScopeInv, MarksAscend, Scope
<1>8. HandlesNest'
  <2>1. SUFFICES ASSUME NEW k \in 1 .. Len(values) + 1
                 PROVE  value'[values'[k]] \in 1 .. OpenBelow(k)
    BY <1>4 DEF HandlesNest, OpenBelow
  <2>2. CASE k = Len(values) + 1
    <3>1. \A i \in 1 .. Len(scopes) : scopes[i].mark < k
      <4>1. \A i \in 1 .. Len(scopes) : scopes[i] \in Scope
        BY ElementOfSeq DEF ScopeTypes
      <4>2. QED
        BY <1>2, <2>2, <4>1 DEF ScopeInv, MarksAscend, Scope
    <3>2. OpenBelow(k) = Depth
      <4>1. k \in Nat /\ scopes \in Seq(Scope) /\ ~(ClosingOuter = 1)
        BY <1>1, <1>2, <2>2 DEF ScopeTypes
      <4>2. QED
        BY <3>1, <4>1, DepthFacts
    <3>3. QED
      BY <1>3, <1>4, <2>2, <3>2 DEF ScopeTypes
  <2>3. CASE k \in 1 .. Len(values)
    <3>1. values[k] \in Pointer /\ values[k] # p
      BY <2>3, ElementOfSeq DEF Contains, ScopeTypes
    <3>2. value'[values'[k]] = value[values[k]]
      BY <1>4, <2>3, <3>1 DEF ScopeTypes
    <3>3. QED
      BY <2>3, <3>2 DEF ScopeInv, HandlesNest
  <2>4. QED
    BY <1>2, <2>2, <2>3
<1>9. QED
  BY <1>5, <1>6, <1>7, <1>8 DEF ScopeInv

(* New entries of stackScopes_, with the top of stackValues_ as the mark.  *)
LEMMA ScopesOpened ==
    ASSUME ScopeTypes, ScopeInv, pc = "run", NEW e \in Seq(Scope),
           Len(scopes) + Len(e) <= MaxScopes, scopes' = scopes \o e,
           \A i \in 1 .. Len(e) :
              /\ e[i].mark = Len(values)
              /\ e[i].kind = "inner" => i > 1 /\ e[i - 1].kind = "outer",
           UNCHANGED <<values, value, closing, pc>>
    PROVE  ScopeInv' /\ ScopeTypes'
<1>1. /\ Len(scopes) \in Nat /\ Len(values) \in Nat /\ Len(e) \in Nat
      /\ closing = NoScope
  BY LenProperties DEF ScopeTypes, ScopeInv, ScopesNest
<1>2. /\ scopes' \in Seq(Scope) /\ Len(scopes') = Len(scopes) + Len(e)
      /\ \A i \in 1 .. Len(scopes) + Len(e) :
            scopes'[i] = IF i <= Len(scopes) THEN scopes[i]
                         ELSE e[i - Len(scopes)]
  BY ConcatProperties DEF ScopeTypes
<1>3. ASSUME NEW i \in 1 .. Len(scopes')
      PROVE  \/ i \in 1 .. Len(scopes) /\ scopes'[i] = scopes[i]
             \/ /\ i - Len(scopes) \in 1 .. Len(e) /\ i > Len(scopes)
                /\ scopes'[i] = e[i - Len(scopes)]
                /\ scopes'[i].mark = Len(values)
  BY <1>1, <1>2
<1>4. \A i \in 1 .. Len(scopes) : scopes[i].mark \in Nat
  BY MarksAreNat DEF ScopeTypes
<1>5. ScopeTypes'
  BY <1>2 DEF ScopeTypes
<1>6. ScopesNest'
  <2>1. ASSUME NEW i \in 1 .. Len(scopes'), scopes'[i].kind = "inner"
        PROVE  i > 1 /\ scopes'[i - 1].kind = "outer"
    <3>1. CASE i \in 1 .. Len(scopes)
      <4>1. i > 1 /\ scopes[i - 1].kind = "outer"
        BY <1>1, <1>2, <2>1, <3>1 DEF ScopeInv, ScopesNest
      <4>2. i - 1 \in 1 .. Len(scopes) + Len(e) /\ i - 1 <= Len(scopes)
        BY <1>1, <3>1, <4>1
      <4>3. QED
        BY <1>2, <4>1, <4>2
    <3>2. CASE i > Len(scopes)
      <4>1. /\ i - Len(scopes) > 1
            /\ e[(i - Len(scopes)) - 1].kind = "outer"
        BY <1>1, <1>3, <2>1, <3>2
      <4>2. /\ i - 1 \in 1 .. Len(scopes) + Len(e) /\ ~(i - 1 <= Len(scopes))
            /\ (i - 1) - Len(scopes) = (i - Len(scopes)) - 1
        BY <1>1, <1>2, <3>2, <4>1
      <4>3. QED
        BY <1>2, <4>1, <4>2
    <3>3. QED
      BY <1>3, <3>1, <3>2
  <2>2. QED
    BY <1>1, <1>2, <2>1 DEF ScopeInv, ScopesNest, NoScope
<1>7. MarksAscend'
  <2>1. \A i \in 1 .. Len(scopes') : scopes'[i].mark <= Len(values)
    BY <1>1, <1>3 DEF ScopeInv, MarksAscend
  <2>2. ASSUME NEW i \in 1 .. Len(scopes'), NEW j \in 1 .. Len(scopes'), i <= j
        PROVE  scopes'[i].mark <= scopes'[j].mark
    <3>1. CASE scopes'[j].mark = Len(values)
      BY <2>1, <3>1
    <3>2. CASE j \in 1 .. Len(scopes) /\ scopes'[j] = scopes[j]
      <4>1. i \in 1 .. Len(scopes)
        BY <1>1, <1>2, <2>2, <3>2
      <4>2. scopes'[i] = scopes[i]
        BY <1>1, <1>2, <4>1
      <4>3. scopes[i].mark <= scopes[j].mark
        BY <2>2, <3>2, <4>1 DEF ScopeInv, MarksAscend
      <4>4. QED
        BY <3>2, <4>2, <4>3
    <3>3. QED
      BY <1>3, <3>1, <3>2
  <2>3. QED
    BY <2>1, <2>2 DEF MarksAscend
<1>8. HandlesNest'
  <2>1. SUFFICES ASSUME NEW k \in 1 .. Len(values)
                 PROVE  OuterScopes(scopes', k) = OuterScopes(scopes, k)
    BY DEF ScopeInv, HandlesNest, OpenBelow
  <2>2. ASSUME NEW i \in 1 .. Len(scopes'), scopes'[i].mark < k
        PROVE  i \in 1 .. Len(scopes) /\ scopes'[i] = scopes[i]
    <3>1. ~(scopes'[i].mark = Len(values))
      BY <1>1, <2>2
    <3>2. QED
      BY <1>3, <3>1
  <2>3. \A i \in 1 .. Len(scopes) : i \in 1 .. Len(scopes') /\ scopes'[i] = scopes[i]
    BY <1>1, <1>2
  <2>4. QED
    BY <2>2, <2>3 DEF OuterScopes
<1>9. QED
  BY <1>5, <1>6, <1>7, <1>8 DEF ScopeInv

(* The top entry becomes the one that is closed: no handle scope is closed *)
(* by that.                                                                *)
LEMMA PopStarted ==
    ASSUME ScopeTypes, ScopeInv, scopes # <<>>, StartPop,
           \/ pc = "run"
           \/ pc \in {"select", "delete"} /\ closing.kind = "inner",
           UNCHANGED <<values, value>>
    PROVE  ScopeInv' /\ ScopeTypes'
<1> DEFINE n == Len(scopes)
<1>1. /\ n \in Nat \ {0} /\ closing' = scopes[n] /\ closing' \in Scope
      /\ scopes' \in Seq(Scope) /\ Len(scopes') = n - 1
      /\ \A i \in 1 .. n - 1 : scopes'[i] = scopes[i]
      /\ pc' = "sweep" /\ Len(values) \in Nat
  BY FrontFacts, LenProperties DEF StartPop, ScopeTypes
<1>2. closing' # NoScope /\ closing'.kind \in ScopeKind
  BY <1>1 DEF Scope, ScopeKind, NoScope
<1>3. \A i \in 1 .. n : scopes[i].mark \in Nat
  BY MarksAreNat DEF ScopeTypes
<1>4. ScopeTypes'
  BY <1>1 DEF ScopeTypes
<1>5. ScopesNest'
  <2>1. /\ n + (IF pc = "run" THEN 0 ELSE 1) <= MaxScopes
        /\ \A i \in 1 .. n :
              scopes[i].kind = "inner" => i > 1 /\ scopes[i - 1].kind = "outer"
    BY DEF ScopeInv, ScopesNest
  <2>2. Len(scopes') + 1 <= MaxScopes
    BY <1>1, <2>1, MaxScopesAssumption
  <2>3. closing'.kind = "inner" =>
           scopes' # <<>> /\ scopes'[Len(scopes')].kind = "outer"
    <3>1. SUFFICES ASSUME closing'.kind = "inner"
                   PROVE  scopes' # <<>> /\ scopes'[Len(scopes')].kind = "outer"
      OBVIOUS
    <3>2. n > 1 /\ scopes[n - 1].kind = "outer"
      BY <1>1, <2>1, <3>1
    <3>3. n - 1 \in 1 .. n - 1 /\ Len(scopes') # 0
      BY <1>1, <3>2
    <3>4. QED
      BY <1>1, <3>2, <3>3, EmptySeq
  <2>4. ASSUME NEW i \in 1 .. Len(scopes'), scopes'[i].kind = "inner"
        PROVE  i > 1 /\ scopes'[i - 1].kind = "outer"
    <3>1. i \in 1 .. n /\ i > 1 /\ scopes[i - 1].kind = "outer"
      BY <1>1, <2>1, <2>4
    <3>2. i - 1 \in 1 .. n - 1
      BY <1>1, <2>4, <3>1
    <3>3. QED
      BY <1>1, <3>1, <3>2
  <2>5. QED
    BY <1>1, <1>2, <2>2, <2>3, <2>4 DEF ScopesNest
<1>6. MarksAscend'
  <2>1. /\ \A i, j \in 1 .. n : i <= j => scopes[i].mark <= scopes[j].mark
        /\ \A i \in 1 .. n : scopes[i].mark <= Len(values)
    BY DEF ScopeInv, MarksAscend
  <2>2. \A i \in 1 .. n - 1 : i \in 1 .. n /\ i <= n
    BY <1>1
  <2>3. n \in 1 .. n
    BY <1>1
  <2> HIDE DEF n
  <2>4. QED
    BY <1>1, <2>1, <2>2, <2>3 DEF MarksAscend
<1>7. HandlesNest'
  <2>1. SUFFICES ASSUME NEW k \in 1 .. Len(values)
                 PROVE  OpenBelow(k)' = OpenBelow(k)
    BY DEF ScopeInv, HandlesNest
  <2> DEFINE O == OuterScopes(scopes, k)
             P == OuterScopes(scopes', k)
  <2>2. OpenBelow(k) = Cardinality(O)
    <3>1. closing.kind \notin {"outer", "callback"}
      BY DEF ScopeInv, ScopesNest, NoScope
    <3>2. IsFiniteSet(O) /\ Cardinality(O) \in Nat
      <4>1. k \in Nat /\ scopes \in Seq(Scope)
        BY <1>1 DEF ScopeTypes
      <4>2. QED
        BY <4>1, OuterFinite
    <3>3. QED
      BY <3>1, <3>2 DEF OpenBelow
  <2>3. /\ IsFiniteSet(P) /\ Cardinality(P) \in Nat
        /\ n \notin P
    <3>1. k \in Nat /\ scopes' \in Seq(Scope)
      BY <1>1
    <3>2. IsFiniteSet(P) /\ Cardinality(P) \in Nat
      BY <3>1, OuterFinite
    <3>3. n \notin P
      BY <1>1 DEF OuterScopes
    <3>4. QED
      BY <3>2, <3>3
  <2>4. CASE scopes[n].kind # "inner" /\ scopes[n].mark < k
    <3>1. O = P \cup {n}
      <4>1. /\ \A i \in 1 .. n : i \in 1 .. n - 1 \/ i = n
            /\ \A i \in 1 .. n - 1 : i \in 1 .. n
            /\ n \in 1 .. n
        BY <1>1
      <4>2. O = {i \in 1 .. n : scopes[i].kind # "inner" /\ scopes[i].mark < k}
        BY DEF OuterScopes
      <4>3. P = {i \in 1 .. n - 1 :
                    scopes[i].kind # "inner" /\ scopes[i].mark < k}
        BY <1>1 DEF OuterScopes
      <4> HIDE DEF O, P, n
      <4>4. QED
        BY <2>4, <4>1, <4>2, <4>3
    <3>2. Cardinality(O) = Cardinality(P) + 1
      <4> HIDE DEF O, P
      <4>1. QED
        BY <2>3, <3>1, FS_AddElement
    <3>3. closing'.kind \in {"outer", "callback"} /\ closing'.mark < k
      BY <1>1, <1>2, <2>4 DEF ScopeKind
    <3>4. QED
      BY <2>2, <3>2, <3>3 DEF OpenBelow
  <2>5. CASE ~(scopes[n].kind # "inner" /\ scopes[n].mark < k)
    <3>1. O = P
      BY <1>1, <2>5 DEF OuterScopes
    <3>2. ~(closing'.kind \in {"outer", "callback"} /\ closing'.mark < k)
      BY <1>1, <2>5
    <3>3. QED
      BY <2>2, <2>3, <3>1, <3>2 DEF OpenBelow
  <2>6. QED
    BY <2>4, <2>5
<1>8. QED
  BY <1>4, <1>5, <1>6, <1>7 DEF ScopeInv

(* The handle scope of an entry that was swept is closed: no entry of      *)
(* stackValues_ was in it.                                                 *)
LEMMA PopEnded ==
    ASSUME ScopeTypes, ScopeInv, pc \in {"select", "delete"},
           closing.kind # "inner", pc' = "run", closing' = NoScope,
           UNCHANGED <<scopes, values, value>>
    PROVE  ScopeInv' /\ ScopeTypes'
<1>1. /\ Len(scopes) \in Nat /\ Len(values) \in Nat
      /\ closing # NoScope /\ closing.mark \in Nat
  BY LenProperties DEF ScopeTypes, Scope, ScopeInv, ScopesNest
<1>2. ScopesNest'
  BY <1>1, MaxScopesAssumption DEF ScopeInv, ScopesNest, NoScope
<1>3. MarksAscend'
  BY DEF ScopeInv, MarksAscend
<1>4. HandlesNest'
  <2>1. ASSUME NEW k \in 1 .. Len(values)
        PROVE  OpenBelow(k)' = OpenBelow(k)
    <3>1. ~(closing.mark < k)
      BY <1>1, <2>1 DEF ScopeInv, MarksAscend
    <3>2. QED
      BY <3>1 DEF OpenBelow, NoScope
  <2>2. QED
    BY <2>1 DEF ScopeInv, HandlesNest
<1>5. QED
  BY <1>2, <1>3, <1>4 DEF ScopeInv, ScopeTypes

LEMMA SweepEnded ==
    ASSUME ScopeInv, pc = "sweep", Len(values) <= closing.mark, pc' = "select",
           UNCHANGED <<scopes, values, value, closing>>
    PROVE  ScopeInv'
BY DEF ScopeInv, ScopesNest, MarksAscend, HandlesNest, OpenBelow

(* An entry above the mark of the scope that is closed goes: the others    *)
(* above it move down, and all open scopes are still below them.           *)
LEMMA ValueSwept ==
    ASSUME ScopeTypes, ScopeInv, pc = "sweep", Len(values) > closing.mark,
           IsInjective(values),
           values' = RemoveAt(values, closing.mark + 1),
           value' \in [Pointer -> 0 .. MaxScopes],
           \A p \in Pointer : p # values[closing.mark + 1] => value'[p] = value[p],
           UNCHANGED <<scopes, closing, pc>>
    PROVE  ScopeInv' /\ ScopeTypes'
<1>1. /\ Len(scopes) \in Nat /\ Len(values) \in Nat
      /\ closing # NoScope /\ closing.mark \in Nat
      /\ closing.mark + 1 \in 1 .. Len(values)
  BY LenProperties DEF ScopeTypes, Scope, ScopeInv, ScopesNest
<1>2. PICK m \in Nat : m = closing.mark
  BY <1>1
<1>3. /\ values' \in Seq(Pointer) /\ Len(values') = Len(values) - 1
      /\ \A k \in 1 .. Len(values) - 1 :
            values'[k] = IF k < m + 1 THEN values[k] ELSE values[k + 1]
  BY <1>1, <1>2, RemoveAtFacts DEF ScopeTypes
<1>4. \A i \in 1 .. Len(scopes) : scopes[i].mark \in Nat /\ scopes[i].mark <= m
  BY <1>2, MarksAreNat DEF ScopeTypes, ScopeInv, MarksAscend
<1>5. MarksAscend'
  <2>1. m <= Len(values')
    BY <1>1, <1>2, <1>3
  <2>2. \A i \in 1 .. Len(scopes) : scopes[i].mark <= Len(values')
    BY <1>1, <1>2, <1>3, <1>4
  <2>3. QED
    BY <1>2, <1>4, <2>1, <2>2 DEF ScopeInv, MarksAscend
<1>6. HandlesNest'
  <2>1. SUFFICES ASSUME NEW k \in 1 .. Len(values) - 1
                 PROVE  value'[values'[k]] \in 1 .. OpenBelow(k)
    BY <1>3 DEF HandlesNest, OpenBelow
  <2>2. /\ k \in 1 .. Len(values) /\ k + 1 \in 1 .. Len(values)
        /\ values[k] \in Pointer /\ values[k + 1] \in Pointer
    BY <1>1, ElementOfSeq DEF ScopeTypes
  <2>3. DOMAIN values = 1 .. Len(values)
    BY LenProperties DEF ScopeTypes
  <2>4. CASE k < m + 1
    <3>1. values[k] # values[m + 1]
      BY <1>1, <1>2, <2>2, <2>3, <2>4 DEF IsInjective
    <3>2. value'[values'[k]] = value[values[k]]
      BY <1>2, <1>3, <2>2, <2>4, <3>1
    <3>3. QED
      BY <2>2, <3>2 DEF ScopeInv, HandlesNest
  <2>5. CASE k >= m + 1
    <3>1. values[k + 1] # values[m + 1]
      BY <1>1, <1>2, <2>2, <2>3, <2>5 DEF IsInjective
    <3>2. value'[values'[k]] = value[values[k + 1]]
      <4>1. ~(k < m + 1)
        BY <2>5
      <4>2. values'[k] = values[k + 1]
        BY <1>3, <4>1
      <4>3. QED
        BY <1>2, <2>2, <3>1, <4>2
    <3>3. OuterScopes(scopes, k) = OuterScopes(scopes, k + 1)
      BY <1>1, <1>4, <2>5 DEF OuterScopes
    <3>4. OpenBelow(k) = OpenBelow(k + 1)
      BY <1>1, <1>2, <2>5, <3>3 DEF OpenBelow
    <3>5. QED
      BY <2>2, <3>2, <3>4 DEF ScopeInv, HandlesNest
  <2>6. QED
    BY <1>1, <2>4, <2>5
<1>7. ScopesNest'
  BY DEF ScopeInv, ScopesNest
<1>8. QED
  BY <1>3, <1>5, <1>6, <1>7 DEF ScopeInv, ScopeTypes

-----------------------------------------------------------------------------
(* The pools of the pending deletions.                                     *)

Has(P, p) == \E i \in 0 .. 1 : Contains(P[i], p)
OnceAt(P, p, i, k) ==
    \A j \in 0 .. 1 : \A m \in 1 .. Len(P[j]) : P[j][m] = p <=> j = i /\ m = k
HasOnce(P, p) == \E i \in 0 .. 1 : \E k \in 1 .. Len(P[i]) : OnceAt(P, p, i, k)

LEMMA PoolAppended ==
    ASSUME pool \in [0 .. 1 -> Seq(Pointer)], NEW i \in 0 .. 1,
           NEW q \in Pointer, ~Has(pool, q),
           pool' = [pool EXCEPT ![i] = Append(@, q)]
    PROVE  /\ pool' \in [0 .. 1 -> Seq(Pointer)]
           /\ HasOnce(pool', q)
           /\ \A p \in Pointer : p # q => /\ Has(pool', p) <=> Has(pool, p)
                                          /\ HasOnce(pool, p) => HasOnce(pool', p)
<1> DEFINE n == Len(pool[i])
<1>1. /\ pool'[i] \in Seq(Pointer) /\ n \in Nat /\ Len(pool'[i]) = n + 1
      /\ \A k \in 1 .. n : pool'[i][k] = pool[i][k]
      /\ pool'[i][n + 1] = q
      /\ \A j \in 0 .. 1 : j # i => pool'[j] = pool[j]
  BY AppendProperties, LenProperties
<1>2. pool' \in [0 .. 1 -> Seq(Pointer)]
  BY <1>1
<1>3. \A j \in 0 .. 1 : \A k \in 1 .. Len(pool[j]) : pool[j][k] # q
  BY DEF Has, Contains
<1>4. HasOnce(pool', q)
  <2>1. n + 1 \in 1 .. Len(pool'[i])
    BY <1>1
  <2>2. OnceAt(pool', q, i, n + 1)
    BY <1>1, <1>3 DEF OnceAt
  <2>3. QED
    BY <2>1, <2>2 DEF HasOnce
<1>5. ASSUME NEW p \in Pointer, p # q
      PROVE  /\ Has(pool', p) <=> Has(pool, p)
             /\ HasOnce(pool, p) => HasOnce(pool', p)
  <2>1. ASSUME NEW j \in 0 .. 1, NEW m
        PROVE  m \in 1 .. Len(pool'[j]) /\ pool'[j][m] = p
               <=> m \in 1 .. Len(pool[j]) /\ pool[j][m] = p
    BY <1>1, <1>5
  <2>2. Has(pool', p) <=> Has(pool, p)
    BY <2>1 DEF Has, Contains
  <2>3. ASSUME NEW a \in 0 .. 1, NEW k \in 1 .. Len(pool[a]), OnceAt(pool, p, a, k)
        PROVE  HasOnce(pool', p)
    <3>1. pool[a][k] = p
      BY <2>3 DEF OnceAt
    <3>2. k \in 1 .. Len(pool'[a])
      BY <2>1, <3>1
    <3>3. OnceAt(pool', p, a, k)
      BY <2>1, <2>3, <3>1 DEF OnceAt
    <3>4. QED
      BY <3>2, <3>3 DEF HasOnce
  <2>4. QED
    BY <2>2, <2>3 DEF HasOnce
<1>6. QED
  BY <1>2, <1>4, <1>5

LEMMA PoolPopped ==
    ASSUME pool \in [0 .. 1 -> Seq(Pointer)], NEW i \in 0 .. 1,
           pool[i] # <<>>, NEW q \in Pointer, q = Head(pool[i]), HasOnce(pool, q),
           pool' = [pool EXCEPT ![i] = Tail(@)]
    PROVE  /\ pool' \in [0 .. 1 -> Seq(Pointer)]
           /\ ~Has(pool', q)
           /\ \A p \in Pointer : p # q => /\ Has(pool', p) <=> Has(pool, p)
                                          /\ HasOnce(pool, p) => HasOnce(pool', p)
<1> DEFINE n == Len(pool[i])
<1>1. /\ pool'[i] \in Seq(Pointer) /\ n \in Nat \ {0} /\ Len(pool'[i]) = n - 1
      /\ \A k \in 1 .. n - 1 : pool'[i][k] = pool[i][k + 1]
      /\ pool[i][1] = q
      /\ \A j \in 0 .. 1 : j # i => pool'[j] = pool[j]
  BY HeadTailProperties, EmptySeq
<1>2. pool' \in [0 .. 1 -> Seq(Pointer)]
  BY <1>1
<1>3. OnceAt(pool, q, i, 1)
  BY <1>1 DEF HasOnce, OnceAt
<1>4. ASSUME NEW j \in 0 .. 1, NEW m \in 1 .. Len(pool'[j])
      PROVE  /\ pool'[j][m] # q
             /\ \E k \in 1 .. Len(pool[j]) :
                   /\ pool'[j][m] = pool[j][k]
                   /\ k = IF j = i THEN m + 1 ELSE m
  BY <1>1, <1>3 DEF OnceAt
<1>5. ASSUME NEW p, p # q, NEW j \in 0 .. 1, NEW k \in 1 .. Len(pool[j]),
             pool[j][k] = p, NEW m, m = IF j = i THEN k - 1 ELSE k
      PROVE  m \in 1 .. Len(pool'[j]) /\ pool'[j][m] = p
  BY <1>1, <1>3, <1>5 DEF OnceAt
<1>6. ~Has(pool', q)
  BY <1>4 DEF Has, Contains
<1>7. ASSUME NEW p \in Pointer, p # q
      PROVE  /\ Has(pool', p) <=> Has(pool, p)
             /\ HasOnce(pool, p) => HasOnce(pool', p)
  <2>1. Has(pool', p) => Has(pool, p)
    BY <1>4 DEF Has, Contains
  <2>2. ASSUME NEW j \in 0 .. 1, NEW k \in 1 .. Len(pool[j]), pool[j][k] = p
        PROVE  Has(pool', p)
    <3>1. PICK l : l = IF j = i THEN k - 1 ELSE k
      OBVIOUS
    <3>2. l \in 1 .. Len(pool'[j]) /\ pool'[j][l] = p
      BY <1>5, <1>7, <2>2, <3>1
    <3>3. QED
      BY <3>2 DEF Has, Contains
  <2>3. Has(pool, p) => Has(pool', p)
    BY <2>2 DEF Has, Contains
  <2>4. ASSUME NEW a \in 0 .. 1, NEW k \in 1 .. Len(pool[a]), OnceAt(pool, p, a, k)
        PROVE  HasOnce(pool', p)
    <3>1. pool[a][k] = p
      BY <2>4 DEF OnceAt
    <3>2. PICK l : l = IF a = i THEN k - 1 ELSE k
      OBVIOUS
    <3>3. l \in 1 .. Len(pool'[a]) /\ pool'[a][l] = p
      BY <1>5, <1>7, <3>1, <3>2
    <3>4. ASSUME NEW j \in 0 .. 1, NEW m \in 1 .. Len(pool'[j]), pool'[j][m] = p
          PROVE  j = a /\ m = l
      <4>1. PICK b \in 1 .. Len(pool[j]) : /\ pool'[j][m] = pool[j][b]
                                        /\ b = IF j = i THEN m + 1 ELSE m
        BY <1>4
      <4>2. j = a /\ b = k
        BY <2>4, <3>4, <4>1 DEF OnceAt
      <4>3. QED
        BY <1>1, <3>2, <4>1, <4>2
    <3>5. OnceAt(pool', p, a, l)
      BY <3>3, <3>4 DEF OnceAt
    <3>6. QED
      BY <3>3, <3>5 DEF HasOnce
  <2>5. QED
    BY <2>1, <2>3, <2>4 DEF HasOnce
<1>8. QED
  BY <1>2, <1>6, <1>7

LEMMA PoolPredicates ==
    ASSUME NEW p
    PROVE  /\ InPool(p) <=> Has(pool, p)
           /\ InPoolOnce(p) <=> HasOnce(pool, p)
BY DEF InPool, InPoolOnce, Has, HasOnce, OnceAt

-----------------------------------------------------------------------------
(* Facts about single instances.                                           *)

(* What is being added, or in a pool, or marked for the stack, is live and *)
(* has no reference; it is nowhere else.                                   *)
LEMMA DoomedFacts ==
    ASSUME TypeOK, PointerInv, OneWayToDeletion, NEW p \in Pointer
    PROVE  /\ BeingAdded(p) => /\ state[p] = "live" /\ refCount[p] = 0
                               /\ ~InPool(p) /\ ~fromStack[p]
                               /\ \A t, u \in Thread :
                                     adding[t] = p /\ adding[u] = p => t = u
           /\ InPool(p) => /\ state[p] = "live" /\ refCount[p] = 0
                           /\ InPoolOnce(p) /\ ~BeingAdded(p) /\ ~fromStack[p]
           /\ state[p] = "live" /\ fromStack[p] =>
                /\ refCount[p] = 0 /\ ~InPool(p) /\ ~BeingAdded(p)
           /\ refCount[p] > 0 => state[p] = "live"
<1>1. refCount[p] \in Nat /\ (refCount[p] > 0 \/ refCount[p] = 0)
      /\ state[p] \in {"unborn", "live", "deleted"}
  BY MaxCountAssumption DEF TypeOK
<1>2. QED
  BY <1>1 DEF PointerInv, OneWayToDeletion, BeingAdded

(* The value behind an entry of stackValues_ is live.                      *)
LEMMA EntryFacts ==
    ASSUME TypeOK, PointerInv, NEW p \in Pointer, Contains(values, p)
    PROVE  state[p] = "live" /\ value[p] # 0
BY DEF PointerInv, TypeOK

\* One thread has the instance between decRefCount and the pool.
AddedOnce(p) == \E t \in Thread : \A u \in Thread : adding[u] = p <=> u = t

\* PointerInv and OneWayToDeletion, for one instance.
Kept(p) ==
    /\ state[p] # "live" =>
          /\ refCount[p] = 0
          /\ ~Contains(values, p) /\ ~InPool(p) /\ ~BeingAdded(p)
    /\ state[p] = "unborn" =>
          value[p] = 0 /\ ref[p] = "none" /\ ~fromStack[p] /\ ~collected[p]
    /\ state[p] = "live" =>
          /\ value[p] # 0 <=> Contains(values, p)
          /\ ref[p] \in {"none", NewRef(pointerKind[p])}
          /\ refCount[p] > 0 =>
                /\ ~InPool(p) /\ ~BeingAdded(p) /\ ~fromStack[p]
                /\ value[p] # 0 \/ ref[p] = NewRef(pointerKind[p])
                /\ pointerKind[p] # "weak" => ~collected[p]
    /\ state[p] = "live" /\ refCount[p] = 0 =>
          \/ AddedOnce(p) /\ ~InPool(p) /\ ~fromStack[p]
          \/ InPoolOnce(p) /\ ~BeingAdded(p) /\ ~fromStack[p]
          \/ /\ fromStack[p] /\ Contains(values, p)
             /\ ~InPool(p) /\ ~BeingAdded(p)

LEMMA KeptMeans ==
    (\A p \in Pointer : Kept(p)) <=> PointerInv /\ OneWayToDeletion
BY DEF Kept, PointerInv, OneWayToDeletion, AddedOnce

(* A step that does not touch an instance.                                 *)
LEMMA Untouched ==
    ASSUME NEW p \in Pointer, Kept(p), state'[p] = state[p],
           pointerKind'[p] = pointerKind[p], refCount'[p] = refCount[p],
           value'[p] = value[p], ref'[p] = ref[p],
           fromStack'[p] = fromStack[p], collected'[p] = collected[p],
           Contains(values', p) <=> Contains(values, p),
           InPool(p)' <=> InPool(p), InPoolOnce(p) => InPoolOnce(p)',
           BeingAdded(p)' <=> BeingAdded(p), AddedOnce(p) => AddedOnce(p)'
    PROVE  Kept(p)'
BY DEF Kept, NewRef

(* A step that leaves the pools and the threads' last references alone.    *)
LEMMA SamePools ==
    ASSUME UNCHANGED <<pool, adding>>, NEW q \in Pointer
    PROVE  /\ InPool(q)' <=> InPool(q)
           /\ InPoolOnce(q) => InPoolOnce(q)'
           /\ BeingAdded(q)' <=> BeingAdded(q)
           /\ AddedOnce(q) => AddedOnce(q)'
<1>1. (InPool(q)' <=> InPool(q)) /\ (InPoolOnce(q) => InPoolOnce(q)')
  <2>1. pool' = pool
    OBVIOUS
  <2>2. /\ InPool(q) <=> Has(pool, q)
        /\ InPoolOnce(q) <=> HasOnce(pool, q)
    BY PoolPredicates
  <2>3. /\ InPool(q)' <=> Has(pool', q)
        /\ InPoolOnce(q)' <=> HasOnce(pool', q)
    BY DEF InPool, InPoolOnce, Has, HasOnce, OnceAt
  <2>4. QED
    BY <2>1, <2>2, <2>3
<1>2. (BeingAdded(q)' <=> BeingAdded(q)) /\ (AddedOnce(q) => AddedOnce(q)')
  BY DEF BeingAdded, AddedOnce
<1>3. QED
  BY <1>1, <1>2

-----------------------------------------------------------------------------
(* The count of the pending deletions.                                     *)

LEMMA PendingCountType ==
    ASSUME PendingCount
    PROVE  /\ pending \in Nat /\ Cardinality(LiveSet) \in Nat
           /\ LiveSet # {} => Cardinality(LiveSet) > 0
BY FS_CardinalityType, FS_EmptySet DEF PendingCount

LEMMA PendingUnchanged ==
    ASSUME PendingCount, UNCHANGED <<state, pending, alive>>
    PROVE  PendingCount'
BY DEF PendingCount, LiveSet

LEMMA PendingAdded ==
    ASSUME PendingCount, NEW p \in Pointer, state[p] # "live",
           state \in [Pointer -> {"unborn", "live", "deleted"}],
           state' = [state EXCEPT ![p] = "live"], pending' = pending + 1,
           UNCHANGED alive
    PROVE  PendingCount'
<1> DEFINE L == LiveSet
           M == LiveSet'
<1>1. M = L \cup {p} /\ p \notin L
  BY DEF LiveSet
<1>2. IsFiniteSet(L) /\ Cardinality(L) \in Nat
  BY PendingCountType DEF PendingCount
<1>3. IsFiniteSet(M) /\ Cardinality(M) = Cardinality(L) + 1
  <2> HIDE DEF L, M
  <2>1. QED
    BY <1>1, <1>2, FS_AddElement
<1>4. QED
  BY <1>2, <1>3 DEF PendingCount

LEMMA PendingRemoved ==
    ASSUME PendingCount, NEW p \in Pointer, state[p] = "live",
           state \in [Pointer -> {"unborn", "live", "deleted"}],
           state' = [state EXCEPT ![p] = "deleted"], pending' = pending - 1,
           UNCHANGED alive
    PROVE  PendingCount'
<1> DEFINE L == LiveSet
           M == LiveSet'
<1>1. M = L \ {p} /\ p \in L
  BY DEF LiveSet
<1>2. IsFiniteSet(L) /\ Cardinality(L) \in Nat
  BY PendingCountType DEF PendingCount
<1>3. IsFiniteSet(M) /\ Cardinality(M) = Cardinality(L) - 1
  <2> HIDE DEF L, M
  <2>1. QED
    BY <1>1, <1>2, FS_RemoveElement
<1>4. QED
  BY <1>2, <1>3 DEF PendingCount

-----------------------------------------------------------------------------
(* Every action preserves the invariant.                                   *)

LEMMA IInvFacts ==
    ASSUME IInv
    PROVE  /\ TypeOK /\ ScopeTypes /\ ScopeInv /\ \A p \in Pointer : Kept(p)
           /\ IsInjective(values) /\ PendingCount /\ failure # "value"
           /\ PointerInv /\ OneWayToDeletion
BY KeptMeans DEF IInv, TypeOK, ScopeTypes

LEMMA IInvFromParts ==
    ASSUME TypeOK', ScopeInv', \A p \in Pointer : Kept(p)',
           IsInjective(values)', PendingCount', failure' # "value"
    PROVE  IInv'
<1>1. PointerInv' /\ OneWayToDeletion'
  BY DEF Kept, PointerInv, OneWayToDeletion, AddedOnce
<1>2. QED
  BY <1>1 DEF IInv

LEMMA MakeIInv ==
    ASSUME IInv, NEW p \in Pointer, NEW k \in PointerKind, NEW n \in 1 .. 2,
           NEW r \in {"none", NewRef(k)}, Make(p, k, n, r),
           cached' \subseteq Pointer
    PROVE  IInv'
<1>1. /\ TypeOK /\ ScopeTypes /\ ScopeInv /\ \A q \in Pointer : Kept(q)
      /\ IsInjective(values) /\ PendingCount /\ failure # "value"
  BY IInvFacts
<1>2. /\ pc = "run" /\ Depth > 0 /\ state[p] = "unborn"
      /\ values' = Append(values, p) /\ value' = [value EXCEPT ![p] = Depth]
      /\ UNCHANGED <<scopes, closing, pc, fromStack, pool, selector,
                     adding, alive, collected, throwing, failure>>
      /\ ref' = [ref EXCEPT ![p] = r]
      /\ state' = [state EXCEPT ![p] = "live"]
      /\ pointerKind' = [pointerKind EXCEPT ![p] = k]
      /\ refCount' = [refCount EXCEPT ![p] = n]
      /\ pending' = pending + 1
  BY DEF Make, HostRuns, poolVars
<1>3. /\ ~Contains(values, p) /\ ~InPool(p) /\ ~BeingAdded(p) /\ value[p] = 0
      /\ ref[p] = "none" /\ ~fromStack[p] /\ ~collected[p]
  BY <1>1, <1>2 DEF Kept
<1>4. ScopeInv' /\ ScopeTypes'
  BY <1>1, <1>2, <1>3, ValueAppended
<1>5. Depth \in Nat
  BY <1>1, DepthType DEF ScopeTypes
<1>6. IsInjective(values)'
  BY <1>1, <1>2, <1>3, InjectiveAppend DEF TypeOK
<1>7. PendingCount'
  BY <1>1, <1>2, PendingAdded DEF TypeOK
<1>8. TypeOK'
  <2>1. r \in {"none", "strong", "weak"}
    BY DEF NewRef
  <2>2. QED
    BY <1>1, <1>2, <1>4, <2>1, MaxCountAssumption DEF TypeOK, ScopeTypes
<1>9. \A q : Contains(values', q) <=> Contains(values, q) \/ q = p
  BY <1>1, <1>2, ContainsAppend DEF TypeOK
<1>10. \A q \in Pointer :
          /\ InPool(q)' <=> InPool(q)
          /\ InPoolOnce(q) => InPoolOnce(q)'
          /\ BeingAdded(q)' <=> BeingAdded(q)
          /\ AddedOnce(q) => AddedOnce(q)'
  BY <1>2, SamePools
<1>11. ASSUME NEW q \in Pointer PROVE Kept(q)'
  <2>1. CASE q = p
    <3>1. /\ state'[p] = "live" /\ value'[p] # 0 /\ refCount'[p] > 0
          /\ refCount'[p] # 0 /\ ref'[p] = r /\ pointerKind'[p] = k
          /\ ~fromStack'[p]
          /\ ~collected'[p] /\ ~InPool(p)' /\ ~BeingAdded(p)'
          /\ Contains(values', p)
      BY <1>1, <1>2, <1>3, <1>5, <1>9, <1>10 DEF TypeOK
    <3>2. QED
      BY <2>1, <3>1 DEF Kept
  <2>2. CASE q # p
    <3>1. /\ state'[q] = state[q] /\ pointerKind'[q] = pointerKind[q]
          /\ refCount'[q] = refCount[q] /\ value'[q] = value[q]
          /\ ref'[q] = ref[q]
      BY <1>1, <1>2, <2>2 DEF TypeOK
    <3>2. QED
      BY <1>1, <1>2, <1>9, <1>10, <2>2, <3>1, Untouched
  <2>3. QED
    BY <2>1, <2>2
<1>12. QED
  BY <1>1, <1>2, <1>4, <1>6, <1>7, <1>8, <1>11, IInvFromParts

LEMMA CloneIInv ==
    ASSUME IInv, NEW p \in Pointer, Clone(p)
    PROVE  IInv'
<1>1. /\ TypeOK /\ ScopeTypes /\ ScopeInv /\ \A q \in Pointer : Kept(q)
      /\ IsInjective(values) /\ PendingCount /\ failure # "value"
  BY IInvFacts
<1>2. /\ refCount[p] \in 1 .. MaxCount - 1
      /\ refCount' = [refCount EXCEPT ![p] = @ + 1]
      /\ UNCHANGED <<state, pointerKind, value, ref, fromStack, cached, scopes, values,
                     pool, selector, pc, closing, adding, pending, alive,
                     collected, throwing, failure>>
  BY DEF Clone, IncRefCount, poolVars
<1>3. TypeOK'
  BY <1>1, <1>2, MaxCountAssumption DEF TypeOK
<1>4. ScopeInv' /\ PendingCount'
  BY <1>1, <1>2, ScopesUnchanged, PendingUnchanged
<1>5. \A q \in Pointer :
          /\ InPool(q)' <=> InPool(q)
          /\ InPoolOnce(q) => InPoolOnce(q)'
          /\ BeingAdded(q)' <=> BeingAdded(q)
          /\ AddedOnce(q) => AddedOnce(q)'
  BY <1>2, SamePools
<1>6. ASSUME NEW q \in Pointer PROVE Kept(q)'
  <2>1. CASE q = p
    <3>1. refCount[p] > 0 /\ refCount'[p] > 0 /\ refCount'[p] # 0
          /\ refCount[p] # 0
      BY <1>1, <1>2 DEF TypeOK
    <3>2. QED
      BY <1>1, <1>2, <1>5, <2>1, <3>1 DEF Kept, NewRef
  <2>2. CASE q # p
    <3>1. refCount'[q] = refCount[q]
      BY <1>1, <1>2, <2>2 DEF TypeOK
    <3>2. QED
      BY <1>1, <1>2, <1>5, <3>1, Untouched
  <2>3. QED
    BY <2>1, <2>2
<1>7. QED
  BY <1>1, <1>2, <1>3, <1>4, <1>6, IInvFromParts

LEMMA ReleaseIInv ==
    ASSUME IInv, NEW t \in Thread, NEW p \in Pointer, Release(t, p)
    PROVE  IInv'
<1>1. /\ TypeOK /\ ScopeTypes /\ ScopeInv /\ \A q \in Pointer : Kept(q)
      /\ IsInjective(values) /\ PendingCount /\ failure # "value"
  BY IInvFacts
<1>2. /\ adding[t] = NoPointer /\ HostRefs(p) > 0
      /\ refCount' = [refCount EXCEPT ![p] = @ - 1]
      /\ adding' = [adding EXCEPT ![t] = IF IsLast(p) THEN p ELSE @]
      /\ UNCHANGED <<state, pointerKind, value, ref, fromStack, cached, scopes, values,
                     pool, selector, pc, closing, pending, alive, collected,
                     throwing, failure>>
  BY DEF Release, poolVars
<1>3. refCount[p] \in 1 .. MaxCount
  BY <1>1, <1>2, MaxCountAssumption DEF TypeOK, HostRefs, HolderRefs
<1>4. state[p] = "live" /\ ~InPool(p) /\ ~BeingAdded(p) /\ ~fromStack[p]
  BY <1>1, <1>3, MaxCountAssumption DEF Kept
<1>5. TypeOK'
  BY <1>1, <1>2, <1>3, MaxCountAssumption DEF TypeOK
<1>6. ScopeInv' /\ PendingCount'
  BY <1>1, <1>2, ScopesUnchanged, PendingUnchanged
<1>7. \A q \in Pointer :
          /\ InPool(q)' <=> InPool(q)
          /\ InPoolOnce(q) => InPoolOnce(q)'
  BY <1>2 DEF InPool, InPoolOnce
<1>8. ASSUME NEW q \in Pointer PROVE Kept(q)'
  <2>1. CASE q = p /\ IsLast(p)
    <3>1. refCount'[p] = 0 /\ ~(refCount'[p] > 0) /\ refCount[p] > 0
      BY <1>1, <1>2, <1>3, <2>1 DEF TypeOK, IsLast
    <3>2. \A u \in Thread : adding'[u] = p <=> u = t
      BY <1>1, <1>2, <1>4, <2>1 DEF TypeOK, BeingAdded
    <3>3. AddedOnce(p)'
      BY <3>2 DEF AddedOnce
    <3>4. ~InPool(p)' /\ ~fromStack'[p]
      BY <1>2, <1>4, <1>7
    <3>5. QED
      BY <1>1, <1>2, <1>4, <2>1, <3>1, <3>3, <3>4 DEF Kept, NewRef
  <2>2. CASE q = p /\ ~IsLast(p)
    <3>1. refCount'[p] # 0 /\ refCount'[p] > 0 /\ refCount[p] > 0
      BY <1>1, <1>2, <1>3, <2>2 DEF TypeOK, IsLast
    <3>2. adding' = adding
      BY <1>1, <1>2, <2>2 DEF TypeOK
    <3>3. ~BeingAdded(p)' /\ ~InPool(p)'
      BY <1>4, <1>7, <3>2 DEF BeingAdded
    <3>4. QED
      BY <1>1, <1>2, <1>4, <2>2, <3>1, <3>3 DEF Kept, NewRef
  <2>3. CASE q # p
    <3>1. refCount'[q] = refCount[q]
      BY <1>1, <1>2, <2>3 DEF TypeOK
    <3>2. \A u \in Thread : adding'[u] = q <=> adding[u] = q
      BY <1>1, <1>2, <2>3, NoPointerAssumption DEF TypeOK
    <3>3. /\ BeingAdded(q)' <=> BeingAdded(q)
          /\ AddedOnce(q) => AddedOnce(q)'
      BY <3>2 DEF BeingAdded, AddedOnce
    <3>4. QED
      BY <1>1, <1>2, <1>7, <3>1, <3>3, Untouched
  <2>4. QED
    BY <2>1, <2>2, <2>3
<1>9. QED
  BY <1>1, <1>2, <1>5, <1>6, <1>8, IInvFromParts

LEMMA AddPointerValueToDeleteIInv ==
    ASSUME IInv, NEW t \in Thread, AddPointerValueToDelete(t)
    PROVE  IInv'
<1>1. /\ TypeOK /\ ScopeTypes /\ ScopeInv /\ \A q \in Pointer : Kept(q)
      /\ IsInjective(values) /\ PendingCount /\ failure # "value"
      /\ PointerInv /\ OneWayToDeletion
  BY IInvFacts
<1>2. PICK p : p = adding[t]
  OBVIOUS
<1>3. /\ p # NoPointer
      /\ pool' = [pool EXCEPT ![selector] = Append(@, p)]
      /\ adding' = [adding EXCEPT ![t] = NoPointer]
      /\ UNCHANGED <<state, pointerKind, refCount, value, ref, fromStack, cached,
                     scopes, values, selector, pc, closing, pending, alive,
                     collected, throwing, failure>>
  BY <1>2 DEF AddPointerValueToDelete, pointerVars
<1>4. p \in Pointer /\ BeingAdded(p)
  BY <1>1, <1>2, <1>3 DEF TypeOK, BeingAdded
<1>5. /\ state[p] = "live" /\ refCount[p] = 0 /\ ~InPool(p) /\ ~fromStack[p]
      /\ \A u \in Thread : adding[u] = p => u = t
  BY <1>1, <1>2, <1>4, DoomedFacts
<1>6. /\ pool' \in [0 .. 1 -> Seq(Pointer)]
      /\ HasOnce(pool', p)
      /\ \A q \in Pointer : q # p => /\ Has(pool', q) <=> Has(pool, q)
                                     /\ HasOnce(pool, q) => HasOnce(pool', q)
  <2>1. /\ pool \in [0 .. 1 -> Seq(Pointer)] /\ selector \in 0 .. 1
        /\ ~Has(pool, p)
    BY <1>1, <1>5, PoolPredicates DEF TypeOK
  <2>2. QED
    BY <1>3, <1>4, <2>1, PoolAppended
<1>7. TypeOK'
  BY <1>1, <1>3, <1>6 DEF TypeOK
<1>8. ScopeInv' /\ PendingCount'
  BY <1>1, <1>3, ScopesUnchanged, PendingUnchanged
<1>9. ASSUME NEW q \in Pointer PROVE Kept(q)'
  <2>1. CASE q = p
    <3>1. ~BeingAdded(p)'
      BY <1>1, <1>3, <1>5, NoPointerAssumption, <1>4 DEF BeingAdded, TypeOK
    <3>2. InPoolOnce(p)'
      BY <1>6 DEF InPoolOnce, HasOnce, OnceAt
    <3>3. QED
      BY <1>1, <1>3, <1>5, <2>1, <3>1, <3>2 DEF Kept, NewRef
  <2>2. CASE q # p
    <3>1. \A u \in Thread : adding'[u] = q <=> adding[u] = q
      BY <1>1, <1>2, <1>3, <2>2, NoPointerAssumption DEF TypeOK
    <3>2. /\ BeingAdded(q)' <=> BeingAdded(q)
          /\ AddedOnce(q) => AddedOnce(q)'
      BY <3>1 DEF BeingAdded, AddedOnce
    <3>3. InPool(q)' <=> InPool(q)
      BY <1>6, <2>2 DEF InPool, Has
    <3>4. InPoolOnce(q) => InPoolOnce(q)'
      BY <1>6, <2>2 DEF InPoolOnce, HasOnce, OnceAt
    <3>5. QED
      BY <1>1, <1>3, <3>2, <3>3, <3>4, Untouched
  <2>3. QED
    BY <2>1, <2>2
<1>10. QED
  BY <1>1, <1>3, <1>7, <1>8, <1>9, IInvFromParts

LEMMA GetValueIInv ==
    ASSUME IInv, NEW p \in Pointer, GetValue(p)
    PROVE  IInv'
<1>1. /\ TypeOK /\ ScopeTypes /\ ScopeInv /\ \A q \in Pointer : Kept(q)
      /\ IsInjective(values) /\ PendingCount /\ failure # "value"
      /\ PointerInv /\ OneWayToDeletion
  BY IInvFacts
<1>2. /\ pc = "run" /\ Depth > 0 /\ refCount[p] > 0 /\ value[p] = 0
      /\ values' = Append(values, p) /\ value' = [value EXCEPT ![p] = Depth]
      /\ UNCHANGED <<state, pointerKind, refCount, ref, fromStack, cached, scopes,
                     pool, selector, pc, closing, adding, pending, alive,
                     collected, throwing, failure>>
  BY DEF GetValue, HostRuns, poolVars
<1>3. state[p] = "live" /\ ~Contains(values, p)
  BY <1>1, <1>2, DoomedFacts DEF Kept
<1>4. ScopeInv' /\ ScopeTypes'
  BY <1>1, <1>2, <1>3, ValueAppended
<1>5. Depth \in Nat
  BY <1>1, DepthType DEF ScopeTypes
<1>6. IsInjective(values)'
  BY <1>1, <1>2, <1>3, InjectiveAppend DEF TypeOK
<1>7. PendingCount'
  BY <1>1, <1>2, PendingUnchanged
<1>8. TypeOK'
  BY <1>1, <1>2, <1>4 DEF TypeOK, ScopeTypes
<1>9. \A q : Contains(values', q) <=> Contains(values, q) \/ q = p
  BY <1>1, <1>2, ContainsAppend DEF TypeOK
<1>10. \A q \in Pointer :
          /\ InPool(q)' <=> InPool(q)
          /\ InPoolOnce(q) => InPoolOnce(q)'
          /\ BeingAdded(q)' <=> BeingAdded(q)
          /\ AddedOnce(q) => AddedOnce(q)'
  BY <1>2, SamePools
<1>11. ASSUME NEW q \in Pointer PROVE Kept(q)'
  <2>1. CASE q = p
    <3>1. value'[p] # 0 /\ refCount[p] # 0 /\ Contains(values', p)
      BY <1>1, <1>2, <1>5, <1>9 DEF TypeOK
    <3>2. QED
      BY <1>1, <1>2, <1>3, <1>10, <2>1, <3>1 DEF Kept, NewRef
  <2>2. CASE q # p
    <3>1. value'[q] = value[q]
      BY <1>1, <1>2, <2>2 DEF TypeOK
    <3>2. QED
      BY <1>1, <1>2, <1>9, <1>10, <2>2, <3>1, Untouched
  <2>3. QED
    BY <2>1, <2>2
<1>12. QED
  BY <1>1, <1>2, <1>4, <1>6, <1>7, <1>8, <1>11, IInvFromParts

LEMMA CollectIInv ==
    ASSUME IInv, NEW p \in Pointer, Collect(p)
    PROVE  IInv'
<1>1. /\ TypeOK /\ ScopeTypes /\ ScopeInv /\ \A q \in Pointer : Kept(q)
      /\ IsInjective(values) /\ PendingCount /\ failure # "value"
  BY IInvFacts
<1>2. /\ state[p] = "live" /\ value[p] = 0 /\ ref[p] # "strong"
      /\ collected' = [collected EXCEPT ![p] = TRUE]
      /\ UNCHANGED <<state, pointerKind, refCount, value, ref, fromStack, cached,
                     scopes, values, pool, selector, pc, closing, adding,
                     pending, alive, throwing, failure>>
  BY DEF Collect, pointerVars, poolVars
<1>3. TypeOK'
  BY <1>1, <1>2 DEF TypeOK
<1>4. ScopeInv' /\ PendingCount'
  BY <1>1, <1>2, ScopesUnchanged, PendingUnchanged
<1>5. \A q \in Pointer :
          /\ InPool(q)' <=> InPool(q)
          /\ InPoolOnce(q) => InPoolOnce(q)'
          /\ BeingAdded(q)' <=> BeingAdded(q)
          /\ AddedOnce(q) => AddedOnce(q)'
  BY <1>2, SamePools
<1>6. ASSUME NEW q \in Pointer PROVE Kept(q)'
  <2>1. CASE q = p
    <3>1. refCount[p] > 0 => pointerKind[p] = "weak"
      BY <1>1, <1>2 DEF Kept, NewRef
    <3>2. QED
      BY <1>1, <1>2, <1>5, <2>1, <3>1 DEF Kept, NewRef
  <2>2. CASE q # p
    <3>1. collected'[q] = collected[q]
      BY <1>1, <1>2, <2>2 DEF TypeOK
    <3>2. QED
      BY <1>1, <1>2, <1>5, <3>1, Untouched
  <2>3. QED
    BY <2>1, <2>2
<1>7. QED
  BY <1>1, <1>2, <1>3, <1>4, <1>6, IInvFromParts

(* A step that only moves between scopes.                                  *)
LEMMA InstancesUnchanged ==
    ASSUME IInv, ScopeInv', ScopeTypes', selector' \in 0 .. 1,
           throwing' \in BOOLEAN,
           UNCHANGED <<pointerVars, values, pool, adding, pending, alive,
                       collected, failure>>
    PROVE  IInv'
<1>1. /\ TypeOK /\ \A q \in Pointer : Kept(q)
      /\ IsInjective(values) /\ PendingCount /\ failure # "value"
  BY IInvFacts
<1>2. /\ UNCHANGED <<state, pointerKind, refCount, value, ref, fromStack, cached,
                     values, pool, adding, pending, alive, collected, failure>>
  BY DEF pointerVars
<1>3. TypeOK'
  BY <1>1, <1>2 DEF TypeOK, ScopeTypes
<1>4. PendingCount'
  BY <1>1, <1>2, PendingUnchanged
<1>5. \A q \in Pointer :
          /\ InPool(q)' <=> InPool(q)
          /\ InPoolOnce(q) => InPoolOnce(q)'
          /\ BeingAdded(q)' <=> BeingAdded(q)
          /\ AddedOnce(q) => AddedOnce(q)'
  BY <1>2, SamePools
<1>6. \A q \in Pointer : Kept(q)'
  BY <1>1, <1>2, <1>5, Untouched
<1>7. QED
  BY <1>1, <1>2, <1>3, <1>4, <1>6, IInvFromParts

LEMMA OpenIInv ==
    ASSUME IInv, PushScope \/ OpenNodeApiScope \/ EnterCallback
    PROVE  IInv'
<1>1. ScopeTypes /\ ScopeInv /\ TypeOK
  BY IInvFacts
<1>2. Len(values) \in Nat
  BY <1>1, LenProperties DEF ScopeTypes
<1>3. \A k \in ScopeKind : OpenEntry(k) \in Scope
  BY <1>2 DEF OpenEntry, Scope
<1>4. PICK e \in Seq(Scope) :
         /\ Open(e)
         /\ \A i \in 1 .. Len(e) :
               /\ e[i].mark = Len(values)
               /\ e[i].kind = "inner" => i > 1 /\ e[i - 1].kind = "outer"
  <2>1. CASE PushScope
    <3> DEFINE e == <<OpenEntry("outer")>>
    <3>1. e \in Seq(Scope) /\ Open(e)
      BY <1>3, <2>1 DEF PushScope, ScopeKind
    <3>2. Len(e) = 1 /\ e[1].mark = Len(values) /\ e[1].kind = "outer"
      BY DEF OpenEntry
    <3> HIDE DEF e
    <3>3. \A i \in 1 .. Len(e) : i = 1
      BY <3>2
    <3>4. QED
      BY <3>1, <3>2, <3>3
  <2>2. CASE EnterCallback
    <3> DEFINE e == <<OpenEntry("callback")>>
    <3>1. e \in Seq(Scope) /\ Open(e)
      BY <1>3, <2>2 DEF EnterCallback, ScopeKind
    <3>2. Len(e) = 1 /\ e[1].mark = Len(values) /\ e[1].kind = "callback"
      BY DEF OpenEntry
    <3> HIDE DEF e
    <3>3. \A i \in 1 .. Len(e) : i = 1
      BY <3>2
    <3>4. QED
      BY <3>1, <3>2, <3>3
  <2>3. CASE OpenNodeApiScope
    <3> DEFINE e == <<OpenEntry("outer"), OpenEntry("inner")>>
    <3>1. e \in Seq(Scope) /\ Open(e)
      BY <1>3, <2>3 DEF OpenNodeApiScope, ScopeKind
    <3>2. /\ Len(e) = 2 /\ e[1].mark = Len(values) /\ e[1].kind = "outer"
          /\ e[2].mark = Len(values)
      BY DEF OpenEntry
    <3> HIDE DEF e
    <3>3. \A i \in 1 .. Len(e) : i = 1 \/ (i = 2 /\ i - 1 = 1)
      BY <3>2
    <3>4. QED
      BY <3>1, <3>2, <3>3
  <2>4. QED
    BY <2>1, <2>2, <2>3
<1>5. /\ pc = "run" /\ Len(scopes) + Len(e) <= MaxScopes
      /\ scopes' = scopes \o e
      /\ UNCHANGED <<pointerVars, values, value, pool, selector, pc, closing,
                     adding, pending, alive, collected, throwing, failure>>
  BY <1>4 DEF Open, HostRuns, poolVars, pointerVars
<1>6. ScopeInv' /\ ScopeTypes'
  BY <1>1, <1>4, <1>5, ScopesOpened
<1>7. QED
  BY <1>1, <1>5, <1>6, InstancesUnchanged DEF TypeOK

LEMMA EndPopScopes ==
    ASSUME ScopeTypes, ScopeInv, pc \in {"select", "delete"}, EndPop,
           UNCHANGED <<values, value>>
    PROVE  ScopeInv' /\ ScopeTypes'
<1>1. CASE closing.kind = "inner"
  <2>1. scopes # <<>>
    BY <1>1 DEF ScopeInv, ScopesNest
  <2>2. QED
    BY <1>1, <2>1, PopStarted DEF EndPop
<1>2. CASE closing.kind # "inner"
  BY <1>2, PopEnded DEF EndPop
<1>3. QED
  BY <1>1, <1>2

LEMMA ScopeStepIInv ==
    ASSUME IInv, PopScope \/ EndSweep \/ SelectPool \/ EndDelete
    PROVE  IInv'
<1>1. ScopeTypes /\ ScopeInv /\ TypeOK
  BY IInvFacts
<1>2. /\ UNCHANGED <<pointerVars, values, value, pool, adding, pending, alive,
                     collected, failure>>
      /\ selector' \in 0 .. 1 /\ throwing' \in BOOLEAN
  <2>1. /\ selector \in 0 .. 1 /\ throwing \in BOOLEAN
        /\ 1 - selector \in 0 .. 1
    BY <1>1 DEF TypeOK
  <2>2. EndPop => throwing' \in BOOLEAN
    BY <2>1 DEF EndPop
  <2>3. CASE PopScope
    BY <2>1, <2>3 DEF PopScope, poolVars, pointerVars
  <2>4. CASE EndSweep
    BY <2>1, <2>4 DEF EndSweep, poolVars, pointerVars
  <2>5. CASE SelectPool
    BY <2>1, <2>2, <2>5 DEF SelectPool, pointerVars
  <2>6. CASE EndDelete
    BY <2>1, <2>2, <2>6 DEF EndDelete, poolVars, pointerVars
  <2>7. QED
    BY <2>3, <2>4, <2>5, <2>6
<1>3. CASE PopScope
  BY <1>1, <1>2, <1>3, PopStarted, InstancesUnchanged DEF PopScope, HostRuns
<1>4. CASE EndSweep
  <2>1. /\ pc = "sweep" /\ Len(values) <= closing.mark /\ pc' = "select"
        /\ UNCHANGED <<scopes, values, value, closing>>
    BY <1>2, <1>4 DEF EndSweep
  <2>2. ScopeInv' /\ ScopeTypes'
    BY <1>1, <2>1, SweepEnded DEF ScopeTypes
  <2>3. QED
    BY <1>2, <2>2, InstancesUnchanged
<1>5. CASE SelectPool
  <2>1. ScopeInv' /\ ScopeTypes'
    <3>1. CASE pool[selector] = <<>>
      BY <1>1, <1>2, <1>5, <3>1, EndPopScopes DEF SelectPool
    <3>2. CASE pool[selector] # <<>>
      <4>1. pc = "select" /\ pc' = "delete" /\ UNCHANGED <<scopes, closing>>
        BY <1>5, <3>2 DEF SelectPool
      <4>2. QED
        BY <1>1, <1>2, <4>1 DEF ScopeTypes, ScopeInv, ScopesNest, MarksAscend,
                                HandlesNest, OpenBelow
    <3>3. QED
      BY <3>1, <3>2
  <2>2. QED
    BY <1>2, <2>1, InstancesUnchanged
<1>6. CASE EndDelete
  <2>1. ScopeInv' /\ ScopeTypes'
    BY <1>1, <1>2, <1>6, EndPopScopes DEF EndDelete
  <2>2. QED
    BY <1>2, <2>1, InstancesUnchanged
<1>7. QED
  BY <1>3, <1>4, <1>5, <1>6

LEMMA DeleteRuntimeIInv ==
    ASSUME IInv, DeleteRuntime
    PROVE  IInv'
<1>1. /\ TypeOK /\ ScopeTypes /\ ScopeInv /\ \A q \in Pointer : Kept(q)
      /\ IsInjective(values) /\ PendingCount /\ failure # "value"
  BY IInvFacts
<1>2. /\ alive /\ ~alive' /\ alive' \in BOOLEAN /\ pending' = pending - 1
      /\ UNCHANGED <<state, pointerKind, refCount, value, ref, fromStack, cached,
                     scopes, values, pool, selector, pc, closing, adding,
                     collected, throwing, failure>>
  BY DEF DeleteRuntime, HostRuns, pointerVars, poolVars
<1>3. PendingCount'
  <2>1. Cardinality(LiveSet) \in Nat /\ pending = Cardinality(LiveSet) + 1
    BY <1>1, <1>2, PendingCountType DEF PendingCount
  <2>2. LiveSet' = LiveSet
    BY <1>2 DEF LiveSet
  <2>3. QED
    BY <1>1, <1>2, <2>1, <2>2 DEF PendingCount
<1>4. pending' \in Nat
  <2>1. Cardinality(LiveSet) \in Nat /\ pending = Cardinality(LiveSet) + 1
    BY <1>1, <1>2, PendingCountType DEF PendingCount
  <2>2. QED
    BY <1>2, <2>1
<1>5. TypeOK'
  BY <1>1, <1>2, <1>4 DEF TypeOK
<1>6. ScopeInv'
  BY <1>1, <1>2, ScopesUnchanged
<1>7. \A q \in Pointer :
          /\ InPool(q)' <=> InPool(q)
          /\ InPoolOnce(q) => InPoolOnce(q)'
          /\ BeingAdded(q)' <=> BeingAdded(q)
          /\ AddedOnce(q) => AddedOnce(q)'
  BY <1>2, SamePools
<1>8. \A q \in Pointer : Kept(q)'
  BY <1>1, <1>2, <1>7, Untouched
<1>9. QED
  BY <1>1, <1>2, <1>3, <1>5, <1>6, <1>8, IInvFromParts

(* One entry of stackValues_ is removed by the scope it was set in: the    *)
(* instance goes if its count had come to zero before, and otherwise a     *)
(* reference replaces the handle.                                          *)
LEMMA DeleteStackValueIInv ==
    ASSUME IInv, DeleteStackValue
    PROVE  IInv'
<1>1. /\ TypeOK /\ ScopeTypes /\ ScopeInv /\ \A q \in Pointer : Kept(q)
      /\ IsInjective(values) /\ PendingCount /\ failure # "value"
      /\ PointerInv /\ OneWayToDeletion
  BY IInvFacts
<1>2. /\ pc = "sweep" /\ Len(values) > closing.mark
      /\ UNCHANGED <<pointerKind, refCount, fromStack, cached, scopes, pool,
                     selector, pc, closing, adding, alive, collected, throwing>>
  BY DEF DeleteStackValue, Sweeping, poolVars
<1>3. closing.mark \in Nat /\ closing.mark + 1 \in 1 .. Len(values)
  <2>1. Len(values) \in Nat /\ closing \in Scope
    BY <1>1, <1>2, LenProperties DEF ScopeTypes, ScopeInv, ScopesNest
  <2>2. QED
    BY <1>2, <2>1 DEF Scope
<1>4. PICK p : p = values[closing.mark + 1]
  OBVIOUS
<1>5. /\ values' = RemoveAt(values, closing.mark + 1)
      /\ failure' \in {IF value[p] = 0 THEN "value" ELSE "none", "freed"}
      /\ fromStack[p] => /\ state' = [state EXCEPT ![p] = "deleted"]
                         /\ pending' = pending - 1
                         /\ UNCHANGED <<ref, value>>
      /\ ~fromStack[p] =>
            /\ ref' = IF UsedByJsiPointer(p) /\ ref[p] = "none"
                      THEN [ref EXCEPT ![p] = NewRef(pointerKind[p])] ELSE ref
            /\ value' = [value EXCEPT ![p] = 0]
            /\ UNCHANGED <<state, pending>>
  BY <1>4 DEF DeleteStackValue, Swept
<1>6. p \in Pointer /\ Contains(values, p)
  <2>1. p \in Pointer
    BY <1>1, <1>3, <1>4, ElementOfSeq DEF TypeOK
  <2>2. QED
    BY <1>3, <1>4, <2>1 DEF Contains
<1>7. /\ state[p] = "live" /\ value[p] # 0
      /\ failure' # "value" /\ failure' \in {"none", "freed"}
  BY <1>1, <1>5, <1>6, EntryFacts
<1>8. /\ IsInjective(values')
      /\ \A q : Contains(values', q) <=> Contains(values, q) /\ q # p
  <2>1. /\ IsInjective(RemoveAt(values, closing.mark + 1))
        /\ \A q : Contains(RemoveAt(values, closing.mark + 1), q)
                  <=> Contains(values, q) /\ q # values[closing.mark + 1]
    BY <1>1, <1>3, InjectiveRemoveAt DEF TypeOK
  <2>2. QED
    BY <1>4, <1>5, <2>1
<1>9. /\ value' \in [Pointer -> 0 .. MaxScopes]
      /\ \A q \in Pointer : q # p => value'[q] = value[q]
  <2>1. 0 \in 0 .. MaxScopes
    BY MaxScopesAssumption
  <2>2. value \in [Pointer -> 0 .. MaxScopes]
    BY <1>1 DEF TypeOK
  <2>3. value' = value \/ value' = [value EXCEPT ![p] = 0]
    BY <1>5
  <2>4. QED
    BY <1>6, <2>1, <2>2, <2>3
<1>10. ScopeInv' /\ ScopeTypes'
  BY <1>1, <1>2, <1>4, <1>5, <1>9, ValueSwept
<1>11. PendingCount'
  <2>1. CASE fromStack[p]
    BY <1>1, <1>2, <1>5, <1>6, <1>7, <2>1, PendingRemoved DEF TypeOK
  <2>2. CASE ~fromStack[p]
    BY <1>1, <1>2, <1>5, <2>2, PendingUnchanged
  <2>3. QED
    BY <2>1, <2>2
<1>12. pending' \in Nat
  <2>1. PICK n \in Nat : pending' = n + (IF alive' THEN 1 ELSE 0)
    BY <1>11, FS_CardinalityType DEF PendingCount
  <2>2. QED
    BY <2>1
<1>13. /\ state' \in [Pointer -> {"unborn", "live", "deleted"}]
       /\ ref' \in [Pointer -> {"none", "strong", "weak"}]
  <2>1. NewRef(pointerKind[p]) \in {"none", "strong", "weak"}
    BY DEF NewRef
  <2>2. QED
    BY <1>1, <1>5, <1>6, <2>1 DEF TypeOK
<1>14. TypeOK'
  BY <1>1, <1>2, <1>7, <1>10, <1>12, <1>13 DEF TypeOK, ScopeTypes
<1>15. \A q \in Pointer :
          /\ InPool(q)' <=> InPool(q)
          /\ InPoolOnce(q) => InPoolOnce(q)'
          /\ BeingAdded(q)' <=> BeingAdded(q)
          /\ AddedOnce(q) => AddedOnce(q)'
  BY <1>2, SamePools
<1>16. ASSUME NEW q \in Pointer PROVE Kept(q)'
  <2>1. CASE q = p /\ fromStack[p]
    <3>1. refCount[p] = 0 /\ ~InPool(p) /\ ~BeingAdded(p)
      BY <1>1, <1>6, <1>7, <2>1, DoomedFacts
    <3>2. state'[p] = "deleted"
      BY <1>1, <1>5, <1>6, <2>1 DEF TypeOK
    <3>3. QED
      BY <1>2, <1>8, <1>15, <2>1, <3>1, <3>2 DEF Kept
  <2>2. CASE q = p /\ ~fromStack[p]
    <3>1. /\ state'[p] = "live" /\ value'[p] = 0
          /\ ~Contains(values', p) /\ ~fromStack'[p]
      BY <1>1, <1>2, <1>5, <1>6, <1>7, <1>8, <2>2 DEF TypeOK
    <3>2. ref[p] \in {"none", NewRef(pointerKind[p])}
      BY <1>1, <1>6, <1>7 DEF Kept
    <3>3. /\ ref'[p] \in {"none", NewRef(pointerKind[p])}
          /\ refCount[p] > 0 => ref'[p] = NewRef(pointerKind[p])
      <4>1. NewRef(pointerKind[p]) # "none"
        BY DEF NewRef
      <4>2. QED
        BY <1>1, <1>5, <1>6, <2>2, <3>2, <4>1 DEF TypeOK, UsedByJsiPointer
    <3>4. pointerKind'[p] = pointerKind[p]
      BY <1>2
    <3>5. QED
      BY <1>1, <1>2, <1>7, <1>15, <2>2, <3>1, <3>3, <3>4 DEF Kept
  <2>3. CASE q # p
    <3>1. state'[q] = state[q] /\ ref'[q] = ref[q] /\ value'[q] = value[q]
      BY <1>1, <1>5, <1>6, <1>9, <2>3 DEF TypeOK
    <3>2. Contains(values', q) <=> Contains(values, q)
      BY <1>8, <2>3
    <3>3. QED
      BY <1>1, <1>2, <1>15, <3>1, <3>2, Untouched
  <2>4. QED
    BY <2>1, <2>2, <2>3
<1>17. QED
  BY <1>7, <1>8, <1>10, <1>11, <1>14, <1>16, IInvFromParts

(* The process ends in createNodeApiRef.                                   *)
LEMMA DeleteStackValueCrashesIInv ==
    ASSUME IInv, DeleteStackValueCrashes
    PROVE  IInv'
<1>1. /\ TypeOK /\ ScopeTypes /\ ScopeInv /\ \A q \in Pointer : Kept(q)
      /\ IsInjective(values) /\ PendingCount
  BY IInvFacts
<1>2. /\ failure' = "reference"
      /\ UNCHANGED <<state, pointerKind, refCount, value, ref, fromStack, cached,
                     scopes, values, pool, selector, pc, closing, adding,
                     pending, alive, collected, throwing>>
  BY DEF DeleteStackValueCrashes, pointerVars, poolVars
<1>3. TypeOK'
  BY <1>1, <1>2 DEF TypeOK
<1>4. ScopeInv' /\ PendingCount'
  BY <1>1, <1>2, ScopesUnchanged, PendingUnchanged
<1>5. \A q \in Pointer :
          /\ InPool(q)' <=> InPool(q)
          /\ InPoolOnce(q) => InPoolOnce(q)'
          /\ BeingAdded(q)' <=> BeingAdded(q)
          /\ AddedOnce(q) => AddedOnce(q)'
  BY <1>2, SamePools
<1>6. \A q \in Pointer : Kept(q)'
  BY <1>1, <1>2, <1>5, Untouched
<1>7. QED
  BY <1>1, <1>2, <1>3, <1>4, <1>6, IInvFromParts

(* One pending deletion is carried out: the instance goes, unless it still *)
(* is an entry of stackValues_, which then deletes it.                     *)
LEMMA DeleteNodeApiRefIInv ==
    ASSUME IInv, DeleteNodeApiRef
    PROVE  IInv'
<1>1. /\ TypeOK /\ ScopeTypes /\ ScopeInv /\ \A q \in Pointer : Kept(q)
      /\ IsInjective(values) /\ PendingCount /\ failure # "value"
      /\ PointerInv /\ OneWayToDeletion
  BY IInvFacts
<1>2. PICK o, p : /\ o \in 0 .. 1 /\ o = 1 - selector
                  /\ p = Head(pool[o])
  BY <1>1 DEF TypeOK
<1>3. /\ pool[o] # <<>> /\ pool' = [pool EXCEPT ![o] = Tail(@)]
      /\ ref' = [ref EXCEPT ![p] = "none"]
      /\ value[p] # 0 => /\ fromStack' = [fromStack EXCEPT ![p] = TRUE]
                         /\ UNCHANGED <<state, pending>>
      /\ value[p] = 0 => /\ state' = [state EXCEPT ![p] = "deleted"]
                         /\ pending' = pending - 1
                         /\ UNCHANGED fromStack
      /\ UNCHANGED <<pointerKind, refCount, value, cached, scopes, values, selector,
                     pc, closing, adding, alive, collected, throwing, failure>>
  BY <1>2 DEF DeleteNodeApiRef
<1>4. p \in Pointer /\ InPool(p)
  <2>1. /\ pool[o] \in Seq(Pointer) /\ Len(pool[o]) \in Nat \ {0}
        /\ p = pool[o][1]
    BY <1>1, <1>2, <1>3, EmptySeq, HeadTailProperties DEF TypeOK
  <2>2. QED
    BY <1>2, <2>1, ElementOfSeq DEF InPool, Contains
<1>5. /\ state[p] = "live" /\ refCount[p] = 0 /\ InPoolOnce(p)
      /\ ~BeingAdded(p) /\ ~fromStack[p]
  BY <1>1, <1>4, DoomedFacts
<1>6. /\ pool' \in [0 .. 1 -> Seq(Pointer)]
      /\ ~Has(pool', p)
      /\ \A q \in Pointer : q # p => /\ Has(pool', q) <=> Has(pool, q)
                                     /\ HasOnce(pool, q) => HasOnce(pool', q)
  <2>1. pool \in [0 .. 1 -> Seq(Pointer)] /\ HasOnce(pool, p)
    BY <1>1, <1>5, PoolPredicates DEF TypeOK
  <2>2. QED
    BY <1>2, <1>3, <1>4, <2>1, PoolPopped
<1>7. ScopeInv'
  BY <1>1, <1>3, ScopesUnchanged
<1>8. PendingCount'
  <2>1. CASE value[p] = 0
    BY <1>1, <1>3, <1>4, <1>5, <2>1, PendingRemoved DEF TypeOK
  <2>2. CASE value[p] # 0
    BY <1>1, <1>3, <2>2, PendingUnchanged
  <2>3. QED
    BY <2>1, <2>2
<1>9. pending' \in Nat
  <2>1. PICK n \in Nat : pending' = n + (IF alive' THEN 1 ELSE 0)
    BY <1>8, FS_CardinalityType DEF PendingCount
  <2>2. QED
    BY <2>1
<1>10. TypeOK'
  BY <1>1, <1>3, <1>4, <1>6, <1>9 DEF TypeOK
<1>11. ASSUME NEW q \in Pointer PROVE Kept(q)'
  <2>1. /\ BeingAdded(q)' <=> BeingAdded(q)
        /\ AddedOnce(q) => AddedOnce(q)'
    BY <1>3 DEF BeingAdded, AddedOnce
  <2>2. CASE q = p /\ value[p] = 0
    <3>1. state'[p] = "deleted"
      BY <1>1, <1>3, <1>4, <2>2 DEF TypeOK
    <3>2. ~InPool(p)' /\ ~Contains(values', p)
      BY <1>1, <1>3, <1>4, <1>5, <1>6, <2>2 DEF InPool, Has, Kept
    <3>3. QED
      BY <1>3, <1>5, <2>1, <2>2, <3>1, <3>2 DEF Kept
  <2>3. CASE q = p /\ value[p] # 0
    <3>1. /\ fromStack'[p] /\ state'[p] = "live" /\ ref'[p] = "none"
      BY <1>1, <1>3, <1>4, <1>5, <2>3 DEF TypeOK
    <3>2. ~InPool(p)'
      BY <1>6 DEF InPool, Has
    <3>3. Contains(values', p)
      BY <1>1, <1>3, <1>4, <1>5, <2>3 DEF Kept
    <3>4. refCount'[p] = 0 /\ ~(refCount'[p] > 0) /\ value'[p] # 0
      BY <1>3, <1>5, <2>3
    <3>5. QED
      BY <1>5, <2>1, <2>3, <3>1, <3>2, <3>3, <3>4 DEF Kept
  <2>4. CASE q # p
    <3>1. /\ state'[q] = state[q] /\ ref'[q] = ref[q]
          /\ fromStack'[q] = fromStack[q]
      BY <1>1, <1>3, <1>4, <2>4 DEF TypeOK
    <3>2. InPool(q)' <=> InPool(q)
      BY <1>6, <2>4 DEF InPool, Has
    <3>3. InPoolOnce(q) => InPoolOnce(q)'
      BY <1>6, <2>4 DEF InPoolOnce, HasOnce, OnceAt
    <3>4. QED
      BY <1>1, <1>3, <2>1, <3>1, <3>2, <3>3, Untouched
  <2>5. QED
    BY <2>2, <2>3, <2>4
<1>12. QED
  BY <1>1, <1>3, <1>7, <1>8, <1>10, <1>11, IInvFromParts

-----------------------------------------------------------------------------
(* The invariant, and what follows from it.                                *)

LEMMA InitIInv == Init => IInv
<1>1. SUFFICES ASSUME Init PROVE IInv
  OBVIOUS
<1>2. TypeOK
  <2>1. 0 \in 0 .. MaxCount /\ 0 \in 0 .. MaxScopes
    BY MaxCountAssumption, MaxScopesAssumption
  <2>2. \A S : <<>> \in Seq(S)
    OBVIOUS
  <2>3. /\ state \in [Pointer -> {"unborn", "live", "deleted"}]
        /\ pointerKind \in [Pointer -> PointerKind]
        /\ refCount \in [Pointer -> 0 .. MaxCount]
        /\ value \in [Pointer -> 0 .. MaxScopes]
        /\ ref \in [Pointer -> {"none", "strong", "weak"}]
        /\ fromStack \in [Pointer -> BOOLEAN]
        /\ collected \in [Pointer -> BOOLEAN]
    BY <1>1, <2>1 DEF Init, PointerKind
  <2>4. /\ scopes \in Seq(Scope) /\ values \in Seq(Pointer)
        /\ pool \in [0 .. 1 -> Seq(Pointer)]
        /\ adding \in [Thread -> Pointer \cup {NoPointer}]
    BY <1>1, <2>2 DEF Init
  <2>5. QED
    BY <1>1, <2>3, <2>4 DEF Init, TypeOK
<1>3. Len(scopes) = 0 /\ Len(values) = 0 /\ \A i \in 0 .. 1 : Len(pool[i]) = 0
  BY <1>1 DEF Init
<1>4. ScopeInv
  BY <1>1, <1>3, MaxScopesAssumption
  DEF Init, ScopeInv, ScopesNest, MarksAscend, HandlesNest, NoScope
<1>5. \A p \in Pointer : ~Contains(values, p) /\ ~InPool(p) /\ ~BeingAdded(p)
  BY <1>1, <1>3, NoPointerAssumption DEF Init, Contains, InPool, BeingAdded
<1>6. PointerInv /\ OneWayToDeletion
  BY <1>1, <1>5 DEF Init, PointerInv, OneWayToDeletion
<1>7. IsInjective(values) /\ failure # "value"
  BY <1>1 DEF Init, IsInjective
<1>8. PendingCount
  <2>1. LiveSet = {}
    BY <1>1 DEF Init, LiveSet
  <2>2. QED
    BY <1>1, <2>1, FS_EmptySet DEF Init, PendingCount
<1>9. QED
  BY <1>2, <1>4, <1>6, <1>7, <1>8 DEF IInv

LEMMA NextIInv == IInv /\ [Next]_vars => IInv'
<1>1. SUFFICES ASSUME IInv, [Next]_vars PROVE IInv'
  OBVIOUS
<1>2. cached \subseteq Pointer
  BY <1>1 DEF IInv, TypeOK
<1>3. ASSUME NEW p \in Pointer,
             \/ MakeJsiPointer(p) \/ CreateWeakObject(p)
             \/ CreatePropNameID(p) \/ CacheValue(p)
      PROVE  IInv'
  <2>1. \E k \in PointerKind, n \in 1 .. 2 :
           \E r \in {"none", NewRef(k)} : Make(p, k, n, r)
    <3>1. CASE MakeJsiPointer(p)
      <4>1. PICK k \in {"object", "primitive"} : Make(p, k, 1, "none")
        BY <3>1 DEF MakeJsiPointer
      <4>2. k \in PointerKind /\ 1 \in 1 .. 2
        BY DEF PointerKind
      <4>3. QED
        BY <4>1, <4>2
    <3>2. CASE CreateWeakObject(p)
      <4>1. "weak" \in PointerKind /\ 1 \in 1 .. 2
        BY DEF PointerKind
      <4>2. QED
        BY <3>2, <4>1 DEF CreateWeakObject
    <3>3. CASE CreatePropNameID(p)
      <4>1. "primitive" \in PointerKind /\ 2 \in 1 .. 2
        BY DEF PointerKind
      <4>2. QED
        BY <3>3, <4>1 DEF CreatePropNameID, MakeNodeApiRef
    <3>4. CASE CacheValue(p)
      <4>1. PICK k \in {"object", "primitive"} : Make(p, k, 1, NewRef(k))
        BY <3>4 DEF CacheValue, MakeNodeApiRef
      <4>2. k \in PointerKind /\ 1 \in 1 .. 2
        BY DEF PointerKind
      <4>3. QED
        BY <4>1, <4>2
    <3>5. QED
      BY <1>3, <3>1, <3>2, <3>3, <3>4
  <2>2. cached' \subseteq Pointer
    BY <1>2, <1>3
    DEF MakeJsiPointer, CreateWeakObject, CreatePropNameID, CacheValue,
        MakeNodeApiRef
  <2>3. QED
    BY <1>1, <2>1, <2>2, MakeIInv
<1>4. CASE HostStep
  BY <1>1, <1>3, <1>4, CloneIInv, GetValueIInv, OpenIInv, DeleteRuntimeIInv
  DEF HostStep
<1>5. CASE PopStep
  BY <1>1, <1>5, ScopeStepIInv, DeleteStackValueIInv, DeleteNodeApiRefIInv,
     DeleteStackValueCrashesIInv
  DEF PopStep
<1>6. ASSUME NEW t \in Thread, AddPointerValueToDelete(t) PROVE IInv'
  BY <1>1, <1>6, AddPointerValueToDeleteIInv
<1>7. ASSUME NEW t \in Thread, NEW p \in Pointer, Release(t, p) PROVE IInv'
  BY <1>1, <1>7, ReleaseIInv
<1>8. ASSUME NEW p \in Pointer, Collect(p) PROVE IInv'
  BY <1>1, <1>8, CollectIInv
<1>9. CASE UNCHANGED vars
  <2>1. /\ ScopeTypes /\ ScopeInv /\ TypeOK
        /\ UNCHANGED <<pointerVars, value, values, scopes, pc, closing, pool,
                       selector, adding, pending, alive, collected, throwing, failure>>
    BY <1>1, <1>9, IInvFacts DEF vars, pointerVars, poolVars
  <2>2. ScopeInv' /\ ScopeTypes'
    BY <2>1, ScopesUnchanged DEF ScopeTypes
  <2>3. QED
    BY <1>1, <2>1, <2>2, InstancesUnchanged DEF TypeOK
<1>10. QED
  BY <1>1, <1>4, <1>5, <1>6, <1>7, <1>8, <1>9 DEF Next

LEMMA Invariance == Spec => []IInv
BY InitIInv, NextIInv, PTL DEF Spec

(* The value of a jsi::Pointer that exists is still there, whichever scope *)
(* ended and whichever thread released another reference: createNodeApiRef *)
(* comes before the handle goes (NodeApiJsiRuntime.cpp, deleteStackValue). *)
THEOREM PointerKeepsValueHolds == Spec => []PointerKeepsValue
<1>1. IInv => PointerKeepsValue
  <2>1. SUFFICES ASSUME IInv, NEW p \in Pointer, refCount[p] > 0
                 PROVE  /\ state[p] = "live"
                        /\ value[p] # 0 \/ ref[p] # "none"
                        /\ pointerKind[p] # "weak" => ~collected[p]
    BY DEF PointerKeepsValue
  <2>2. state[p] = "live"
    BY <2>1, IInvFacts, DoomedFacts
  <2>3. QED
    BY <2>1, <2>2 DEF IInv, PointerInv, NewRef
<1>2. QED
  BY <1>1, Invariance, PTL

(* A napi_value is used only while the handle scope it was made in is      *)
(* open, and only entries of stackValues_ have one (the scopes of          *)
(* NodeApiJsiRuntime.cpp: NodeApiScope, pushScope, the callbacks); the     *)
(* check of deleteStackValue that value_ is not null never fails.          *)
THEOREM HandleInOpenScopeHolds == Spec => []HandleInOpenScope
<1>1. IInv => HandleInOpenScope
  <2>1. SUFFICES ASSUME IInv, NEW p \in Pointer, state[p] = "live"
                 PROVE  /\ value[p] # 0 <=> Contains(values, p)
                        /\ value[p] <= Depth
    BY DEF HandleInOpenScope, IInv
  <2>2. value[p] # 0 <=> Contains(values, p)
    BY <2>1 DEF IInv, PointerInv
  <2>3. CASE value[p] = 0
    <3>1. Depth \in Nat
      BY <2>1, DepthType DEF IInv, TypeOK
    <3>2. QED
      BY <2>2, <2>3, <3>1
  <2>4. CASE value[p] # 0
    <3>1. PICK k \in 1 .. Len(values) : values[k] = p
      BY <2>2, <2>4 DEF Contains
    <3>2. k \in Nat /\ scopes \in Seq(Scope)
      BY <2>1 DEF IInv, TypeOK
    <3>3. OpenBelow(k) \in Nat /\ OpenBelow(k) <= Depth /\ Depth \in Nat
      BY <3>2, DepthFacts
    <3>4. value[p] \in 1 .. OpenBelow(k)
      BY <2>1, <3>1 DEF IInv, ScopeInv, HandlesNest
    <3>5. QED
      BY <2>2, <3>3, <3>4
  <2>5. QED
    BY <2>2, <2>3, <2>4
<1>2. QED
  BY <1>1, Invariance, PTL

(* An instance nobody refers to has exactly one way to its deletion, is    *)
(* deleted by its last owner, and a thread that drops the last reference   *)
(* finds the pending deletions, for any number of threads                  *)
(* (NodeApiJsiRuntime.cpp:603-660, 2076-2170).                             *)
THEOREM DeletedOnceHolds == Spec => []DeletedOnce
<1>1. IInv => DeletedOnce
  <2>1. SUFFICES ASSUME IInv PROVE DeletedOnce
    OBVIOUS
  <2>2. DeletedByLastOwner
    BY <2>1 DEF IInv, PointerInv, DeletedByLastOwner
  <2>3. ASSUME NEW t \in Thread, adding[t] # NoPointer PROVE pending > 0
    <3>1. PICK p \in Pointer : adding[t] = p
      BY <2>1, <2>3 DEF IInv, TypeOK
    <3>2. state[p] = "live"
      BY <2>1, <3>1, IInvFacts, DoomedFacts DEF BeingAdded
    <3>3. LiveSet # {}
      BY <3>2 DEF LiveSet
    <3>4. /\ Cardinality(LiveSet) > 0 /\ Cardinality(LiveSet) \in Nat
          /\ pending = Cardinality(LiveSet) + (IF alive THEN 1 ELSE 0)
      BY <2>1, <3>3, PendingCountType DEF IInv, PendingCount
    <3>5. QED
      BY <3>4
  <2>4. QED
    BY <2>1, <2>2, <2>3
    DEF IInv, DeletedOnce, PendingDeletionsOutlivePointers
<1>2. QED
  BY <1>1, Invariance, PTL

-----------------------------------------------------------------------------
(***************************************************************************)
(* JsiRuntime: the host objects of the runtimes of a thread, the isolate   *)
(* they share, and the exceptions between JavaScript and C++.              *)
(***************************************************************************)
HostKind == {"object", "function"}

RuntimeRec == [phase : {"none", "live", "closing", "dead"}, isolate : Nat,
               allocator : BOOLEAN]
ProxyRec == [kind : Kind, rt : Runtime \cup {None}, live : BOOLEAN,
             heap : BOOLEAN, held : SUBSET (Proxy \cup {App}), weak : BOOLEAN,
             releases : Nat]
FrameRec == [kind : {"js", "ignores", "host", "drain", "task"}, rt : Runtime \cup {None},
             proxy : Proxy \cup {None}, saved : {"none", "js", "cpp"}]

\* The variables in three groups: the isolate and its runtimes, the proxies
\* and their trackers, the calls.
IsoTypes ==
    /\ platform \in {"none", "live", "disposed"}
    /\ usage \in Nat
    /\ isolate \in [no : Nat, live : BOOLEAN, explicit : BOOLEAN]
    /\ rt \in [Runtime -> RuntimeRec]
    /\ agent \in [slot : Nat, holders : SUBSET Runtime,
                  contexts : SUBSET Runtime]
HostTypes ==
    /\ list \in [Runtime -> Seq(Proxy)]
    /\ px \in [Proxy -> ProxyRec]
RunTypes ==
    /\ process \in Ending \cup {"running"}
    /\ stack \in Seq(FrameRec)
    /\ exc \in {"none", "js", "cpp"}
    /\ micro \in Seq(Runtime)

Created == {r \in Runtime : rt[r].phase # "none"}

\* The counter counts the runtimes that use the isolate, one isolate was made
\* per runtime at most, and only a runtime that was created has an allocator.
IsolateCounted ==
    /\ usage = Cardinality(InUse)
    /\ isolate.no <= Cardinality(Created)
    /\ \A r \in Runtime : rt[r].phase = "none" => ~rt[r].allocator

\* The agent belongs to the runtimes that use the isolate.
AgentHeld ==
    /\ agent.holders = InUse
    /\ agent.contexts = Phase("live")
    /\ agent.slot # 0 => InUse # {}

IsoInv ==
    /\ IsoTypes
    /\ IsolateCounted
    /\ IsolateServesItsRuntimes
    /\ AgentHeld

\* A proxy nothing was made of.
Unused(p) ==
    /\ px[p].kind = "plain"
    /\ ~px[p].live /\ ~px[p].weak
    /\ px[p].held = {}
    /\ px[p].releases = 0

\* What the holders of a pointer are: the application, which has none of a
\* runtime that is going, and host objects that were not released.
HoldersThere(p) ==
    /\ App \in px[p].held => px[p].rt \in Phase("live")
    /\ \A q \in Proxy : q \in px[p].held =>
         px[q].kind \in HostKind /\ px[q].releases = 0

\* A weak handle belongs to what was not released yet.
WeakNotReleased(p) ==
    /\ px[p].kind = "plain" => ~px[p].weak /\ px[p].releases = 0
    /\ px[p].weak => px[p].releases = 0
    /\ px[p].releases <= 1

\* The list has the tracker of a host object or function until the loop of the
\* destructor has come to it.
TrackedUntilReset(p) ==
    px[p].kind \in HostKind =>
        /\ px[p].rt \in Runtime
        /\ \/ Contains(list[px[p].rt], p)
           \/ px[p].releases = 1 /\ rt[px[p].rt].phase \in {"closing", "dead"}
        /\ px[p].live /\ px[p].releases = 1 =>
             rt[px[p].rt].phase \in {"closing", "dead"}

ProxyOK(p) ==
    /\ px[p].rt = None => Unused(p)
    /\ HoldersThere(p)
    /\ WeakNotReleased(p)
    /\ TrackedUntilReset(p)

\* A list has trackers of its runtime, and none after the destructor.
ListOK(r) ==
    /\ \A i \in 1 .. Len(list[r]) :
         px[list[r][i]].rt = r /\ px[list[r][i]].kind \in HostKind
    /\ rt[r].phase \in {"none", "dead"} => list[r] = <<>>

HostInv ==
    /\ HostTypes
    /\ \A p \in Proxy : ProxyOK(p)
    /\ \A r \in Runtime : ListOK(r)

\* C++ calls JavaScript or starts a checkpoint, JavaScript calls the host, and
\* a checkpoint runs microtasks.
Nested(s) ==
    \A i \in 1 .. Len(s) :
        /\ s[i].kind \in {"js", "ignores", "drain"} => i = 1 \/ s[i - 1].kind = "host"
        /\ s[i].kind = "host" => i > 1 /\ s[i - 1].kind \in {"js", "ignores", "task"}
        /\ s[i].kind = "task" => i > 1 /\ s[i - 1].kind = "drain"

\* A C++ exception is on its way through C++, and none is while a checkpoint
\* looks for a microtask.
ExceptionInPlace(s, e) ==
    s # <<>> =>
        /\ e = "cpp" => s[Len(s)].kind = "host"
        /\ s[Len(s)].kind = "drain" => e = "none"

RunInv == RunTypes /\ Nested(stack) /\ ExceptionInPlace(stack, exc)

\* All of it, and no weak callback met a freed tracker.
JsiInv ==
    /\ IsoInv
    /\ HostInv
    /\ RunInv
    /\ process # "tracker"

-----------------------------------------------------------------------------
(* The isolate and its runtimes.                                           *)

(* Sets of runtimes are finite.                                            *)
LEMMA RuntimesFinite ==
    ASSUME NEW S \in SUBSET Runtime
    PROVE  IsFiniteSet(S) /\ Cardinality(S) \in Nat
                          /\ Cardinality(S) <= Cardinality(Runtime)
BY FiniteAssumption, FS_Subset, FS_CardinalityType

(* A runtime more, or less.                                                *)
LEMMA OneMore ==
    ASSUME NEW S \in SUBSET Runtime, NEW r \in Runtime \ S
    PROVE  Cardinality(S \cup {r}) = Cardinality(S) + 1
BY RuntimesFinite, FS_AddElement

(* One runtime less: the others are counted as before.                     *)
LEMMA OneLess ==
    ASSUME NEW S \in SUBSET Runtime, NEW r \in S
    PROVE  /\ Cardinality(S \ {r}) = Cardinality(S) - 1
           /\ Cardinality(S) = 1 <=> S = {r}
<1>1. /\ S \ {r} \in SUBSET Runtime /\ r \in Runtime \ (S \ {r})
      /\ (S \ {r}) \cup {r} = S
  OBVIOUS
<1>2. Cardinality(S) = Cardinality(S \ {r}) + 1
  BY <1>1, OneMore
<1>3. Cardinality(S \ {r}) \in Nat /\ Cardinality(S) \in Nat
  BY <1>1, RuntimesFinite
<1>4. Cardinality(S \ {r}) = 0 <=> S \ {r} = {}
  BY <1>1, RuntimesFinite, FS_EmptySet
<1>5. QED
  BY <1>2, <1>3, <1>4

(* The count of isolate_usage_ is zero when no runtime is in use, and only *)
(* then.                                                                   *)
LEMMA NoneInUse == IsoInv => (usage = 0 <=> InUse = {})
<1>1. InUse \in SUBSET Runtime
  BY DEF InUse, Phase
<1>2. QED
  BY <1>1, RuntimesFinite, FS_EmptySet DEF IsoInv, IsolateCounted

(* No runtime was made yet.                                                *)
LEMMA IsoInit == JsiInit => IsoInv
<1> SUFFICES ASSUME JsiInit PROVE IsoInv
  OBVIOUS
<1>1. IsoTypes
  BY DEF JsiInit, IsoTypes, RuntimeRec
<1>2. Phase("live") = {} /\ InUse = {} /\ Created = {}
  BY DEF JsiInit, Phase, InUse, Created
<1>3. Cardinality({}) = 0
  BY FS_EmptySet
<1>4. QED
  BY <1>1, <1>2, <1>3 DEF JsiInit, IsoInv, IsolateCounted,
     IsolateServesItsRuntimes, AgentHeld

(* Steps that leave the isolates and the platform alone.                   *)
LEMMA IsoQuiet == IsoInv /\ UNCHANGED isoVars => IsoInv'
BY DEF isoVars, IsoInv, IsoTypes, IsolateCounted, IsolateServesItsRuntimes,
       AgentHeld, InUse, Phase, Created

(* A new runtime counts itself, makes the isolate or uses the one there is, *)
(* and holds the agent.                                                    *)
LEMMA IsoCreate ==
    ASSUME IsoInv, NEW r \in Runtime, NEW e \in BOOLEAN, CreateRuntime(r, e)
    PROVE  IsoInv'
<1>1. CASE platform = "disposed"
  BY <1>1, IsoQuiet DEF CreateRuntime, InitializePlatform, isoVars
<1>2. CASE platform # "disposed"
  <2> PICK n \in Nat : n = IsolateNumber
    BY DEF IsoInv, IsoTypes, IsolateNumber
  <2> PICK a \in BOOLEAN : a = (usage = 0)
    OBVIOUS
  <2>0. /\ rt' = [rt EXCEPT ![r] = [phase |-> "live", isolate |-> n,
                                    allocator |-> a]]
        /\ usage' = usage + 1
        /\ isolate'.no = n /\ isolate'.live = TRUE
        /\ isolate' \in [no : Nat, live : BOOLEAN, explicit : BOOLEAN]
        /\ agent' = [slot |-> n, holders |-> agent.holders \cup {r},
                     contexts |-> agent.contexts \cup {r}]
        /\ platform' \in {"none", "live", "disposed"}
        /\ rt[r].phase = "none"
    <3> DEFINE x == e \/ (~CreateNewIsolate /\ isolate.explicit)
    <3>0. isolate' = [no |-> n, live |-> TRUE, explicit |-> x]
      BY <1>2, Zenon DEF CreateRuntime
    <3>1. x \in BOOLEAN
      BY Zenon
    <3> HIDE DEF x
    <3>2. /\ isolate'.no = n /\ isolate'.live = TRUE
          /\ isolate' \in [no : Nat, live : BOOLEAN, explicit : BOOLEAN]
          /\ usage' = usage + 1
          /\ agent' = [slot |-> n, holders |-> agent.holders \cup {r},
                       contexts |-> agent.contexts \cup {r}]
          /\ rt[r].phase = "none"
      BY <1>2, <3>0, <3>1 DEF CreateRuntime, Counted
    <3>3. rt' = [rt EXCEPT ![r] = [phase |-> "live", isolate |-> n,
                                   allocator |-> a]]
      BY <1>2 DEF CreateRuntime, CreateNewIsolate
    <3>4. platform' \in {"none", "live", "disposed"}
      BY <1>2 DEF CreateRuntime, InitializePlatform, IsoInv, IsoTypes
    <3>5. QED
      BY <3>2, <3>3, <3>4
  <2>1. IsoTypes'
    BY <2>0 DEF IsoInv, IsoTypes, RuntimeRec
  <2>2. /\ InUse \in SUBSET Runtime /\ r \in Runtime \ InUse
        /\ Created \in SUBSET Runtime /\ r \in Runtime \ Created
    BY <2>0 DEF InUse, Phase, Created
  <2>3. /\ InUse' = InUse \cup {r}
        /\ Phase("live")' = Phase("live") \cup {r}
        /\ Created' = Created \cup {r}
    BY <2>0 DEF IsoInv, IsoTypes, RuntimeRec, InUse, Phase, Created
  <2>4. n = IF usage = 0 THEN isolate.no + 1 ELSE isolate.no
    BY DEF IsolateNumber, CreateNewIsolate
  <2>5. /\ Cardinality(InUse') = Cardinality(InUse) + 1
        /\ Cardinality(Created') = Cardinality(Created) + 1
        /\ Cardinality(Created) \in Nat
    BY <2>2, <2>3, OneMore, RuntimesFinite
  <2>6. IsolateCounted'
    <3>1. usage' = Cardinality(InUse')
      BY <2>0, <2>5 DEF IsoInv, IsolateCounted
    <3>2. isolate'.no <= Cardinality(Created')
      BY <2>0, <2>4, <2>5 DEF IsoInv, IsoTypes, IsolateCounted
    <3>3. \A q \in Runtime : rt'[q].phase = "none" => ~rt'[q].allocator
      BY <2>0 DEF IsoInv, IsoTypes, RuntimeRec, IsolateCounted
    <3>4. QED
      BY <3>1, <3>2, <3>3 DEF IsolateCounted
  <2>7. IsolateServesItsRuntimes'
    <3>1. \A q \in InUse' : rt'[q].isolate = n
      <4>1. CASE usage = 0
        BY <4>1, <2>0, <2>3, NoneInUse DEF IsoInv, IsoTypes
      <4>2. CASE usage # 0
        BY <4>2, <2>0, <2>2, <2>3, <2>4
           DEF IsoInv, IsoTypes, IsolateServesItsRuntimes
      <4>3. QED
        BY <4>1, <4>2
    <3>2. \E q \in Runtime : rt'[q].isolate = n /\ rt'[q].allocator
      <4>1. CASE usage = 0
        <5>1. rt'[r].isolate = n /\ rt'[r].allocator
          BY <4>1, <2>0 DEF IsoInv, IsoTypes
        <5>2. QED
          BY <5>1
      <4>2. CASE usage # 0
        <5>1. PICK q \in Runtime : rt[q].isolate = isolate.no /\ rt[q].allocator
          BY <4>2, NoneInUse DEF IsoInv, IsolateServesItsRuntimes
        <5>2. q # r
          BY <5>1, <2>0 DEF IsoInv, IsolateCounted
        <5>3. QED
          BY <4>2, <5>1, <5>2, <2>0, <2>4 DEF IsoInv, IsoTypes
      <4>3. QED
        BY <4>1, <4>2
    <3>3. QED
      BY <3>1, <3>2, <2>0, <2>3 DEF IsolateServesItsRuntimes
  <2>8. AgentHeld'
    BY <2>0, <2>3 DEF AgentHeld, IsoInv
  <2>9. QED
    BY <2>1, <2>6, <2>7, <2>8 DEF IsoInv
<1>3. QED
  BY <1>1, <1>2

(* The platform is disposed of after the last runtime.                     *)
LEMMA IsoDispose == IsoInv /\ DisposePlatform => IsoInv'
BY DEF DisposePlatform, IsoInv, IsoTypes, IsolateCounted,
       IsolateServesItsRuntimes, AgentHeld, InUse, Phase, Created

(* A runtime that is going still uses the isolate.                         *)
LEMMA IsoDestroy ==
    ASSUME IsoInv, NEW r \in Runtime, DestroyRuntime(r)
    PROVE  IsoInv'
<1>1. /\ rt' = [rt EXCEPT ![r].phase = "closing"]
      /\ agent' = [agent EXCEPT !.contexts = agent.contexts \ {r}]
      /\ rt[r].phase = "live"
      /\ UNCHANGED <<platform, usage, isolate>>
  BY DEF DestroyRuntime, ContextsWithout
<1>2. IsoTypes'
  BY <1>1 DEF IsoInv, IsoTypes, RuntimeRec
<1>3. \A q \in Runtime :
         /\ rt'[q].phase = IF q = r THEN "closing" ELSE rt[q].phase
         /\ rt'[q].isolate = rt[q].isolate
         /\ rt'[q].allocator = rt[q].allocator
  BY <1>1 DEF IsoInv, IsoTypes, RuntimeRec
<1>4. /\ InUse' = InUse /\ Created' = Created
      /\ Phase("live")' = Phase("live") \ {r}
      /\ InUse \subseteq Runtime
  BY <1>1, <1>3 DEF InUse, Created, Phase
<1>5. IsolateCounted' /\ IsolateServesItsRuntimes'
  <2>1. \A q \in Runtime : rt'[q].phase = "none" => ~rt'[q].allocator
    BY <1>1, <1>3 DEF IsoInv, IsolateCounted
  <2>2. IsolateCounted'
    BY <1>1, <1>4, <2>1 DEF IsoInv, IsolateCounted
  <2>3. IsolateServesItsRuntimes'
    BY <1>1, <1>3, <1>4 DEF IsoInv, IsolateServesItsRuntimes
  <2>4. QED
    BY <2>2, <2>3
<1>6. AgentHeld'
  BY <1>1, <1>4 DEF IsoInv, IsoTypes, AgentHeld
<1>7. QED
  BY <1>2, <1>5, <1>6 DEF IsoInv

(* The last runtime takes the isolate with it; one that is not the last    *)
(* leaves its allocator behind.                                            *)
LEMMA IsoFinish ==
    ASSUME IsoInv, NEW r \in Runtime, FinishDestroy(r)
    PROVE  /\ IsoInv'
           /\ usage = 1 => InUse = {r}
           /\ usage # 1 => isolate' = isolate
<1>1. PICK a \in BOOLEAN : a = KeepsAllocator(r)
  BY DEF KeepsAllocator, IsoInv, IsoTypes, RuntimeRec
<1>2. /\ rt' = [rt EXCEPT ![r].phase = "dead", ![r].allocator = a]
      /\ usage' = usage - 1
      /\ platform' = platform
  BY <1>1 DEF FinishDestroy
<1>0. rt[r].phase = "closing"
  BY DEF FinishDestroy
<1>3. \A q \in Runtime :
         /\ rt'[q].phase = IF q = r THEN "dead" ELSE rt[q].phase
         /\ rt'[q].isolate = rt[q].isolate
         /\ rt'[q].allocator = IF q = r THEN a ELSE rt[q].allocator
  BY <1>2 DEF IsoInv, IsoTypes, RuntimeRec
<1>4. /\ InUse \in SUBSET Runtime /\ r \in InUse
      /\ InUse' = InUse \ {r} /\ Created' = Created
      /\ Phase("live")' = Phase("live")
  <2>1. InUse \in SUBSET Runtime /\ r \in InUse
    BY <1>0 DEF InUse, Phase
  <2>2. \A q \in Runtime : q \in InUse' <=> q \in InUse /\ q # r
    BY <1>0, <1>3 DEF InUse, Phase
  <2>3. InUse' \in SUBSET Runtime
    BY DEF InUse, Phase
  <2>4. Created' = Created
    BY <1>0, <1>3 DEF Created
  <2>5. Phase("live")' = Phase("live")
    BY <1>0, <1>3 DEF Phase
  <2>6. InUse' = InUse \ {r}
    BY <2>1, <2>2, <2>3
  <2>7. QED
    BY <2>1, <2>4, <2>5, <2>6
<1>5. /\ Cardinality(InUse') = Cardinality(InUse) - 1
      /\ Cardinality(InUse) = 1 <=> InUse = {r}
      /\ Cardinality(InUse) \in Nat /\ Cardinality(InUse) # 0
  <2>1. /\ Cardinality(InUse \ {r}) = Cardinality(InUse) - 1
        /\ Cardinality(InUse) = 1 <=> InUse = {r}
    BY <1>4, OneLess
  <2>2. Cardinality(InUse) \in Nat /\ Cardinality(InUse) # 0
    BY <1>4, RuntimesFinite, FS_EmptySet
  <2>3. QED
    BY <1>4, <2>1, <2>2
<1>6. usage = Cardinality(InUse)
  BY DEF IsoInv, IsolateCounted
<1>7. IsoTypes' /\ isolate'.no = isolate.no
  <2>1. rt' \in [Runtime -> RuntimeRec]
    BY <1>2 DEF IsoInv, IsoTypes, RuntimeRec
  <2>2. usage' \in Nat
    BY <1>2, <1>5, <1>6
  <2>3. /\ isolate' \in [no : Nat, live : BOOLEAN, explicit : BOOLEAN]
        /\ isolate'.no = isolate.no
    BY DEF FinishDestroy, IsoInv, IsoTypes
  <2>4. agent' \in [slot : Nat, holders : SUBSET Runtime,
                    contexts : SUBSET Runtime]
    <3>1. CASE usage = 1
      <4>1. PICK g \in [slot : Nat, holders : SUBSET Runtime,
                        contexts : SUBSET Runtime] : g = agent
        BY DEF IsoInv, IsoTypes
      <4>2. agent' = [g EXCEPT !.slot = 0, !.holders = @ \ {r}]
        BY <3>1, <4>1 DEF FinishDestroy
      <4>3. agent' = [slot |-> 0, holders |-> g.holders \ {r},
                      contexts |-> g.contexts]
        BY <4>2
      <4>4. QED
        BY <4>3
    <3>2. CASE usage # 1
      BY <3>2 DEF FinishDestroy, IsoInv, IsoTypes
    <3>3. QED
      BY <3>1, <3>2
  <2>5. QED
    BY <1>2, <2>1, <2>2, <2>3, <2>4 DEF IsoInv, IsoTypes
<1>8. IsolateCounted'
  <2>1. usage' = Cardinality(InUse')
    BY <1>2, <1>5, <1>6
  <2>2. isolate'.no <= Cardinality(Created')
    BY <1>4, <1>7 DEF IsoInv, IsolateCounted
  <2>3. \A q \in Runtime : rt'[q].phase = "none" => ~rt'[q].allocator
    BY <1>3 DEF IsoInv, IsolateCounted
  <2>4. QED
    BY <2>1, <2>2, <2>3 DEF IsolateCounted
<1>9. CASE usage = 1
  <2>1. InUse = {r} /\ InUse' = {}
    BY <1>4, <1>5, <1>6, <1>9
  <2>2. /\ isolate'.live = FALSE
        /\ agent'.slot = 0 /\ agent'.holders = agent.holders \ {r}
        /\ agent'.contexts = agent.contexts
    BY <1>9 DEF FinishDestroy, IsoInv, IsoTypes
  <2>3. IsolateServesItsRuntimes' /\ AgentHeld'
    BY <1>4, <2>1, <2>2 DEF IsolateServesItsRuntimes, AgentHeld, IsoInv
  <2>4. QED
    BY <1>7, <1>8, <1>9, <2>1, <2>3 DEF IsoInv
<1>10. CASE usage # 1
  <2>1. InUse' # {}
    BY <1>4, <1>5, <1>6, <1>10
  <2>2. /\ isolate' = isolate
        /\ agent'.slot = agent.slot /\ agent'.holders = agent.holders \ {r}
        /\ agent'.contexts = agent.contexts
    BY <1>10 DEF FinishDestroy, IsoInv, IsoTypes
  <2>3. AgentHeld'
    BY <1>4, <2>1, <2>2 DEF AgentHeld, IsoInv
  <2>4. a = rt[r].allocator
    BY <1>1, <1>10 DEF KeepsAllocator, IsoInv, IsoTypes, RuntimeRec
  <2>5. IsolateServesItsRuntimes'
    <3>1. PICK q \in Runtime : rt[q].isolate = isolate.no /\ rt[q].allocator
      BY <1>4 DEF IsoInv, IsolateServesItsRuntimes
    <3>2. rt'[q].isolate = isolate.no /\ rt'[q].allocator
      BY <1>3, <2>4, <3>1
    <3>3. isolate.live
      BY <1>4 DEF IsoInv, IsolateServesItsRuntimes
    <3>4. \A s \in InUse' : rt'[s].isolate = isolate.no
      BY <1>3, <1>4 DEF IsoInv, IsolateServesItsRuntimes
    <3>5. QED
      BY <2>1, <2>2, <3>2, <3>3, <3>4 DEF IsolateServesItsRuntimes
  <2>6. QED
    BY <1>7, <1>8, <1>10, <2>2, <2>3, <2>5 DEF IsoInv
<1>11. QED
  BY <1>9, <1>10

-----------------------------------------------------------------------------
(* The proxies and their trackers.                                         *)

(* A sequence and its tail, by what they contain.                          *)
LEMMA TailContents ==
    ASSUME NEW S, NEW s \in Seq(S), s # <<>>
    PROVE  /\ Head(s) \in S /\ Contains(s, Head(s))
           /\ Tail(s) \in Seq(S)
           /\ \A i \in 1 .. Len(Tail(s)) : i + 1 \in 1 .. Len(s)
                                           /\ Tail(s)[i] = s[i + 1]
           /\ \A x : Contains(s, x) /\ x # Head(s) => Contains(Tail(s), x)
<1>1. /\ Len(s) \in Nat /\ Len(s) > 0 /\ Head(s) = s[1] /\ Head(s) \in S
      /\ Tail(s) \in Seq(S) /\ Len(Tail(s)) = Len(s) - 1
      /\ \A i \in 1 .. Len(Tail(s)) : Tail(s)[i] = s[i + 1]
  BY HeadTailProperties, EmptySeq, LenProperties
<1>2. \A i \in 1 .. Len(Tail(s)) : i + 1 \in 1 .. Len(s)
  BY <1>1
<1>3. Contains(s, Head(s))
  BY <1>1 DEF Contains
<1>4. ASSUME NEW x, Contains(s, x), x # Head(s)
      PROVE  Contains(Tail(s), x)
  <2>1. PICK i \in 1 .. Len(s) : s[i] = x
    BY <1>4 DEF Contains
  <2>2. i - 1 \in 1 .. Len(Tail(s)) /\ (i - 1) + 1 = i
    BY <1>1, <1>4, <2>1
  <2>3. Tail(s)[i - 1] = x
    BY <1>1, <2>1, <2>2
  <2>4. QED
    BY <2>2, <2>3 DEF Contains
<1>5. QED
  BY <1>1, <1>2, <1>3, <1>4

(* A sequence and what is appended to it.                                  *)
LEMMA AppendContents ==
    ASSUME NEW S, NEW s \in Seq(S), NEW e \in S
    PROVE  /\ Append(s, e) \in Seq(S)
           /\ \A x : Contains(s, x) => Contains(Append(s, e), x)
           /\ Contains(Append(s, e), e)
           /\ \A i \in 1 .. Len(Append(s, e)) :
                \/ i \in 1 .. Len(s) /\ Append(s, e)[i] = s[i]
                \/ Append(s, e)[i] = e
<1>1. /\ Append(s, e) \in Seq(S) /\ Len(Append(s, e)) = Len(s) + 1
      /\ \A i \in 1 .. Len(s) : Append(s, e)[i] = s[i]
      /\ Append(s, e)[Len(s) + 1] = e
      /\ Len(s) \in Nat
  BY AppendProperties, LenProperties
<1>2. \A x : Contains(s, x) => Contains(Append(s, e), x)
  BY <1>1 DEF Contains
<1>3. Contains(Append(s, e), e)
  BY <1>1 DEF Contains
<1>4. QED
  BY <1>1, <1>2, <1>3

(* Nothing is in the empty list.                                           *)
LEMMA EmptyContainsNothing == \A x : ~Contains(<<>>, x)
BY EmptySeq DEF Contains

(* No proxy is in use.                                                     *)
LEMMA HostInit == JsiInit => HostInv
<1> SUFFICES ASSUME JsiInit PROVE HostInv
  OBVIOUS
<1>1. HostTypes
  BY EmptySeq DEF JsiInit, HostTypes, ProxyRec, NoObject, Kind
<1>2. \A p \in Proxy : px[p].rt = None /\ Unused(p)
  BY DEF JsiInit, NoObject, Unused
<1>3. \A p \in Proxy : ProxyOK(p)
  BY <1>2 DEF ProxyOK, Unused, HoldersThere, WeakNotReleased,
              TrackedUntilReset, HostKind
<1>4. \A r \in Runtime : ListOK(r)
  BY EmptySeq DEF JsiInit, ListOK
<1>5. QED
  BY <1>1, <1>3, <1>4 DEF HostInv

(* Steps that leave the host objects and their runtimes alone.             *)
LEMMA HostQuiet == HostInv /\ UNCHANGED <<rt, hostVars>> => HostInv'
BY DEF hostVars, HostInv, HostTypes, ProxyOK, ListOK, Unused, HoldersThere,
       WeakNotReleased, TrackedUntilReset, Phase

(* The phase of one runtime changes, and nothing about its proxies.        *)
LEMMA HostPhase ==
    ASSUME HostInv, UNCHANGED hostVars, NEW r \in Runtime,
           \A q \in Runtime \ {r} : rt'[q].phase = rt[q].phase,
           \A p \in Proxy : px[p].rt = r /\ App \in px[p].held =>
                              rt'[r].phase = "live",
           rt[r].phase \in {"closing", "dead"} =>
                              rt'[r].phase \in {"closing", "dead"},
           rt'[r].phase \in {"none", "dead"} => list[r] = <<>>
    PROVE  HostInv'
<1>1. HostTypes' /\ UNCHANGED <<px, list>>
  BY DEF HostInv, HostTypes, hostVars
<1>2. ASSUME NEW p \in Proxy PROVE ProxyOK(p)'
  <2>1. ProxyOK(p)
    BY DEF HostInv
  <2>2. HoldersThere(p)'
    BY <1>1, <2>1 DEF ProxyOK, HoldersThere, Phase
  <2>3. Unused(p) => Unused(p)'
    BY <1>1 DEF Unused
  <2>4. WeakNotReleased(p)'
    BY <1>1, <2>1 DEF ProxyOK, WeakNotReleased
  <2>5. TrackedUntilReset(p)'
    BY <1>1, <2>1 DEF ProxyOK, TrackedUntilReset
  <2>6. QED
    BY <1>1, <2>1, <2>2, <2>3, <2>4, <2>5 DEF ProxyOK
<1>3. ASSUME NEW q \in Runtime PROVE ListOK(q)'
  BY <1>1 DEF HostInv, ListOK
<1>4. QED
  BY <1>1, <1>2, <1>3 DEF HostInv

(* A new host object is tracked by its runtime.                            *)
LEMMA HostCreate ==
    ASSUME HostInv, IsoInv, NEW r \in Runtime, NEW e \in BOOLEAN,
           CreateRuntime(r, e)
    PROVE  HostInv'
<1>1. CASE platform = "disposed"
  BY <1>1, HostQuiet DEF CreateRuntime
<1>2. CASE platform # "disposed"
  <2>1. /\ UNCHANGED hostVars /\ rt[r].phase = "none"
        /\ rt'[r].phase = "live"
        /\ \A q \in Runtime \ {r} : rt'[q] = rt[q]
    BY <1>2 DEF CreateRuntime, IsoInv, IsoTypes
  <2>2. QED
    BY <2>1, HostPhase
<1>3. QED
  BY <1>1, <1>2

(* ~V8Runtime begins when the application holds no pointer of the runtime. *)
LEMMA HostDestroy ==
    ASSUME HostInv, IsoInv, NEW r \in Runtime, DestroyRuntime(r)
    PROVE  HostInv'
<1>1. /\ UNCHANGED hostVars /\ rt[r].phase = "live"
      /\ \A p \in Proxy : px[p].rt = r => App \notin px[p].held
      /\ rt' = [rt EXCEPT ![r].phase = "closing"]
  BY DEF DestroyRuntime
<1>2. /\ rt'[r].phase = "closing"
      /\ \A q \in Runtime \ {r} : rt'[q] = rt[q]
  BY <1>1 DEF IsoInv, IsoTypes, RuntimeRec
<1>3. QED
  BY <1>1, <1>2, HostPhase

(* A pointer, or the place JavaScript stored an object in, changes: who    *)
(* holds what still is as it must be.                                      *)
LEMMA HostHolders ==
    ASSUME HostInv, rt' = rt, list' = list,
           NEW p \in Proxy, NEW v \in ProxyRec, px' = [px EXCEPT ![p] = v],
           v.kind = px[p].kind, v.rt = px[p].rt, v.live = px[p].live,
           v.weak = px[p].weak, v.releases = px[p].releases,
           px[p].rt = None => v.held = {},
           App \in v.held => px[p].rt \in Phase("live"),
           \A q \in Proxy : q \in v.held =>
               px[q].kind \in HostKind /\ px[q].releases = 0
    PROVE  HostInv'
<1>1. HostTypes'
  BY DEF HostInv, HostTypes
<1>2. \A x \in Proxy :
         /\ px'[x].kind = px[x].kind /\ px'[x].rt = px[x].rt
         /\ px'[x].live = px[x].live /\ px'[x].weak = px[x].weak
         /\ px'[x].releases = px[x].releases
         /\ px'[x].held = IF x = p THEN v.held ELSE px[x].held
  BY DEF HostInv, HostTypes
<1>3. ASSUME NEW x \in Proxy PROVE ProxyOK(x)'
  <2>1. ProxyOK(x)
    BY DEF HostInv
  <2>2. HoldersThere(x)'
    BY <1>2, <2>1 DEF ProxyOK, HoldersThere, Phase
  <2>3. px[x].rt = None => Unused(x)'
    BY <1>2, <2>1 DEF ProxyOK, Unused
  <2>4. WeakNotReleased(x)'
    BY <1>2, <2>1 DEF ProxyOK, WeakNotReleased
  <2>5. TrackedUntilReset(x)'
    BY <1>2, <2>1 DEF ProxyOK, TrackedUntilReset
  <2>6. QED
    BY <1>2, <2>2, <2>3, <2>4, <2>5 DEF ProxyOK
<1>4. ASSUME NEW q \in Runtime PROVE ListOK(q)'
  <2>1. \A i \in 1 .. Len(list[q]) : list[q][i] \in Proxy
    BY ElementOfSeq DEF HostInv, HostTypes
  <2>2. QED
    BY <1>2, <2>1 DEF HostInv, ListOK
<1>5. QED
  BY <1>1, <1>3, <1>4 DEF HostInv

(* KeepPointer, Invalidate, lockWeakObject and what JavaScript stores.     *)
LEMMA HostPointers ==
    ASSUME HostInv, rt' = rt, NEW p \in Proxy,
           \/ \E q \in Proxy : KeepPointer(q, p)
           \/ Invalidate(p)
           \/ LockWeakObject(p)
           \/ \E b \in BOOLEAN : StoreObject(p, b)
    PROVE  HostInv'
<1>0. px[p] \in ProxyRec /\ ProxyOK(p)
  BY DEF HostInv, HostTypes
<1>1. ASSUME NEW q \in Proxy, KeepPointer(q, p)
      PROVE  HostInv'
  <2> PICK v : v = [px[p] EXCEPT !.held = @ \cup {q}]
    OBVIOUS
  <2>1. /\ v \in ProxyRec
        /\ v.kind = px[p].kind /\ v.rt = px[p].rt /\ v.live = px[p].live
        /\ v.weak = px[p].weak /\ v.releases = px[p].releases
        /\ v.held = px[p].held \cup {q}
    BY <1>0 DEF ProxyRec
  <2>2. px' = [px EXCEPT ![p] = v] /\ list' = list
    BY <1>1 DEF KeepPointer, HostInv, HostTypes
  <2>3. /\ App \in px[p].held /\ px[q].kind \in HostKind /\ ~(px[q].releases > 0)
        /\ px[q].releases \in Nat
    BY <1>1 DEF KeepPointer, HostKind, IsReset, HostInv, HostTypes, ProxyRec
  <2>4. px[p].rt \in Phase("live")
    BY <1>0, <2>3 DEF ProxyOK, HoldersThere
  <2>5. px[p].rt # None
    BY <2>4, NoneAssumption DEF Phase
  <2>6. /\ \A x \in Proxy : x \in v.held =>
              px[x].kind \in HostKind /\ px[x].releases = 0
    BY <1>0, <2>1, <2>3 DEF ProxyOK, HoldersThere
  <2>7. QED
    BY <2>1, <2>2, <2>4, <2>5, <2>6, HostHolders
<1>2. ASSUME Invalidate(p)
      PROVE  HostInv'
  <2> PICK v : v = [px[p] EXCEPT !.held = @ \ {App}]
    OBVIOUS
  <2>1. /\ v \in ProxyRec
        /\ v.kind = px[p].kind /\ v.rt = px[p].rt /\ v.live = px[p].live
        /\ v.weak = px[p].weak /\ v.releases = px[p].releases
        /\ v.held = px[p].held \ {App}
    BY <1>0 DEF ProxyRec
  <2>2. px' = [px EXCEPT ![p] = v] /\ list' = list
    BY <1>2 DEF Invalidate, HostInv, HostTypes
  <2>3. px[p].rt = None => v.held = {}
    BY <1>0, <2>1 DEF ProxyOK, Unused
  <2>4. \A x \in Proxy : x \in v.held =>
              px[x].kind \in HostKind /\ px[x].releases = 0
    BY <1>0, <2>1 DEF ProxyOK, HoldersThere
  <2>5. QED
    BY <2>1, <2>2, <2>3, <2>4, HostHolders
<1>3. ASSUME LockWeakObject(p)
      PROVE  HostInv'
  <2> PICK v : v = [px[p] EXCEPT !.held = @ \cup {App}]
    OBVIOUS
  <2>1. /\ v \in ProxyRec
        /\ v.kind = px[p].kind /\ v.rt = px[p].rt /\ v.live = px[p].live
        /\ v.weak = px[p].weak /\ v.releases = px[p].releases
        /\ v.held = px[p].held \cup {App}
    BY <1>0 DEF ProxyRec
  <2>2. px' = [px EXCEPT ![p] = v] /\ list' = list
    BY <1>3 DEF LockWeakObject, HostInv, HostTypes
  <2>3. px[p].rt # None
    BY <1>0, <1>3 DEF LockWeakObject, ProxyOK, Unused
  <2>4. px[p].rt \in Phase("live")
    BY <1>0, <1>3, <2>3 DEF LockWeakObject, Phase, ProxyRec
  <2>5. \A x \in Proxy : x \in v.held =>
              px[x].kind \in HostKind /\ px[x].releases = 0
    BY <1>0, <2>1, AppAssumption DEF ProxyOK, HoldersThere
  <2>6. QED
    BY <2>1, <2>2, <2>3, <2>4, <2>5, HostHolders
<1>4. ASSUME NEW b \in BOOLEAN, StoreObject(p, b)
      PROVE  HostInv'
  <2> PICK v : v = [px[p] EXCEPT !.heap = b]
    OBVIOUS
  <2>1. /\ v \in ProxyRec
        /\ v.kind = px[p].kind /\ v.rt = px[p].rt /\ v.live = px[p].live
        /\ v.weak = px[p].weak /\ v.releases = px[p].releases
        /\ v.held = px[p].held
    BY <1>0 DEF ProxyRec
  <2>2. px' = [px EXCEPT ![p] = v] /\ list' = list
    BY <1>4 DEF StoreObject, HostInv, HostTypes
  <2>3. px[p].rt = None => v.held = {}
    BY <1>0, <2>1 DEF ProxyOK, Unused
  <2>4. /\ App \in v.held => px[p].rt \in Phase("live")
        /\ \A x \in Proxy : x \in v.held =>
              px[x].kind \in HostKind /\ px[x].releases = 0
    BY <1>0, <2>1 DEF ProxyOK, HoldersThere
  <2>5. QED
    BY <2>1, <2>2, <2>3, <2>4, HostHolders
<1>5. QED
  BY <1>1, <1>2, <1>3, <1>4

(* A new object, with its tracker on the list of its runtime.              *)
LEMMA HostMake ==
    ASSUME HostInv, rt' = rt, NEW r \in Runtime, NEW p \in Proxy,
           rt[r].phase = "live", px[p].rt = None,
           NEW k \in Kind \ {"state"},
           px' = [px EXCEPT ![p] = NewObject(p, r, k)],
           list' = IF k = "plain" THEN list ELSE Tracked(r, p)
    PROVE  HostInv'
<1> PICK v : v = NewObject(p, r, k)
  OBVIOUS
<1>1. /\ v \in ProxyRec
      /\ v.kind = k /\ v.rt = r /\ v.live = TRUE /\ v.releases = 0
      /\ v.held = {App} /\ v.weak = (k # "plain")
  BY DEF NewObject, ProxyRec, Kind
<1>2. /\ px' \in [Proxy -> ProxyRec]
      /\ \A x \in Proxy : px'[x] = IF x = p THEN v ELSE px[x]
  BY <1>1 DEF HostInv, HostTypes
<1>3. /\ list' \in [Runtime -> Seq(Proxy)]
      /\ \A q \in Runtime, x \in Proxy :
            Contains(list[q], x) => Contains(list'[q], x)
      /\ k # "plain" => Contains(list'[r], p)
      /\ \A q \in Runtime : \A i \in 1 .. Len(list'[q]) :
            \/ i \in 1 .. Len(list[q]) /\ list'[q][i] = list[q][i]
            \/ k # "plain" /\ q = r /\ list'[q][i] = p
  <2>1. list \in [Runtime -> Seq(Proxy)] /\ list[r] \in Seq(Proxy)
    BY DEF HostInv, HostTypes
  <2>2. CASE k = "plain"
    BY <2>1, <2>2
  <2>3. CASE k # "plain"
    <3>1. list' = [list EXCEPT ![r] = Append(list[r], p)]
      BY <2>3 DEF Tracked
    <3>2. /\ Append(list[r], p) \in Seq(Proxy)
          /\ \A x : Contains(list[r], x) => Contains(Append(list[r], p), x)
          /\ Contains(Append(list[r], p), p)
          /\ \A i \in 1 .. Len(Append(list[r], p)) :
               \/ i \in 1 .. Len(list[r])
                  /\ Append(list[r], p)[i] = list[r][i]
               \/ Append(list[r], p)[i] = p
      BY <2>1, AppendContents
    <3>3. /\ list' \in [Runtime -> Seq(Proxy)]
          /\ list'[r] = Append(list[r], p)
          /\ \A q \in Runtime \ {r} : list'[q] = list[q]
      BY <2>1, <3>1, <3>2
    <3>4. QED
      BY <2>3, <3>2, <3>3
  <2>4. QED
    BY <2>2, <2>3
<1>4. Unused(p)
  BY DEF HostInv, ProxyOK
<1>5. ASSUME NEW x \in Proxy PROVE ProxyOK(x)'
  <2>1. ProxyOK(x)
    BY DEF HostInv
  <2>2. HoldersThere(x)'
    <3>1. CASE x = p
      BY <1>1, <1>2, <3>1, AppAssumption DEF HoldersThere, Phase
    <3>2. CASE x # p
      <4>1. px'[x] = px[x]
        BY <1>2, <3>2
      <4>2. p \notin px[x].held
        BY <1>4, <2>1 DEF ProxyOK, HoldersThere, Unused, HostKind
      <4>3. QED
        BY <1>2, <2>1, <4>1, <4>2 DEF ProxyOK, HoldersThere, Phase
    <3>3. QED
      BY <3>1, <3>2
  <2>3. px'[x].rt = None => Unused(x)'
    BY <1>1, <1>2, <2>1, NoneAssumption DEF ProxyOK, Unused
  <2>4. WeakNotReleased(x)'
    <3>1. CASE x = p
      <4>1. px'[x].kind = k /\ px'[x].releases = 0
        BY <1>1, <1>2, <3>1
      <4>2. k = "plain" => ~px'[x].weak
        BY <1>1, <1>2, <3>1
      <4>3. QED
        BY <4>1, <4>2 DEF WeakNotReleased
    <3>2. CASE x # p
      BY <1>2, <2>1, <3>2 DEF ProxyOK, WeakNotReleased
    <3>3. QED
      BY <3>1, <3>2
  <2>5. TrackedUntilReset(x)'
    <3>1. CASE x = p
      BY <1>1, <1>2, <1>3, <3>1 DEF TrackedUntilReset, HostKind
    <3>2. CASE x # p
      BY <1>2, <1>3, <2>1, <3>2 DEF ProxyOK, TrackedUntilReset
    <3>3. QED
      BY <3>1, <3>2
  <2>6. QED
    BY <2>2, <2>3, <2>4, <2>5 DEF ProxyOK
<1>6. ASSUME NEW q \in Runtime PROVE ListOK(q)'
  <2>1. ListOK(q)
    BY DEF HostInv
  <2>2. \A i \in 1 .. Len(list[q]) : list[q][i] \in Proxy \ {p}
    <3>1. \A i \in 1 .. Len(list[q]) : list[q][i] \in Proxy
      BY ElementOfSeq DEF HostInv, HostTypes
    <3>2. QED
      BY <2>1, <3>1, NoneAssumption DEF ListOK
  <2>3. ASSUME NEW i \in 1 .. Len(list'[q])
        PROVE  px'[list'[q][i]].rt = q /\ px'[list'[q][i]].kind \in HostKind
    <3>1. CASE i \in 1 .. Len(list[q]) /\ list'[q][i] = list[q][i]
      BY <1>2, <2>1, <2>2, <3>1 DEF ListOK
    <3>2. CASE k # "plain" /\ q = r /\ list'[q][i] = p
      BY <1>1, <1>2, <3>2 DEF HostKind, Kind
    <3>3. QED
      BY <1>3, <2>3, <3>1, <3>2
  <2>4. rt[q].phase \in {"none", "dead"} => list'[q] = <<>>
    <3>1. CASE q = r
      BY <3>1
    <3>2. CASE q # r
      <4>1. list'[q] = list[q]
        BY <3>2 DEF Tracked, HostInv, HostTypes
      <4>2. QED
        BY <2>1, <4>1 DEF ListOK
    <3>3. QED
      BY <3>1, <3>2
  <2>5. QED
    BY <2>3, <2>4 DEF ListOK
<1>7. HostTypes'
  BY <1>2, <1>3 DEF HostTypes
<1>8. QED
  BY <1>5, <1>6, <1>7 DEF HostInv

(* setNativeState gives an object of the application's a weak handle.      *)
LEMMA HostNativeState ==
    ASSUME HostInv, rt' = rt, NEW p \in Proxy, SetNativeState(p)
    PROVE  HostInv'
<1>1. CASE px' = px
  BY <1>1, HostQuiet DEF SetNativeState, hostVars
<1>2. CASE px' # px
  <2> PICK v : v = [px[p] EXCEPT !.kind = "state", !.weak = TRUE]
    OBVIOUS
  <2>0. px[p] \in ProxyRec /\ ProxyOK(p)
    BY DEF HostInv, HostTypes
  <2>1. /\ v \in ProxyRec
        /\ v.kind = "state" /\ v.rt = px[p].rt /\ v.live = px[p].live
        /\ v.weak = TRUE /\ v.releases = px[p].releases
        /\ v.held = px[p].held
    BY <2>0 DEF ProxyRec, Kind
  <2>2. px' = [px EXCEPT ![p] = v] /\ list' = list
    BY <1>2 DEF SetNativeState, HostInv, HostTypes
  <2>3. App \in px[p].held /\ px[p].kind = "plain"
    BY DEF SetNativeState
  <2>4. px[p].releases = 0 /\ px[p].rt # None
    BY <2>0, <2>3 DEF ProxyOK, WeakNotReleased, Unused
  <2>5. \A x \in Proxy : px'[x] = IF x = p THEN v ELSE px[x]
    BY <2>2 DEF HostInv, HostTypes
  <2>6. ASSUME NEW x \in Proxy PROVE ProxyOK(x)'
    <3>1. ProxyOK(x)
      BY DEF HostInv
    <3>2. HoldersThere(x)'
      <4>1. px'[x].held = px[x].held /\ px'[x].rt = px[x].rt
        BY <2>1, <2>5
      <4>2. p \notin px[x].held
        BY <2>3, <3>1 DEF ProxyOK, HoldersThere, HostKind
      <4>3. \A q \in Proxy : q \in px[x].held => px'[q] = px[q]
        BY <2>5, <4>2
      <4>4. Phase("live")' = Phase("live")
        BY DEF Phase
      <4>5. QED
        BY <3>1, <4>1, <4>3, <4>4 DEF ProxyOK, HoldersThere
    <3>3. px'[x].rt = None => Unused(x)'
      BY <2>1, <2>4, <2>5, <3>1 DEF ProxyOK, Unused
    <3>4. WeakNotReleased(x)'
      <4>1. CASE x = p
        <5>1. px'[x].kind = "state" /\ px'[x].releases = 0
          BY <2>1, <2>4, <2>5, <4>1
        <5>2. QED
          BY <5>1 DEF WeakNotReleased
      <4>2. CASE x # p
        BY <2>5, <3>1, <4>2 DEF ProxyOK, WeakNotReleased
      <4>3. QED
        BY <4>1, <4>2
    <3>5. TrackedUntilReset(x)'
      BY <2>1, <2>2, <2>5, <3>1 DEF ProxyOK, TrackedUntilReset, HostKind
    <3>6. QED
      BY <3>2, <3>3, <3>4, <3>5 DEF ProxyOK
  <2>7. ASSUME NEW q \in Runtime PROVE ListOK(q)'
    <3>1. \A i \in 1 .. Len(list[q]) : list[q][i] \in Proxy \ {p}
      <4>1. \A i \in 1 .. Len(list[q]) : list[q][i] \in Proxy
        BY ElementOfSeq DEF HostInv, HostTypes
      <4>2. QED
        BY <2>3, <4>1 DEF HostInv, ListOK, HostKind
    <3>2. QED
      BY <2>2, <2>5, <3>1 DEF HostInv, ListOK
  <2>8. HostTypes'
    BY <2>1, <2>2 DEF HostInv, HostTypes
  <2>9. QED
    BY <2>6, <2>7, <2>8 DEF HostInv
<1>3. QED
  BY <1>1, <1>2

(* What IHostProxy::destroy leaves of the proxies.                         *)
LEMMA ReleasedFields ==
    ASSUME HostInv, NEW p \in Proxy
    PROVE  /\ Released(p) \in [Proxy -> ProxyRec]
           /\ \A x \in Proxy :
                LET v == Released(p)[x]
                IN  /\ v.kind = px[x].kind /\ v.rt = px[x].rt
                    /\ v.live = px[x].live
                    /\ v.held = px[x].held \ {p}
                    /\ v.weak => px[x].weak
                    /\ x = p => ~v.weak
                    /\ v.releases = IF x = p THEN px[x].releases + 1
                                    ELSE px[x].releases
<1>1. ASSUME NEW x \in Proxy
      PROVE  LET v == Released(p)[x]
             IN  /\ v \in ProxyRec
                 /\ v.kind = px[x].kind /\ v.rt = px[x].rt
                 /\ v.live = px[x].live
                 /\ v.held = px[x].held \ {p}
                 /\ v.weak => px[x].weak
                 /\ x = p => ~v.weak
                 /\ v.releases = IF x = p THEN px[x].releases + 1
                                 ELSE px[x].releases
  <2>1. PICK w \in ProxyRec : w = px[x]
    BY DEF HostInv, HostTypes
  <2>2. PICK b \in BOOLEAN : b = (w.weak /\ x # p)
    BY Zenon
  <2>3. PICK n \in Nat : n = IF x = p THEN w.releases + 1 ELSE w.releases
    BY DEF ProxyRec
  <2>4. Released(p)[x] = [w EXCEPT !.held = @ \ {p}, !.weak = b,
                                   !.releases = n]
    BY <2>1, <2>2, <2>3 DEF Released
  <2>5. Released(p)[x] =
          [kind |-> w.kind, rt |-> w.rt, live |-> w.live, heap |-> w.heap,
           held |-> w.held \ {p}, weak |-> b, releases |-> n]
    BY <2>4 DEF ProxyRec
  <2>6. Released(p)[x] \in ProxyRec
    BY <2>5 DEF ProxyRec
  <2>7. (b => w.weak) /\ (x = p => ~b)
    BY <2>2
  <2>8. QED
    BY <2>1, <2>3, <2>5, <2>6, <2>7
<1>2. Released(p) = [x \in Proxy |-> Released(p)[x]]
  BY DEF Released
<1>3. QED
  BY <1>1, <1>2

(* A host object or function goes: no pointer of its is left, and its      *)
(* tracker is only needed until then.  L is what is left of the lists.     *)
LEMMA HostRelease ==
    ASSUME HostInv, rt' = rt, NEW p \in Proxy,
           px' \in [Proxy -> ProxyRec],
           \A x \in Proxy :
             /\ px'[x].kind = px[x].kind /\ px'[x].rt = px[x].rt
             /\ px'[x].live => px[x].live
             /\ px'[x].held \subseteq px[x].held
             /\ px'[x].weak => px[x].weak
             /\ x # p => px'[x].releases = px[x].releases,
           px'[p].releases = 1, ~px'[p].weak,
           \A x \in Proxy : p \notin px'[x].held,
           px[p].kind # "plain",
           list' \in [Runtime -> Seq(Proxy)],
           \A q \in Runtime : \A i \in 1 .. Len(list'[q]) :
             \E j \in 1 .. Len(list[q]) : list'[q][i] = list[q][j],
           \A q \in Runtime : list[q] = <<>> => list'[q] = <<>>,
           \A q \in Runtime, x \in Proxy :
             Contains(list[q], x) /\ x # p => Contains(list'[q], x),
           px[p].kind \in HostKind =>
             \/ ~px'[p].live /\ Contains(list'[px[p].rt], p)
             \/ rt[px[p].rt].phase \in {"closing", "dead"}
    PROVE  HostInv'
<1>1. Phase("live")' = Phase("live")
  BY DEF Phase
<1>2. ASSUME NEW x \in Proxy PROVE ProxyOK(x)'
  <2>1. ProxyOK(x)
    BY DEF HostInv
  <2>2. HoldersThere(x)'
    <3>1. App \in px'[x].held => px'[x].rt \in Phase("live")
      BY <2>1 DEF ProxyOK, HoldersThere
    <3>2. ASSUME NEW q \in Proxy, q \in px'[x].held
          PROVE  px'[q].kind \in HostKind /\ px'[q].releases = 0
      BY <2>1, <3>2 DEF ProxyOK, HoldersThere
    <3>3. QED
      BY <1>1, <3>1, <3>2 DEF HoldersThere
  <2>3. px'[x].rt = None => Unused(x)'
    <3>1. CASE x = p
      BY <2>1, <3>1 DEF ProxyOK, Unused
    <3>2. CASE x # p
      BY <2>1, <3>2 DEF ProxyOK, Unused
    <3>3. QED
      BY <3>1, <3>2
  <2>4. WeakNotReleased(x)'
    <3>1. CASE x = p
      BY <3>1 DEF WeakNotReleased
    <3>2. CASE x # p
      BY <2>1, <3>2 DEF ProxyOK, WeakNotReleased
    <3>3. QED
      BY <3>1, <3>2
  <2>5. TrackedUntilReset(x)'
    <3>1. CASE x = p
      BY <2>1, <3>1 DEF ProxyOK, TrackedUntilReset
    <3>2. CASE x # p
      BY <2>1, <3>2 DEF ProxyOK, TrackedUntilReset
    <3>3. QED
      BY <3>1, <3>2
  <2>6. QED
    BY <2>2, <2>3, <2>4, <2>5 DEF ProxyOK
<1>3. ASSUME NEW q \in Runtime PROVE ListOK(q)'
  <2>1. ListOK(q)
    BY DEF HostInv
  <2>2. ASSUME NEW i \in 1 .. Len(list'[q])
        PROVE  px'[list'[q][i]].rt = q /\ px'[list'[q][i]].kind \in HostKind
    <3>1. PICK j \in 1 .. Len(list[q]) : list'[q][i] = list[q][j]
      BY <2>2
    <3>2. PICK y \in Proxy : y = list[q][j]
      BY ElementOfSeq DEF HostInv, HostTypes
    <3>3. px[y].rt = q /\ px[y].kind \in HostKind
      BY <2>1, <3>2 DEF ListOK
    <3>4. px'[y].kind = px[y].kind /\ px'[y].rt = px[y].rt
      OBVIOUS
    <3>5. QED
      BY <3>1, <3>2, <3>3, <3>4
  <2>3. QED
    BY <2>1, <2>2 DEF ListOK
<1>4. QED
  BY <1>2, <1>3 DEF HostInv, HostTypes

(* The loop of ~V8Runtime resets the next tracker, unless the collector    *)
(* has done so.                                                            *)
LEMMA HostReset ==
    ASSUME HostInv, rt' = rt, NEW r \in Runtime, ResetHostObject(r)
    PROVE  HostInv'
<1> PICK s \in Seq(Proxy) : s = list[r]
  BY DEF HostInv, HostTypes
<1>1. s # <<>> /\ rt[r].phase = "closing" /\ list' = [list EXCEPT ![r] = Tail(s)]
  BY DEF ResetHostObject
<1> PICK p : p = Head(s)
  OBVIOUS
<1>2. /\ p \in Proxy /\ Contains(s, p) /\ Tail(s) \in Seq(Proxy)
      /\ \A i \in 1 .. Len(Tail(s)) : i + 1 \in 1 .. Len(s)
                                      /\ Tail(s)[i] = s[i + 1]
      /\ \A x : Contains(s, x) /\ x # p => Contains(Tail(s), x)
  BY <1>1, TailContents
<1>3. /\ list' \in [Runtime -> Seq(Proxy)]
      /\ list'[r] = Tail(s)
      /\ \A q \in Runtime \ {r} : list'[q] = list[q]
  BY <1>1, <1>2 DEF HostInv, HostTypes
<1>4. \A q \in Runtime : \A i \in 1 .. Len(list'[q]) :
         \E j \in 1 .. Len(list[q]) : list'[q][i] = list[q][j]
  <2>1. ASSUME NEW i \in 1 .. Len(list'[r])
        PROVE  \E j \in 1 .. Len(list[r]) : list'[r][i] = list[r][j]
    <3>1. i + 1 \in 1 .. Len(list[r]) /\ list'[r][i] = list[r][i + 1]
      BY <1>2, <1>3, <2>1
    <3>2. QED
      BY <3>1
  <2>2. ASSUME NEW q \in Runtime \ {r}, NEW i \in 1 .. Len(list'[q])
        PROVE  \E j \in 1 .. Len(list[q]) : list'[q][i] = list[q][j]
    BY <1>3, <2>2
  <2>3. QED
    BY <2>1, <2>2
<1>5. \A q \in Runtime : list[q] = <<>> => list'[q] = <<>>
  BY <1>1, <1>3
<1>6. \A q \in Runtime, x \in Proxy :
         Contains(list[q], x) /\ x # p => Contains(list'[q], x)
  BY <1>2, <1>3
<1>7. px[p].rt = r /\ px[p].kind \in HostKind
  BY <1>2 DEF HostInv, ListOK, Contains
<1>8. px[p].releases \in Nat /\ px[p].releases <= 1 /\ ProxyOK(p)
      /\ px \in [Proxy -> ProxyRec]
  BY <1>2 DEF HostInv, HostTypes, ProxyRec, ProxyOK, WeakNotReleased
<1>9. px[p].kind # "plain" /\ rt[px[p].rt].phase \in {"closing", "dead"}
  BY <1>1, <1>7 DEF HostKind
<1>10. CASE px[p].releases > 0
  <2>1. px' = px /\ px[p].releases = 1
    BY <1>8, <1>10 DEF ResetHostObject, IsReset
  <2>2. ~px[p].weak /\ \A x \in Proxy : p \notin px[x].held
    BY <1>2, <1>8, <2>1 DEF HostInv, ProxyOK, WeakNotReleased, HoldersThere
  <2>3. /\ px' \in [Proxy -> ProxyRec]
        /\ \A x \in Proxy :
             /\ px'[x].kind = px[x].kind /\ px'[x].rt = px[x].rt
             /\ px'[x].live => px[x].live
             /\ px'[x].held \subseteq px[x].held
             /\ px'[x].weak => px[x].weak
             /\ x # p => px'[x].releases = px[x].releases
        /\ px'[p].releases = 1 /\ ~px'[p].weak
        /\ \A x \in Proxy : p \notin px'[x].held
    BY <1>8, <2>1, <2>2
  <2>4. QED
    BY <1>2, <1>3, <1>4, <1>5, <1>6, <1>9, <2>3, HostRelease
<1>11. CASE ~(px[p].releases > 0)
  <2>1. px' = Released(p) /\ px[p].releases = 0
    BY <1>8, <1>11 DEF ResetHostObject, IsReset
  <2>2. /\ px' \in [Proxy -> ProxyRec]
        /\ \A x \in Proxy :
             /\ px'[x].kind = px[x].kind /\ px'[x].rt = px[x].rt
             /\ px'[x].live => px[x].live
             /\ px'[x].held \subseteq px[x].held
             /\ px'[x].weak => px[x].weak
             /\ x # p => px'[x].releases = px[x].releases
        /\ px'[p].releases = 1 /\ ~px'[p].weak
        /\ \A x \in Proxy : p \notin px'[x].held
    BY <1>2, <2>1, ReleasedFields
  <2>3. QED
    BY <1>2, <1>3, <1>4, <1>5, <1>6, <1>9, <2>2, HostRelease
<1>12. QED
  BY <1>10, <1>11

(* The collector: an object nothing leads to goes, and with it the host    *)
(* object or function behind it.  Its weak handle has its tracker.         *)
LEMMA HostCollect ==
    ASSUME HostInv, rt' = rt, NEW p \in Proxy, CollectGarbage(p)
    PROVE  HostInv' /\ process' = process
<1>1. px[p] \in ProxyRec /\ ProxyOK(p) /\ px[p].live
  BY DEF HostInv, HostTypes, CollectGarbage
<1>2. px[p].weak => /\ px[p].releases = 0 /\ px[p].kind # "plain"
                    /\ px[p].kind \in HostKind \cup {"state"}
                    /\ px[p].kind # "state" => Contains(list[px[p].rt], p)
  BY <1>1 DEF ProxyOK, WeakNotReleased, TrackedUntilReset, HostKind, ProxyRec,
              Kind
<1>3. /\ px' = [IF px[p].weak THEN Released(p) ELSE px
                   EXCEPT ![p].live = FALSE, ![p].heap = FALSE]
      /\ process' = process /\ list' = list
  BY <1>2 DEF CollectGarbage
<1>4. CASE px[p].weak
  <2> PICK f \in [Proxy -> ProxyRec] : f = Released(p)
    BY ReleasedFields
  <2>1. /\ \A x \in Proxy :
             /\ f[x].kind = px[x].kind /\ f[x].rt = px[x].rt
             /\ f[x].live = px[x].live /\ f[x].held = px[x].held \ {p}
             /\ f[x].weak => px[x].weak
             /\ x # p => f[x].releases = px[x].releases
        /\ f[p].releases = 1 /\ ~f[p].weak
    BY <1>2, <1>4, ReleasedFields
  <2>2. px' = [f EXCEPT ![p].live = FALSE, ![p].heap = FALSE]
    BY <1>3, <1>4
  <2>3. /\ px' \in [Proxy -> ProxyRec]
        /\ \A x \in Proxy :
             /\ px'[x].kind = f[x].kind /\ px'[x].rt = f[x].rt
             /\ px'[x].held = f[x].held /\ px'[x].weak = f[x].weak
             /\ px'[x].releases = f[x].releases
             /\ px'[x].live => f[x].live
        /\ ~px'[p].live
    <3>1. PICK v \in ProxyRec : v = [f[p] EXCEPT !.live = FALSE, !.heap = FALSE]
      BY DEF ProxyRec
    <3>2. /\ v.kind = f[p].kind /\ v.rt = f[p].rt /\ v.held = f[p].held
          /\ v.weak = f[p].weak /\ v.releases = f[p].releases
          /\ v.live = FALSE
      BY <3>1 DEF ProxyRec
    <3>3. px' = [f EXCEPT ![p] = v]
      BY <2>2, <3>1
    <3>4. QED
      BY <3>2, <3>3
  <2>4. /\ \A x \in Proxy :
             /\ px'[x].kind = px[x].kind /\ px'[x].rt = px[x].rt
             /\ px'[x].live => px[x].live
             /\ px'[x].held \subseteq px[x].held
             /\ px'[x].weak => px[x].weak
             /\ x # p => px'[x].releases = px[x].releases
        /\ px'[p].releases = 1 /\ ~px'[p].weak
        /\ \A x \in Proxy : p \notin px'[x].held
    BY <2>1, <2>3
  <2>5. /\ list' \in [Runtime -> Seq(Proxy)]
        /\ \A q \in Runtime : \A i \in 1 .. Len(list'[q]) :
             \E j \in 1 .. Len(list[q]) : list'[q][i] = list[q][j]
        /\ \A q \in Runtime : list[q] = <<>> => list'[q] = <<>>
        /\ \A q \in Runtime, x \in Proxy :
             Contains(list[q], x) /\ x # p => Contains(list'[q], x)
    BY <1>3 DEF HostInv, HostTypes
  <2>6. px[p].kind \in HostKind => ~px'[p].live /\ Contains(list'[px[p].rt], p)
    BY <1>2, <1>3, <1>4, <2>3 DEF HostKind
  <2>7. HostInv'
    BY <1>2, <1>4, <2>3, <2>4, <2>5, <2>6, HostRelease
  <2>8. QED
    BY <1>3, <2>7
<1>5. CASE ~px[p].weak
  <2>1. px' = [px EXCEPT ![p].live = FALSE, ![p].heap = FALSE]
    BY <1>3, <1>5
  <2>2. /\ px' \in [Proxy -> ProxyRec]
        /\ \A x \in Proxy :
             /\ px'[x].kind = px[x].kind /\ px'[x].rt = px[x].rt
             /\ px'[x].held = px[x].held /\ px'[x].weak = px[x].weak
             /\ px'[x].releases = px[x].releases
             /\ px'[x].live => px[x].live
    BY <2>1 DEF HostInv, HostTypes, ProxyRec
  <2>3. ASSUME NEW x \in Proxy PROVE ProxyOK(x)'
    <3>1. ProxyOK(x)
      BY DEF HostInv
    <3>2. HoldersThere(x)'
      BY <2>2, <3>1 DEF ProxyOK, HoldersThere, Phase
    <3>3. px'[x].rt = None => Unused(x)'
      BY <2>2, <3>1 DEF ProxyOK, Unused
    <3>4. WeakNotReleased(x)'
      BY <2>2, <3>1 DEF ProxyOK, WeakNotReleased
    <3>5. TrackedUntilReset(x)'
      BY <1>3, <2>2, <3>1 DEF ProxyOK, TrackedUntilReset
    <3>6. QED
      BY <3>2, <3>3, <3>4, <3>5 DEF ProxyOK
  <2>4. ASSUME NEW q \in Runtime PROVE ListOK(q)'
    <3>1. \A i \in 1 .. Len(list[q]) : list[q][i] \in Proxy
      BY ElementOfSeq DEF HostInv, HostTypes
    <3>2. QED
      BY <1>3, <2>2, <3>1 DEF HostInv, ListOK
  <2>5. QED
    BY <1>3, <2>2, <2>3, <2>4 DEF HostInv, HostTypes
<1>6. QED
  BY <1>4, <1>5

(* When the last runtime has come to the end of its list nothing holds a   *)
(* pointer: not the application, and no host object, for every one of them *)
(* is released.                                                            *)
LEMMA NothingHeldAtTheEnd ==
    ASSUME IsoInv, HostInv, NEW r \in Runtime, InUse = {r},
           rt[r].phase = "closing", list[r] = <<>>
    PROVE  \A p \in Proxy : px[p].held = {}
<1> SUFFICES ASSUME NEW p \in Proxy, NEW h \in px[p].held PROVE FALSE
  OBVIOUS
<1>1. ProxyOK(p) /\ h \in Proxy \cup {App}
  BY DEF HostInv, HostTypes, ProxyRec
<1>2. CASE h = App
  BY <1>1, <1>2 DEF ProxyOK, HoldersThere, InUse, Phase
<1>3. CASE h \in Proxy
  <2>1. px[h].kind \in HostKind /\ px[h].releases = 0 /\ ProxyOK(h)
    BY <1>1, <1>3 DEF ProxyOK, HoldersThere, HostInv
  <2>2. PICK q \in Runtime : q = px[h].rt /\ Contains(list[q], h)
    BY <2>1 DEF ProxyOK, TrackedUntilReset
  <2>3. list[q] # <<>>
    BY <2>2, EmptyContainsNothing
  <2>4. rt[q].phase \in {"live", "closing"}
    BY <2>3 DEF HostInv, ListOK, IsoInv, IsoTypes, RuntimeRec
  <2>5. q = r
    BY <2>4 DEF InUse, Phase
  <2>6. QED
    BY <2>3, <2>5
<1>4. QED
  BY <1>1, <1>2, <1>3

(* The rest of ~V8Runtime: the list is empty, and if the isolate goes      *)
(* nothing is held in it.                                                  *)
LEMMA HostFinish ==
    ASSUME IsoInv, HostInv, NEW r \in Runtime, FinishDestroy(r)
    PROVE  /\ HostInv'
           /\ usage = 1 => \A p \in Proxy : px'[p].held = {}
           /\ usage # 1 => px' = px
<1>1. /\ rt[r].phase = "closing" /\ list[r] = <<>>
      /\ list' = [list EXCEPT ![r] = <<>>]
      /\ rt' = [rt EXCEPT ![r].phase = "dead",
                          ![r].allocator = KeepsAllocator(r)]
  BY DEF FinishDestroy, TrackersReset
<1>2. list' = list
  BY <1>1 DEF HostInv, HostTypes
<1>3. /\ rt'[r].phase = "dead"
      /\ \A q \in Runtime \ {r} : rt'[q] = rt[q]
  BY <1>1 DEF IsoInv, IsoTypes, RuntimeRec
<1>4. CASE usage # 1
  <2>1. px' = px
    BY <1>4 DEF FinishDestroy
  <2>2. \A p \in Proxy : px[p].rt = r => App \notin px[p].held
    BY <1>1 DEF HostInv, ProxyOK, HoldersThere, Phase
  <2>3. HostInv'
    BY <1>1, <1>2, <1>3, <2>1, <2>2, HostPhase DEF hostVars
  <2>4. QED
    BY <1>4, <2>1, <2>3
<1>5. CASE usage = 1
  <2>1. InUse = {r}
    BY <1>5, IsoFinish
  <2>2. \A p \in Proxy : px[p].held = {}
    BY <1>1, <2>1, NothingHeldAtTheEnd
  <2>3. px' = [p \in Proxy |-> Disposed(p)]
    BY <1>5 DEF FinishDestroy
  <2>4. ASSUME NEW p \in Proxy
        PROVE  /\ px'[p] \in ProxyRec
               /\ px'[p].kind = px[p].kind /\ px'[p].rt = px[p].rt
               /\ px'[p].held = {} /\ px'[p].releases = px[p].releases
               /\ ~px'[p].live /\ ~px'[p].weak
    <3>1. PICK v \in ProxyRec : v = px[p]
      BY DEF HostInv, HostTypes
    <3>2. px'[p] = [v EXCEPT !.live = FALSE, !.heap = FALSE, !.weak = FALSE]
      BY <2>3, <3>1 DEF Disposed
    <3>3. px'[p] = [kind |-> v.kind, rt |-> v.rt, live |-> FALSE,
                    heap |-> FALSE, held |-> v.held, weak |-> FALSE,
                    releases |-> v.releases]
      BY <3>2 DEF ProxyRec
    <3>4. px'[p] \in ProxyRec
      BY <3>3 DEF ProxyRec
    <3>5. QED
      BY <2>2, <3>1, <3>3, <3>4
  <2>5. px' \in [Proxy -> ProxyRec]
    BY <2>3, <2>4
  <2>6. ASSUME NEW x \in Proxy PROVE ProxyOK(x)'
    <3>1. ProxyOK(x)
      BY DEF HostInv
    <3>2. HoldersThere(x)'
      BY <2>4 DEF HoldersThere
    <3>3. px'[x].rt = None => Unused(x)'
      BY <2>4, <3>1 DEF ProxyOK, Unused
    <3>4. WeakNotReleased(x)'
      BY <2>4, <3>1 DEF ProxyOK, WeakNotReleased
    <3>5. TrackedUntilReset(x)'
      BY <1>1, <1>2, <1>3, <2>4, <3>1 DEF ProxyOK, TrackedUntilReset
    <3>6. QED
      BY <3>2, <3>3, <3>4, <3>5 DEF ProxyOK
  <2>7. ASSUME NEW q \in Runtime PROVE ListOK(q)'
    <3>1. \A i \in 1 .. Len(list[q]) : list[q][i] \in Proxy
      BY ElementOfSeq DEF HostInv, HostTypes
    <3>2. /\ \A i \in 1 .. Len(list[q]) :
               px[list[q][i]].rt = q /\ px[list[q][i]].kind \in HostKind
          /\ rt[q].phase \in {"none", "dead"} => list[q] = <<>>
      BY DEF HostInv, ListOK
    <3>3. rt'[q].phase \in {"none", "dead"} => list[q] = <<>>
      BY <1>1, <1>3, <3>2
    <3>4. \A i \in 1 .. Len(list[q]) :
             px'[list[q][i]].rt = q /\ px'[list[q][i]].kind \in HostKind
      BY <2>4, <3>1, <3>2
    <3>5. QED
      BY <1>2, <3>3, <3>4 DEF ListOK
  <2>8. HostInv'
    BY <1>2, <2>5, <2>6, <2>7 DEF HostInv, HostTypes
  <2>9. QED
    BY <1>5, <2>4, <2>8
<1>6. QED
  BY <1>4, <1>5

-----------------------------------------------------------------------------
(* Calls, exceptions and microtasks.                                       *)

(* All but the last of a sequence.                                         *)
LEMMA FrontOf ==
    ASSUME NEW S, NEW s \in Seq(S), s # <<>>
    PROVE  /\ Front(s) \in Seq(S) /\ Len(Front(s)) = Len(s) - 1
           /\ \A i \in 1 .. Len(s) - 1 : Front(s)[i] = s[i]
           /\ Len(s) \in Nat \ {0}
<1>1. Len(s) \in Nat /\ Len(s) # 0
  BY EmptySeq, LenProperties
<1>2. Front(s) = SubSeq(s, 1, Len(s) - 1)
  BY DEF Front
<1>3. PICK n \in Nat : n = Len(s) - 1
  BY <1>1
<1>4. \A i \in 1 .. n : s[i] \in S
  BY <1>1, <1>3, ElementOfSeq
<1>5. /\ SubSeq(s, 1, n) \in Seq(S)
      /\ Len(SubSeq(s, 1, n)) = IF 1 <= n THEN n - 1 + 1 ELSE 0
      /\ \A i \in 1 .. n - 1 + 1 : SubSeq(s, 1, n)[i] = s[1 + i - 1]
  BY <1>4, SubSeqProperties
<1>6. /\ Len(SubSeq(s, 1, n)) = n
      /\ \A i \in 1 .. n : i \in 1 .. n - 1 + 1 /\ 1 + i - 1 = i
  BY <1>5
<1>7. \A i \in 1 .. n : SubSeq(s, 1, n)[i] = s[i]
  BY <1>5, <1>6
<1>8. QED
  BY <1>1, <1>2, <1>3, <1>5, <1>6, <1>7

(* A call returns to what made it.                                         *)
LEMMA PopCall ==
    ASSUME NEW s \in Seq(FrameRec), s # <<>>, Nested(s)
    PROVE  /\ Front(s) \in Seq(FrameRec) /\ Nested(Front(s))
           /\ Front(s) # <<>> =>
                LET k == Front(s)[Len(Front(s))].kind
                    j == s[Len(s)].kind
                IN  /\ j \in {"js", "ignores", "drain"} => k = "host"
                    /\ j = "host" => k \in {"js", "ignores", "task"}
                    /\ j = "task" => k = "drain"
<1>1. /\ Front(s) \in Seq(FrameRec) /\ Len(Front(s)) = Len(s) - 1
      /\ \A i \in 1 .. Len(s) - 1 : Front(s)[i] = s[i]
      /\ Len(s) \in Nat \ {0}
  BY FrontOf
<1>2. Nested(Front(s))
  <2>1. ASSUME NEW i \in 1 .. Len(Front(s))
        PROVE  /\ Front(s)[i] = s[i]
               /\ i > 1 => Front(s)[i - 1] = s[i - 1]
               /\ i \in 1 .. Len(s)
    BY <1>1
  <2>2. QED
    BY <2>1 DEF Nested
<1>3. ASSUME Front(s) # <<>>
      PROVE  /\ Len(s) > 1 /\ Front(s)[Len(Front(s))] = s[Len(s) - 1]
             /\ Len(s) \in 1 .. Len(s)
  <2>1. Len(Front(s)) # 0
    BY <1>1, <1>3, EmptySeq
  <2>2. QED
    BY <1>1, <2>1
<1>4. QED
  BY <1>1, <1>2, <1>3 DEF Nested

(* A call is made by what may make it.                                     *)
LEMMA PushCall ==
    ASSUME NEW s \in Seq(FrameRec), Nested(s), NEW f \in FrameRec,
           f.kind \in {"js", "ignores", "drain"} => s = <<>> \/ s[Len(s)].kind = "host",
           f.kind = "host" => s # <<>> /\ s[Len(s)].kind \in {"js", "ignores", "task"},
           f.kind = "task" => s # <<>> /\ s[Len(s)].kind = "drain"
    PROVE  /\ Append(s, f) \in Seq(FrameRec) /\ Nested(Append(s, f))
           /\ Append(s, f) # <<>>
           /\ Append(s, f)[Len(Append(s, f))] = f
<1>1. /\ Append(s, f) \in Seq(FrameRec) /\ Len(Append(s, f)) = Len(s) + 1
      /\ \A i \in 1 .. Len(s) : Append(s, f)[i] = s[i]
      /\ Append(s, f)[Len(s) + 1] = f
      /\ Len(s) \in Nat
  BY AppendProperties, LenProperties
<1>2. s = <<>> <=> Len(s) = 0
  BY EmptySeq
<1>3. ASSUME NEW i \in 1 .. Len(s)
      PROVE  /\ Append(s, f)[i] = s[i]
             /\ i > 1 => Append(s, f)[i - 1] = s[i - 1]
  BY <1>1
<1>4. Len(s) > 0 => Append(s, f)[(Len(s) + 1) - 1] = s[Len(s)]
  BY <1>1
<1>5. \A i \in 1 .. Len(Append(s, f)) : i \in 1 .. Len(s) \/ i = Len(s) + 1
  BY <1>1
<1>6. Nested(Append(s, f))
  <2> SUFFICES ASSUME NEW i \in 1 .. Len(Append(s, f))
               PROVE  /\ Append(s, f)[i].kind \in {"js", "ignores", "drain"} =>
                           i = 1 \/ Append(s, f)[i - 1].kind = "host"
                      /\ Append(s, f)[i].kind = "host" =>
                           i > 1 /\ Append(s, f)[i - 1].kind \in {"js", "ignores", "task"}
                      /\ Append(s, f)[i].kind = "task" =>
                           i > 1 /\ Append(s, f)[i - 1].kind = "drain"
    BY DEF Nested
  <2>1. CASE i \in 1 .. Len(s)
    BY <1>3, <2>1 DEF Nested
  <2>2. CASE i = Len(s) + 1
    <3>1. CASE Len(s) = 0
      BY <1>1, <1>2, <2>2, <3>1
    <3>2. CASE Len(s) > 0
      BY <1>1, <1>2, <1>4, <2>2, <3>2
    <3>3. QED
      BY <1>1, <3>1, <3>2
  <2>3. QED
    BY <1>5, <2>1, <2>2
<1>7. Append(s, f) # <<>>
  BY <1>1, EmptySeq
<1>8. QED
  BY <1>1, <1>6, <1>7

(* No call is in progress.                                                 *)
LEMMA RunInit == JsiInit => RunInv
<1>1. <<>> \in Seq(FrameRec) /\ <<>> \in Seq(Runtime) /\ Len(<<>>) = 0
  BY EmptySeq
<1>2. QED
  BY <1>1 DEF JsiInit, RunInv, RunTypes, Nested, ExceptionInPlace

(* The calls and exceptions stay; microtasks may come, or go with the      *)
(* isolate, and the process may end.                                       *)
LEMMA RunQuiet ==
    ASSUME RunInv, UNCHANGED <<stack, exc>>, micro' \in Seq(Runtime),
           process' \in Ending \cup {"running"}
    PROVE  RunInv'
BY DEF RunInv, RunTypes

(* Where an exception may cross: it takes its other form, a microtask ends *)
(* by it, or a checkpoint keeps it for the operation that goes on.         *)
Crossing ==
    exc # "none" /\ process' = "running" /\ stack' # stack =>
      \/ exc' # "none" /\ exc' # exc
      \/ Top.kind \in {"task", "ignores"} /\ exc = "js"
      \/ /\ stack' # <<>>
         /\ stack'[Len(stack')].kind = "drain"
         /\ stack'[Len(stack')].saved \in {"js", "cpp"} \ {exc}

(* An exception is thrown or caught.                                       *)
LEMMA RunThrow ==
    ASSUME RunInv,
           \/ \E r \in Runtime : CreationFails(r)
           \/ ThrowInJS \/ CatchInJS \/ ThrowInHost \/ CatchInHost
    PROVE  RunInv' /\ Crossing
<1>1. UNCHANGED <<process, stack, micro>>
  BY DEF CreationFails, ThrowInJS, CatchInJS, ThrowInHost, CatchInHost
<1>2. exc' \in {"none", "js", "cpp"}
  BY DEF CreationFails, ThrowInJS, CatchInJS, ThrowInHost, CatchInHost
<1>3. ExceptionInPlace(stack, exc')
  <2> SUFFICES ASSUME stack # <<>>
               PROVE  /\ exc' = "cpp" => Top.kind = "host"
                      /\ Top.kind = "drain" => exc' = "none"
    BY DEF ExceptionInPlace, Top
  <2>1. CASE (\E r \in Runtime : CreationFails(r)) \/ ThrowInHost
    BY <2>1 DEF CreationFails, ThrowInHost, HostTurn, HostOnTop
  <2>2. CASE ThrowInJS
    BY <2>2 DEF ThrowInJS, JSTurn, JSOnTop, Operation
  <2>3. CASE CatchInJS \/ CatchInHost
    BY <2>3 DEF CatchInJS, CatchInHost
  <2>4. QED
    BY <2>1, <2>2, <2>3
<1>4. QED
  BY <1>1, <1>2, <1>3 DEF RunInv, RunTypes, Crossing

(* A call begins.                                                          *)
LEMMA RunPush ==
    ASSUME RunInv, exc = "none", UNCHANGED exc, NEW f \in FrameRec,
           stack' = Append(stack, f),
           process' = process, micro' \in Seq(Runtime),
           f.kind \in {"js", "ignores", "drain"} => HostOnTop,
           f.kind = "host" => stack # <<>> /\ Top.kind \in {"js", "ignores", "task"},
           f.kind = "task" => stack # <<>> /\ Top.kind = "drain"
    PROVE  RunInv' /\ Crossing
<1>1. f.kind \in {"js", "ignores", "drain"} => stack = <<>> \/ Top.kind = "host"
  BY DEF HostOnTop
<1>2. stack' \in Seq(FrameRec) /\ Nested(stack')
  BY <1>1, PushCall DEF RunInv, RunTypes, Top
<1>3. QED
  BY <1>2 DEF RunInv, RunTypes, ExceptionInPlace, Crossing

(* Whoever calls: the runtime, JavaScript, or V8 that runs a microtask.    *)
LEMMA RunCalls ==
    ASSUME RunInv, px \in [Proxy -> ProxyRec],
           \/ \E r \in Runtime, k \in Operation : CallJS(r, k)
           \/ \E r \in Runtime : DrainMicrotasks(r)
           \/ \E p \in Proxy : EnterHost(p)
           \/ RunMicrotask
    PROVE  RunInv' /\ Crossing
<1>0. micro \in Seq(Runtime) /\ process \in Ending \cup {"running"}
  BY DEF RunInv, RunTypes
<1>1. ASSUME NEW r \in Runtime, NEW k \in Operation, CallJS(r, k)
      PROVE  RunInv' /\ Crossing
  <2>1. Frame(k, r, None, "none") \in FrameRec
        /\ Frame(k, r, None, "none").kind \in {"js", "ignores"}
    BY DEF Frame, FrameRec, Operation
  <2>2. /\ exc = "none" /\ HostOnTop /\ UNCHANGED <<exc, process, micro>>
        /\ stack' = Append(stack, Frame(k, r, None, "none"))
    BY <1>1 DEF CallJS, HostTurn
  <2>3. QED
    BY <1>0, <2>1, <2>2, RunPush
<1>2. ASSUME NEW r \in Runtime, DrainMicrotasks(r)
      PROVE  RunInv' /\ Crossing
  <2>1. Frame("drain", r, None, "none") \in FrameRec
        /\ Frame("drain", r, None, "none").kind = "drain"
    BY DEF Frame, FrameRec
  <2>2. /\ exc = "none" /\ HostOnTop /\ UNCHANGED <<exc, process, micro>>
        /\ stack' = Append(stack, Frame("drain", r, None, "none"))
    BY <1>2 DEF DrainMicrotasks, HostTurn
  <2>3. QED
    BY <1>0, <2>1, <2>2, RunPush
<1>3. ASSUME NEW p \in Proxy, EnterHost(p)
      PROVE  RunInv' /\ Crossing
  <2>1. Frame("host", None, p, "none") \in FrameRec
        /\ Frame("host", None, p, "none").kind = "host"
    BY DEF Frame, FrameRec
  <2>2. /\ exc = "none" /\ UNCHANGED <<exc, micro>>
        /\ stack # <<>> /\ Top.kind \in {"js", "ignores", "task"}
    BY <1>3 DEF EnterHost, JSTurn, JSOnTop, Operation
  <2>3. CASE process' = "runtime" /\ UNCHANGED stack
    BY <1>0, <2>2, <2>3, RunQuiet DEF Crossing, Ending
  <2>4. CASE UNCHANGED process
             /\ stack' = Append(stack, Frame("host", None, p, "none"))
    BY <1>0, <2>1, <2>2, <2>4, RunPush
  <2>5. QED
    BY <1>3, <2>3, <2>4 DEF EnterHost
<1>4. ASSUME RunMicrotask
      PROVE  RunInv' /\ Crossing
  <2>1. /\ stack # <<>> /\ Top.kind = "drain" /\ micro # <<>>
        /\ UNCHANGED <<exc, process>> /\ micro' = Tail(micro)
        /\ stack' = Append(stack, Frame("task", Head(micro), None, "none"))
    BY <1>4 DEF RunMicrotask
  <2>2. exc = "none"
    BY <2>1 DEF RunInv, ExceptionInPlace, Top
  <2>3. Head(micro) \in Runtime /\ micro' \in Seq(Runtime)
    BY <1>0, <2>1, HeadTailProperties
  <2>4. Frame("task", Head(micro), None, "none") \in FrameRec
        /\ Frame("task", Head(micro), None, "none").kind = "task"
    BY <2>3 DEF Frame, FrameRec
  <2>5. QED
    BY <2>1, <2>2, <2>3, <2>4, RunPush
<1>5. QED
  BY <1>1, <1>2, <1>3, <1>4

(* A call ends, with e: an exception of JavaScript where JavaScript called, *)
(* one of C++ where C++ did, or none.                                      *)
LEMMA RunPop ==
    ASSUME RunInv, stack # <<>>, stack' = Front(stack),
           exc' \in {"none", "js", "cpp"},
           UNCHANGED <<process, micro>>,
           exc' = "cpp" => Top.kind \in {"js", "ignores", "drain"},
           Top.kind = "task" => exc' = "none"
    PROVE  RunInv'
<1>1. /\ stack' \in Seq(FrameRec) /\ Nested(stack')
      /\ stack' # <<>> =>
           /\ Top.kind \in {"js", "ignores", "drain"} => stack'[Len(stack')].kind = "host"
           /\ Top.kind = "host" => stack'[Len(stack')].kind \in {"js", "ignores", "task"}
           /\ Top.kind = "task" => stack'[Len(stack')].kind = "drain"
  BY PopCall DEF RunInv, RunTypes, Top
<1>2. Top.kind \in {"js", "ignores", "host", "drain", "task"}
  <2>1. Len(stack) \in 1 .. Len(stack)
    BY FrontOf DEF RunInv, RunTypes
  <2>2. Top \in FrameRec
    BY <2>1, ElementOfSeq DEF RunInv, RunTypes, Top
  <2>3. QED
    BY <2>2 DEF FrameRec
<1>3. ExceptionInPlace(stack', exc')
  BY <1>1, <1>2 DEF ExceptionInPlace
<1>4. QED
  BY <1>1, <1>3 DEF RunInv, RunTypes

(* An operation of the runtime ends: V8 may run microtasks before it goes  *)
(* on with the exception.                                                  *)
LEMMA RunLeave ==
    ASSUME RunInv, stack # <<>>, Top.kind \in {"js", "ignores"},
           NEW e \in {"none", "cpp"}, Leave(e), UNCHANGED <<process, micro>>,
           exc # "none" => exc = "js" /\ (e = "cpp" \/ Top.kind = "ignores")
    PROVE  RunInv' /\ Crossing
<1>0. /\ Len(stack) \in 1 .. Len(stack) /\ Len(stack) \in Nat
      /\ Top \in FrameRec
  <2>1. Len(stack) \in 1 .. Len(stack) /\ Len(stack) \in Nat
    BY FrontOf DEF RunInv, RunTypes
  <2>2. QED
    BY <2>1, ElementOfSeq DEF RunInv, RunTypes, Top
<1>1. CASE stack' = Front(stack) /\ exc' = e
  BY <1>1, RunPop DEF Crossing
<1>2. CASE stack' = <<Frame("drain", Top.rt, None, e)>> /\ exc' = "none"
  <2> PICK f : f = Frame("drain", Top.rt, None, e)
    OBVIOUS
  <2>1. f \in FrameRec /\ f.kind = "drain" /\ f.saved = e
    BY <1>0 DEF Frame, FrameRec
  <2>2. /\ stack' \in Seq(FrameRec) /\ Len(stack') = 1 /\ stack'[1] = f
        /\ stack' # <<>>
    BY <1>2, <2>1
  <2>3. Nested(stack')
    BY <2>1, <2>2 DEF Nested
  <2>4. RunInv'
    BY <1>2, <2>2, <2>3 DEF RunInv, RunTypes, ExceptionInPlace
  <2>5. Crossing
    BY <2>1, <2>2 DEF Crossing
  <2>6. QED
    BY <2>4, <2>5
<1>3. QED
  BY <1>1, <1>2 DEF Leave

(* Whatever ends a call or a checkpoint.                                   *)
LEMMA RunReturns ==
    ASSUME RunInv,
           \/ ReturnFromJS \/ UnwindJS \/ SwallowException \/ UnwindTask
           \/ ReturnFromHost \/ UnwindAccessor \/ UnwindFunction
           \/ EndCheckpoint
    PROVE  RunInv' /\ Crossing
<1>1. CASE ReturnFromJS
  <2>1. /\ stack # <<>> /\ Top.kind \in {"js", "ignores", "task"} /\ exc = "none"
        /\ UNCHANGED <<process, micro>>
    BY <1>1 DEF ReturnFromJS, JSTurn, JSOnTop, Operation
  <2>2. CASE Top.kind = "task"
    <3>1. stack' = Front(stack) /\ exc' = exc
      BY <1>1, <2>2 DEF ReturnFromJS
    <3>2. QED
      BY <2>1, <2>2, <3>1, RunPop DEF Crossing
  <2>3. CASE Top.kind \in {"js", "ignores"}
    <3>1. Leave("none")
      BY <1>1, <2>3 DEF ReturnFromJS
    <3>2. QED
      BY <2>1, <2>3, <3>1, RunLeave
  <2>4. QED
    BY <2>1, <2>2, <2>3
<1>2. CASE UnwindJS
  <2>1. /\ stack # <<>> /\ Top.kind = "js" /\ exc = "js" /\ Leave("cpp")
        /\ UNCHANGED <<process, micro>>
    BY <1>2 DEF UnwindJS, JSOnTop, ReportException
  <2>2. QED
    BY <2>1, RunLeave
<1>3. CASE UnwindTask
  <2>1. /\ stack # <<>> /\ Top.kind = "task" /\ exc = "js" /\ exc' = "none"
        /\ stack' = Front(stack) /\ UNCHANGED <<process, micro>>
    BY <1>3 DEF UnwindTask, JSOnTop
  <2>2. QED
    BY <2>1, RunPop DEF Crossing
<1>4. CASE ReturnFromHost
  <2>1. /\ stack # <<>> /\ Top.kind = "host" /\ exc = "none" /\ exc' = "none"
        /\ stack' = Front(stack) /\ UNCHANGED <<process, micro>>
    BY <1>4 DEF ReturnFromHost, HostTurn, HostOnTop
  <2>2. QED
    BY <2>1, RunPop DEF Crossing
<1>5. CASE UnwindAccessor \/ UnwindFunction
  <2>1. /\ stack # <<>> /\ exc = "cpp" /\ exc' = "js"
        /\ stack' = Front(stack) /\ UNCHANGED <<process, micro>>
    BY <1>5 DEF UnwindAccessor, UnwindFunction, ThrowToJS
  <2>2. Top.kind = "host"
    BY <2>1 DEF RunInv, ExceptionInPlace, Top
  <2>3. QED
    BY <2>1, <2>2, RunPop DEF Crossing
<1>6. CASE EndCheckpoint
  <2>1. /\ stack # <<>> /\ Top.kind = "drain" /\ exc' = Top.saved
        /\ stack' = Front(stack) /\ UNCHANGED <<process, micro>>
    BY <1>6 DEF EndCheckpoint
  <2>2. exc = "none"
    BY <2>1 DEF RunInv, ExceptionInPlace, Top
  <2>3. Len(stack) \in 1 .. Len(stack)
    BY <2>1, FrontOf DEF RunInv, RunTypes
  <2>4. Top \in FrameRec
    BY <2>3, ElementOfSeq DEF RunInv, RunTypes, Top
  <2>5. Top.saved \in {"none", "js", "cpp"}
    BY <2>4 DEF FrameRec
  <2>6. QED
    BY <2>1, <2>2, <2>5, RunPop DEF Crossing
<1>7. CASE SwallowException
  <2>1. /\ stack # <<>> /\ Top.kind = "ignores" /\ exc = "js" /\ Leave("none")
        /\ UNCHANGED <<process, micro>>
    BY <1>7 DEF SwallowException, JSOnTop
  <2>2. QED
    BY <2>1, RunLeave
<1>8. QED
  BY <1>1, <1>2, <1>3, <1>4, <1>5, <1>6, <1>7

-----------------------------------------------------------------------------
(* The invariant and what follows from it.                                 *)

(* A new runtime, the end of one, and the end of the platform.             *)
LEMMA RuntimeSteps ==
    ASSUME JsiInv,
           \/ DisposePlatform
           \/ \E r \in Runtime :
                \/ \E e \in BOOLEAN : CreateRuntime(r, e)
                \/ DestroyRuntime(r) \/ ResetHostObject(r) \/ FinishDestroy(r)
    PROVE  JsiInv' /\ Crossing
<1>0. micro \in Seq(Runtime) /\ process \in Ending \cup {"running"}
      /\ <<>> \in Seq(Runtime)
  BY EmptySeq DEF JsiInv, RunInv, RunTypes
<1>1. CASE DisposePlatform
  <2>1. IsoInv'
    BY <1>1, IsoDispose DEF JsiInv
  <2>2. HostInv' /\ UNCHANGED <<process, runVars>>
    BY <1>1, HostQuiet DEF JsiInv, DisposePlatform
  <2>3. QED
    BY <1>0, <2>1, <2>2, RunQuiet DEF JsiInv, runVars, Crossing
<1>2. ASSUME NEW r \in Runtime, NEW e \in BOOLEAN, CreateRuntime(r, e)
      PROVE  JsiInv' /\ Crossing
  <2>1. IsoInv' /\ HostInv'
    BY <1>2, IsoCreate, HostCreate DEF JsiInv
  <2>2. UNCHANGED runVars /\ process' \in {process, "platform"}
    BY <1>2 DEF CreateRuntime
  <2>3. QED
    BY <1>0, <2>1, <2>2, RunQuiet DEF JsiInv, runVars, Crossing, Ending
<1>3. ASSUME NEW r \in Runtime, DestroyRuntime(r)
      PROVE  JsiInv' /\ Crossing
  <2>1. IsoInv' /\ HostInv'
    BY <1>3, IsoDestroy, HostDestroy DEF JsiInv
  <2>2. UNCHANGED <<process, runVars>>
    BY <1>3 DEF DestroyRuntime
  <2>3. QED
    BY <1>0, <2>1, <2>2, RunQuiet DEF JsiInv, runVars, Crossing
<1>4. ASSUME NEW r \in Runtime, ResetHostObject(r)
      PROVE  JsiInv' /\ Crossing
  <2>1. UNCHANGED <<process, isoVars, runVars>>
    BY <1>4 DEF ResetHostObject
  <2>2. IsoInv' /\ HostInv'
    BY <1>4, <2>1, IsoQuiet, HostReset DEF JsiInv, isoVars
  <2>3. QED
    BY <1>0, <2>1, <2>2, RunQuiet DEF JsiInv, runVars, Crossing
<1>5. ASSUME NEW r \in Runtime, FinishDestroy(r)
      PROVE  JsiInv' /\ Crossing
  <2>1. IsoInv' /\ HostInv'
    BY <1>5, IsoFinish, HostFinish DEF JsiInv
  <2>2. UNCHANGED <<process, stack, exc>> /\ micro' \in {micro, <<>>}
    BY <1>5 DEF FinishDestroy
  <2>3. QED
    BY <1>0, <2>1, <2>2, RunQuiet DEF JsiInv, Crossing
<1>6. QED
  BY <1>1, <1>2, <1>3, <1>4, <1>5

(* Objects are made, held, let go of and collected.                        *)
LEMMA ProxySteps ==
    ASSUME JsiInv, NEW p \in Proxy,
           \/ \E r \in Runtime : \/ CreateHostObject(r, p)
                                 \/ CreateFunctionFromHostFunction(r, p)
                                 \/ MakePointer(r, p)
           \/ SetNativeState(p)
           \/ LockWeakObject(p)
           \/ \E q \in Proxy : KeepPointer(q, p)
           \/ Invalidate(p)
           \/ \E b \in BOOLEAN : StoreObject(p, b)
           \/ CollectGarbage(p)
    PROVE  JsiInv' /\ Crossing
<1>1. UNCHANGED <<isoVars, runVars>> /\ rt' = rt
  BY DEF CreateHostObject, CreateFunctionFromHostFunction, MakePointer,
         SetNativeState, LockWeakObject, KeepPointer, Invalidate, StoreObject,
         CollectGarbage, isoVars
<1>2. IsoInv'
  BY <1>1, IsoQuiet DEF JsiInv
<1>3. HostInv' /\ process' \in {process, "null"}
  <2>1. ASSUME NEW r \in Runtime, CreateHostObject(r, p)
        PROVE  HostInv' /\ process' = process
    <3>1. /\ rt[r].phase = "live" /\ px[p].rt = None /\ process' = process
          /\ px' = [px EXCEPT ![p] = NewObject(p, r, "object")]
          /\ list' = IF "object" = "plain" THEN list ELSE Tracked(r, p)
          /\ "object" \in Kind \ {"state"}
      BY <2>1 DEF CreateHostObject, Kind
    <3>2. QED
      BY <1>1, <3>1, HostMake DEF JsiInv
  <2>2. ASSUME NEW r \in Runtime, CreateFunctionFromHostFunction(r, p)
        PROVE  HostInv' /\ process' = process
    <3>1. /\ rt[r].phase = "live" /\ px[p].rt = None /\ process' = process
          /\ px' = [px EXCEPT ![p] = NewObject(p, r, "function")]
          /\ list' = IF "function" = "plain" THEN list ELSE Tracked(r, p)
          /\ "function" \in Kind \ {"state"}
      BY <2>2 DEF CreateFunctionFromHostFunction, Kind
    <3>2. QED
      BY <1>1, <3>1, HostMake DEF JsiInv
  <2>3. ASSUME NEW r \in Runtime, MakePointer(r, p)
        PROVE  HostInv' /\ process' = process
    <3>1. /\ rt[r].phase = "live" /\ px[p].rt = None /\ process' = process
          /\ px' = [px EXCEPT ![p] = NewObject(p, r, "plain")]
          /\ list' = IF "plain" = "plain" THEN list ELSE Tracked(r, p)
          /\ "plain" \in Kind \ {"state"}
      BY <2>3 DEF MakePointer, Kind
    <3>2. QED
      BY <1>1, <3>1, HostMake DEF JsiInv
  <2>4. CASE SetNativeState(p)
    BY <1>1, <2>4, HostNativeState DEF JsiInv, SetNativeState
  <2>5. CASE \/ LockWeakObject(p)
             \/ \E q \in Proxy : KeepPointer(q, p)
             \/ Invalidate(p)
             \/ \E b \in BOOLEAN : StoreObject(p, b)
    <3>1. process' = process
      BY <2>5 DEF LockWeakObject, KeepPointer, Invalidate, StoreObject
    <3>2. HostInv'
      BY <1>1, <2>5, HostPointers DEF JsiInv
    <3>3. QED
      BY <3>1, <3>2
  <2>6. CASE CollectGarbage(p)
    BY <1>1, <2>6, HostCollect DEF JsiInv
  <2>7. QED
    BY <2>1, <2>2, <2>3, <2>4, <2>5, <2>6
<1>4. process' \in Ending \cup {"running"} /\ micro' \in Seq(Runtime)
      /\ process' # "tracker" /\ UNCHANGED <<stack, exc>>
  BY <1>1, <1>3 DEF JsiInv, RunInv, RunTypes, Ending, runVars
<1>5. QED
  BY <1>2, <1>3, <1>4, RunQuiet DEF JsiInv, Crossing

(* Calls, exceptions and microtasks leave the objects and the isolate      *)
(* alone.                                                                  *)
LEMMA CallSteps ==
    ASSUME JsiInv,
           \/ \E r \in Runtime, k \in Operation : CallJS(r, k)
           \/ \E r \in Runtime : \/ CreationFails(r)
                                 \/ QueueMicrotask(r) \/ DrainMicrotasks(r)
           \/ \E p \in Proxy : EnterHost(p)
           \/ ReturnFromJS \/ ThrowInJS \/ CatchInJS \/ UnwindJS \/ UnwindTask
           \/ ReturnFromHost \/ ThrowInHost \/ CatchInHost
           \/ UnwindAccessor \/ UnwindFunction
           \/ SwallowException \/ ToLocalChecked \/ UnwindEnumerator
           \/ RunMicrotask \/ EndCheckpoint
    PROVE  JsiInv' /\ Crossing
<1>1. UNCHANGED <<isoVars, hostVars>>
  BY DEF CreationFails, CallJS, QueueMicrotask, DrainMicrotasks, EnterHost,
         ReturnFromJS, ThrowInJS, CatchInJS, UnwindJS, UnwindTask,
         ReturnFromHost, ThrowInHost, CatchInHost, UnwindAccessor,
         UnwindFunction, ThrowToJS, ToLocalChecked, UnwindEnumerator,
         RunMicrotask, EndCheckpoint, SwallowException
<1>2. process' \in {process, "runtime", "terminate"}
  BY DEF CreationFails, CallJS, QueueMicrotask, DrainMicrotasks, EnterHost,
         ReturnFromJS, ThrowInJS, CatchInJS, UnwindJS, UnwindTask,
         ReturnFromHost, ThrowInHost, CatchInHost, UnwindAccessor,
         UnwindFunction, ThrowToJS, ToLocalChecked, UnwindEnumerator,
         RunMicrotask, EndCheckpoint, SwallowException
<1>3. IsoInv' /\ HostInv' /\ process' # "tracker"
  BY <1>1, <1>2, IsoQuiet, HostQuiet DEF JsiInv, isoVars
<1>4. RunInv /\ px \in [Proxy -> ProxyRec] /\ micro \in Seq(Runtime)
  BY DEF JsiInv, HostInv, HostTypes, RunInv, RunTypes
<1>5. CASE \/ \E r \in Runtime : CreationFails(r)
           \/ ThrowInJS \/ CatchInJS \/ ThrowInHost \/ CatchInHost
  BY <1>3, <1>4, <1>5, RunThrow DEF JsiInv
<1>6. CASE \/ \E r \in Runtime, k \in Operation : CallJS(r, k)
           \/ \E r \in Runtime : DrainMicrotasks(r)
           \/ \E p \in Proxy : EnterHost(p)
           \/ RunMicrotask
  BY <1>3, <1>4, <1>6, RunCalls DEF JsiInv
<1>7. CASE \/ ReturnFromJS \/ UnwindJS \/ SwallowException \/ UnwindTask
           \/ ReturnFromHost \/ UnwindAccessor \/ UnwindFunction
           \/ EndCheckpoint
  BY <1>3, <1>4, <1>7, RunReturns DEF JsiInv
<1>8. CASE ToLocalChecked \/ UnwindEnumerator
  <2>1. process' = "terminate" /\ UNCHANGED <<stack, exc, micro>>
    BY <1>8 DEF ToLocalChecked, UnwindEnumerator, runVars
  <2>2. QED
    BY <1>3, <1>4, <2>1, RunQuiet DEF JsiInv, Crossing, Ending
<1>9. ASSUME NEW r \in Runtime, QueueMicrotask(r)
      PROVE  JsiInv' /\ Crossing
  <2>1. micro' = Append(micro, r) /\ UNCHANGED <<process, stack, exc>>
    BY <1>9 DEF QueueMicrotask
  <2>2. micro' \in Seq(Runtime)
    BY <1>4, <2>1, AppendProperties
  <2>3. QED
    BY <1>3, <1>4, <2>1, <2>2, RunQuiet DEF JsiInv, Crossing, RunInv, RunTypes
<1>10. QED
  BY <1>5, <1>6, <1>7, <1>8, <1>9

(* The process begins without runtimes, host objects and exceptions.       *)
LEMMA JsiInvInit == JsiInit => JsiInv
BY IsoInit, HostInit, RunInit DEF JsiInv, JsiInit

(* Every step of the thread keeps the invariant, and no exception is       *)
(* swallowed in it.                                                        *)
LEMMA JsiInvNext == JsiInv /\ [JsiNext]_jsiVars => JsiInv' /\ Crossing
<1> SUFFICES ASSUME JsiInv, [JsiNext]_jsiVars PROVE JsiInv' /\ Crossing
  OBVIOUS
<1>1. CASE UNCHANGED jsiVars
  <2>1. UNCHANGED <<process, isoVars, hostVars, stack, exc, micro, rt>>
    BY <1>1 DEF jsiVars, runVars, isoVars
  <2>2. IsoInv' /\ HostInv'
    BY <2>1, IsoQuiet, HostQuiet DEF JsiInv
  <2>3. RunInv' /\ process' # "tracker"
    BY <2>1, RunQuiet DEF JsiInv, RunInv, RunTypes
  <2>4. QED
    BY <2>1, <2>2, <2>3 DEF JsiInv, Crossing
<1>2. CASE JsiNext
  <2>1. CASE DisposePlatform
    BY <2>1, RuntimeSteps
  <2>2. CASE \E r \in Runtime : RuntimeStep(r)
    <3>1. PICK r \in Runtime : RuntimeStep(r)
      BY <2>2
    <3>2. CASE \/ \E e \in BOOLEAN : CreateRuntime(r, e)
               \/ DestroyRuntime(r) \/ ResetHostObject(r) \/ FinishDestroy(r)
      BY <3>2, RuntimeSteps
    <3>3. CASE \/ CreationFails(r) \/ \E k \in Operation : CallJS(r, k)
               \/ QueueMicrotask(r) \/ DrainMicrotasks(r)
      BY <3>3, CallSteps
    <3>4. QED
      BY <3>1, <3>2, <3>3 DEF RuntimeStep
  <2>3. CASE \E p \in Proxy : ProxyStep(p)
    <3>1. PICK p \in Proxy : ProxyStep(p)
      BY <2>3
    <3>2. CASE EnterHost(p)
      BY <3>2, CallSteps
    <3>3. CASE ~EnterHost(p)
      BY <3>1, <3>3, ProxySteps
         DEF ProxyStep, AccessHostObject, CallHostFunction, CreateString,
             CreatePropNameIDFrom, CreateValue
    <3>4. QED
      BY <3>2, <3>3
  <2>4. CASE \/ ReturnFromJS \/ ThrowInJS \/ CatchInJS \/ UnwindJS \/ UnwindTask
             \/ ReturnFromHost \/ ThrowInHost \/ CatchInHost
             \/ UnwindAccessor \/ UnwindFunction
             \/ SwallowException \/ ToLocalChecked \/ UnwindEnumerator
             \/ RunMicrotask \/ EndCheckpoint
    BY <2>4, CallSteps
  <2>5. QED
    BY <1>2, <2>1, <2>2, <2>3, <2>4 DEF JsiNext
<1>3. QED
  BY <1>1, <1>2

(* The types of the variables, with the counters between zero and the      *)
(* number of runtimes.                                                     *)
LEMMA TypesFollow == JsiInv => JsiTypeOK
<1> SUFFICES ASSUME JsiInv PROVE JsiTypeOK
  OBVIOUS
<1>1. InUse \in SUBSET Runtime /\ Created \in SUBSET Runtime
  BY DEF InUse, Phase, Created
<1>2. /\ Cardinality(InUse) \in Nat /\ Cardinality(Created) \in Nat
      /\ Cardinality(InUse) <= Cardinality(Runtime)
      /\ Cardinality(Created) <= Cardinality(Runtime)
      /\ Cardinality(Runtime) \in Nat
  BY <1>1, RuntimesFinite
<1>3. usage \in 0 .. Cardinality(Runtime)
      /\ isolate.no \in 0 .. Cardinality(Runtime)
  BY <1>2 DEF JsiInv, IsoInv, IsoTypes, IsolateCounted
<1>4. Range(micro) \subseteq Runtime
  BY ElementOfSeq, LenProperties DEF JsiInv, RunInv, RunTypes, Range
<1>5. /\ process \in Ending \cup {"running"}
      /\ exc \in {"none", "js", "cpp"}
      /\ platform \in {"none", "live", "disposed"}
      /\ agent.holders \cup agent.contexts \subseteq Runtime
  BY DEF JsiInv, RunInv, RunTypes, IsoInv, IsoTypes
<1>6. \A r \in Runtime :
         /\ rt[r].phase \in {"none", "live", "closing", "dead"}
         /\ list[r] \in Seq(Proxy)
  BY DEF JsiInv, HostInv, HostTypes, IsoInv, IsoTypes, RuntimeRec
<1>7. \A p \in Proxy :
         /\ px[p].kind \in Kind
         /\ px[p].rt \in Runtime \cup {None}
         /\ px[p].held \subseteq Proxy \cup {App}
  BY DEF JsiInv, HostInv, HostTypes, ProxyRec
<1>8. QED
  BY <1>3, <1>4, <1>5, <1>6, <1>7 DEF JsiTypeOK

(* What the trackers are for.                                              *)
LEMMA HostsFollow == JsiInv => HostsReleasedOnce
<1> SUFFICES ASSUME JsiInv PROVE HostsReleasedOnce
  OBVIOUS
<1>1. WeakHandleHasTracker
  <2>1. ASSUME NEW p \in Proxy, px[p].weak, px[p].kind # "state"
        PROVE  Contains(list[px[p].rt], p)
    <3>1. ProxyOK(p) /\ px[p].kind \in Kind
      BY DEF JsiInv, HostInv, HostTypes, ProxyRec
    <3>2. px[p].kind \in HostKind /\ px[p].releases = 0
      BY <2>1, <3>1 DEF ProxyOK, WeakNotReleased, Kind, HostKind
    <3>3. QED
      BY <3>1, <3>2 DEF ProxyOK, TrackedUntilReset
  <2>2. QED
    BY <2>1 DEF WeakHandleHasTracker, JsiInv
<1>2. HostReleasedOnce
  BY DEF JsiInv, HostInv, ProxyOK, WeakNotReleased, HostReleasedOnce
<1>3. DeadRuntimeReleasesHosts
  <2>1. ASSUME NEW p \in Proxy, px[p].kind \in HostKind,
               rt[px[p].rt].phase = "dead"
        PROVE  px[p].releases = 1
    <3>1. ProxyOK(p)
      BY DEF JsiInv, HostInv
    <3>2. PICK r \in Runtime : r = px[p].rt
      BY <2>1, <3>1 DEF ProxyOK, TrackedUntilReset
    <3>3. list[r] = <<>>
      BY <2>1, <3>2 DEF JsiInv, HostInv, ListOK
    <3>4. ~Contains(list[r], p)
      BY <3>3, EmptyContainsNothing
    <3>5. QED
      BY <2>1, <3>1, <3>2, <3>4 DEF ProxyOK, TrackedUntilReset
  <2>2. QED
    BY <2>1 DEF DeadRuntimeReleasesHosts, HostKind
<1>4. HostObjectIsKnown
  <2>1. ASSUME NEW r \in Phase("live"), NEW p \in Proxy, px[p].live
        PROVE  /\ px[p].rt = r /\ px[p].kind = "object" => IsHostObject(r, p)
               /\ IsHostObject(r, p) => HasHostObject(p)
    <3>1. r \in Runtime /\ rt[r].phase = "live" /\ ProxyOK(p)
          /\ px[p].releases \in Nat
      BY DEF Phase, JsiInv, HostInv, HostTypes, ProxyRec
    <3>2. ASSUME px[p].rt = r, px[p].kind = "object"
          PROVE  IsHostObject(r, p)
      BY <3>1, <3>2 DEF ProxyOK, TrackedUntilReset, HostKind, IsHostObject
    <3>3. ASSUME IsHostObject(r, p)
          PROVE  HasHostObject(p)
      <4>1. px[p].rt = r
        BY <3>1, <3>3 DEF IsHostObject, Contains, JsiInv, HostInv, ListOK
      <4>2. px[p].releases # 1
        BY <2>1, <3>1, <3>3, <4>1
           DEF IsHostObject, ProxyOK, TrackedUntilReset, HostKind
      <4>3. px[p].releases <= 1
        BY <3>1 DEF ProxyOK, WeakNotReleased
      <4>4. QED
        BY <3>1, <4>2, <4>3 DEF HasHostObject
    <3>4. QED
      BY <3>2, <3>3
  <2>2. QED
    BY <2>1 DEF HostObjectIsKnown
<1>5. QED
  BY <1>1, <1>2, <1>3, <1>4, TypesFollow DEF HostsReleasedOnce

(* Without a runtime there is nobody left to hold a pointer.               *)
LEMMA UsersFollow == JsiInv => IsolateOutlivesItsUsers
<1> SUFFICES ASSUME JsiInv PROVE IsolateOutlivesItsUsers
  OBVIOUS
<1>1. IsolateServesItsRuntimes /\ AgentFollowsRuntimes
  BY DEF JsiInv, IsoInv, AgentHeld, AgentFollowsRuntimes
<1>2. ASSUME ~isolate.live, NEW p \in Proxy, NEW h \in px[p].held PROVE FALSE
  <2>1. InUse = {}
    BY <1>1, <1>2 DEF IsolateServesItsRuntimes
  <2>2. ProxyOK(p) /\ h \in Proxy \cup {App}
    BY <1>2 DEF JsiInv, HostInv, HostTypes, ProxyRec
  <2>3. h # App
    BY <1>2, <2>1, <2>2 DEF ProxyOK, HoldersThere, InUse
  <2>4. px[h].kind \in HostKind /\ px[h].releases = 0 /\ ProxyOK(h)
    BY <1>2, <2>2, <2>3 DEF ProxyOK, HoldersThere, JsiInv, HostInv
  <2>5. PICK q \in Runtime : q = px[h].rt /\ Contains(list[q], h)
    BY <2>4 DEF ProxyOK, TrackedUntilReset
  <2>6. list[q] # <<>>
    BY <2>5, EmptyContainsNothing
  <2>7. rt[q].phase \in {"live", "closing"}
    BY <2>6 DEF JsiInv, HostInv, ListOK, IsoInv, IsoTypes, RuntimeRec
  <2>8. QED
    BY <2>1, <2>7 DEF InUse, Phase
<1>3. PointersGoBeforeIsolate
  BY <1>2 DEF PointersGoBeforeIsolate
<1>4. QED
  BY <1>1, <1>3 DEF IsolateOutlivesItsUsers

(* A host object or function is released once, at the latest by ~V8Runtime *)
(* of its runtime, whatever the collector does before, during and after    *)
(* the loop over the trackers; no weak callback gets a freed tracker; and  *)
(* isHostObject knows the host objects of its runtime.                     *)
THEOREM HostsReleasedOnceHolds == JsiSpec => []HostsReleasedOnce
BY JsiInvInit, JsiInvNext, HostsFollow, PTL DEF JsiSpec

(* The isolate, the allocator it was made with and the inspector's agent   *)
(* are there while any of the thread's runtimes uses them, in whatever     *)
(* order ~V8Runtime runs for them, and no pointer outlives the isolate.    *)
THEOREM IsolateOutlivesItsUsersHolds == JsiSpec => []IsolateOutlivesItsUsers
BY JsiInvInit, JsiInvNext, UsersFollow, PTL DEF JsiSpec

(* An exception that leaves JavaScript, C++, an accessor or a host         *)
(* function takes its other form or is kept by the checkpoint that runs    *)
(* before it: the runtime and its proxies swallow none but those of        *)
(* setValueAtIndexImpl and setPrototypeOf.                                 *)
THEOREM ExceptionCrossesHolds == JsiSpec => ExceptionCrosses
<1>1. JsiInv /\ [JsiNext]_jsiVars => JsiInv' /\ [Crossing]_jsiVars
  BY JsiInvNext
<1>2. JsiSpec => [][Crossing]_jsiVars
  BY <1>1, JsiInvInit, JsiInvNext, PTL DEF JsiSpec
<1>3. [][Crossing]_jsiVars => ExceptionCrosses
  BY PTL DEF Crossing, ExceptionCrosses
<1>4. QED
  BY <1>2, <1>3
=============================================================================
