-------------------------- MODULE NodeApiPointers --------------------------
(***************************************************************************)
(* The pointer values of JSI over Node-API: how the runtime keeps the      *)
(* JavaScript value behind a jsi::Pointer alive, and how it frees the      *)
(* instance after any thread dropped the last jsi::Pointer.                *)
(*                                                                         *)
(* Source: node-api-jsi/NodeApiJsiRuntime.cpp (NodeApiRefCount,            *)
(* NodeApiPendingDeletions, NodeApiRefCountedPointerValue, NodeApiScope,   *)
(* NodeApiPointerValueScope, stackScopes_ and stackValues_).               *)
(*                                                                         *)
(* An instance has two owners.  While its napi_value is set it is an entry *)
(* of stackValues_, which the scope it was set in removes; once its count  *)
(* is zero it is an entry of the pending deletions, which the next scope   *)
(* that ends on the JS thread empties.  The one that comes last deletes    *)
(* it.  Only the count and the pending deletions are shared with other     *)
(* threads, so a step of the JS thread is what it does between two         *)
(* accesses to them.  The values themselves are left out.                  *)
(***************************************************************************)
EXTENDS Naturals, Sequences, FiniteSets, SequencesExt

CONSTANTS
    Pointer,    \* the NodeApiRefCountedPointerValue instances
    Worker,     \* the threads other than the JS thread
    JS,         \* the JS thread
    NoPointer,  \* no instance
    MaxCount,   \* bound: references to one instance
    MaxScopes   \* bound: entries of stackScopes_

ASSUME JSAssumption == JS \notin Worker
ASSUME NoPointerAssumption == NoPointer \notin Pointer
\* A new property name has two references.
ASSUME MaxCountAssumption == MaxCount \in Nat /\ MaxCount >= 2
ASSUME MaxScopesAssumption == MaxScopes \in Nat

VARIABLES
    state,      \* of each instance: "unborn", "live" or "deleted"
    pointerKind,  \* pointerKind_: an object, a weak object, or any other kind
    refCount,   \* refCount_
    value,      \* value_: the depth of the handle scope it is in, 0 for null
    ref,        \* ref_: "none", "strong" or "weak"
    fromStack,  \* canBeDeletedFromStack_
    cached,     \* the instances propertyId_, cachedValue_ and propNameIDs_ hold
    scopes,     \* stackScopes_, with what opened each entry
    values,     \* stackValues_
    pool,       \* pointerValuesToDeletePool_
    selector,   \* poolSelector_
    pc,         \* where the JS thread is in popPointerValueScope
    closing,    \* the scope it is closing
    adding,     \* per thread: the instance between decRefCount and the pool
    pending,    \* refCount_ of NodeApiPendingDeletions
    alive,      \* the runtime and its napi_env exist
    collected,  \* external: V8 has collected the value
    throwing,   \* a callback threw: its exception is pending in the napi_env
    failure     \* how the process ended, "none" while it runs

pointerVars == <<state, pointerKind, refCount, value, ref, fromStack, cached>>
poolVars    == <<pool, selector>>
vars == <<pointerVars, scopes, values, poolVars, pc, closing, adding, pending,
          alive, collected, throwing, failure>>

Thread == Worker \cup {JS}

\* pushScope makes an "outer" entry with a napi_handle_scope, NodeApiScope an
\* "outer" and an "inner" one, NodeApiPointerValueScope a "callback" entry
\* inside the handle scope V8 opens for the callback.
ScopeKind == {"outer", "inner", "callback"}
Scope == [kind : ScopeKind, mark : Nat]
NoScope == [kind |-> "none", mark |-> 0]

\* The handle scopes that are open; popScope closes its own at the very end.
Depth == Cardinality({i \in DOMAIN scopes : scopes[i].kind # "inner"})
         + (IF closing.kind \in {"outer", "callback"} THEN 1 ELSE 0)

\* The JS thread is in the code of the host, inside some scope.
HostRuns == pc = "run" /\ alive /\ adding[JS] = NoPointer /\ failure = "none"

-----------------------------------------------------------------------------
(* Instances and their counts.                                             *)

\* pointerKind_: an object, a weak object, or one of the primitive kinds.
PointerKind == {"object", "weak", "primitive"}

\* createNodeApiRef of a kind; a primitive is kept by an object that has it as
\* its property.
NewRef(kind) == IF kind = "weak" THEN "weak" ELSE "strong"

\* NodeApiRefCountedPointerValue::make: the new instance shares the pending
\* deletions and becomes an entry of stackValues_.
Make(p, kind, initialRefCount, newRef) ==
    /\ HostRuns
    /\ Depth > 0
    /\ state[p] = "unborn"
    /\ state' = [state EXCEPT ![p] = "live"]
    /\ pointerKind' = [pointerKind EXCEPT ![p] = kind]
    /\ refCount' = [refCount EXCEPT ![p] = initialRefCount]
    /\ value' = [value EXCEPT ![p] = Depth]
    /\ ref' = [ref EXCEPT ![p] = newRef]
    /\ values' = Append(values, p)
    /\ pending' = pending + 1
    /\ UNCHANGED <<fromStack, scopes, poolVars, pc, closing, adding,
                   alive, collected, throwing, failure>>

\* makeNodeApiRef: the reference is made at once.
MakeNodeApiRef(p, kind, initialRefCount) ==
    /\ Make(p, kind, initialRefCount, NewRef(kind))
    /\ cached' = cached \cup {p}

\* The result of every operation that returns a jsi::Pointer.
MakeJsiPointer(p) ==
    /\ \E kind \in {"object", "primitive"} : Make(p, kind, 1, "none")
    /\ UNCHANGED cached

CreateWeakObject(p) == Make(p, "weak", 1, "none") /\ UNCHANGED cached

\* createPropNameIDFromAscii, ...FromUtf8 and ...FromUtf16 for a new name: one
\* reference for the cache and one for the host.
CreatePropNameID(p) == MakeNodeApiRef(p, "primitive", 2)

\* The constructor, and the values that are cached on their first use.
CacheValue(p) ==
    \E kind \in {"object", "primitive"} : MakeNodeApiRef(p, kind, 1)

\* A NodeApiRefHolder, a NodeApiRefCountedPtr, counts for one reference from
\* its construction to its destruction, which is that of the runtime.
HolderRefs(p) == IF alive /\ p \in cached THEN 1 ELSE 0

\* The references the host has, those of the runtime's own holders aside.
HostRefs(p) == refCount[p] - HolderRefs(p)

IncRefCount(p) == refCount' = [refCount EXCEPT ![p] = @ + 1]

\* cloneSymbol, cloneBigInt, cloneString, cloneObject and clonePropNameID.
\* The holders of the runtime hand out clones as well.
Clone(p) ==
    /\ HostRuns
    /\ refCount[p] \in 1 .. MaxCount - 1
    /\ IncRefCount(p)
    /\ UNCHANGED <<state, pointerKind, value, ref, fromStack, cached, scopes, values,
                   poolVars, pc, closing, adding, pending, alive, collected,
                   throwing, failure>>

\* What NodeApiRefCount::decRefCount returns.
IsLast(p) == refCount[p] = 1

\* invalidate and decRefCount, on any thread.  The JS thread also gets here
\* from a finalizer while it creates references in the middle of a sweep.
Release(t, p) ==
    /\ adding[t] = NoPointer
    /\ t = JS => pc \in {"run", "sweep"}
    /\ failure = "none"
    /\ HostRefs(p) > 0
    /\ refCount' = [refCount EXCEPT ![p] = @ - 1]
    /\ adding' = [adding EXCEPT ![t] = IF IsLast(p) THEN p ELSE @]
    /\ UNCHANGED <<state, pointerKind, value, ref, fromStack, cached, scopes, values,
                   poolVars, pc, closing, pending, alive, collected, throwing, failure>>

AddPointerValueToDelete_Mutant(t) ==
    /\ failure = "none"
    /\ adding[t] # NoPointer
    /\ pool' = [pool EXCEPT ![selector] = Append(@, adding[t])]
    /\ adding' = [adding EXCEPT ![t] = NoPointer]
    /\ fromStack' = [fromStack EXCEPT ![adding[t]] = TRUE]
    /\ UNCHANGED <<state, pointerKind, refCount, value, ref, cached, scopes, values,
                   selector, pc, closing, pending, alive, collected, throwing, failure>>

AddPointerValueToDelete(t) ==
    /\ failure = "none"
    /\ adding[t] # NoPointer
    /\ pool' = [pool EXCEPT ![selector] = Append(@, adding[t])]
    /\ adding' = [adding EXCEPT ![t] = NoPointer]
    /\ UNCHANGED <<pointerVars, scopes, values, selector, pc, closing, pending,
                   alive, collected, throwing, failure>>

GetValue_Mutant(p) ==
    /\ HostRuns
    /\ Depth > 0
    /\ refCount[p] > 0
    /\ value[p] = 0
    /\ ref[p] # "none"
    /\ ~collected[p]
    /\ value' = [value EXCEPT ![p] = Depth]
    /\ UNCHANGED <<state, pointerKind, refCount, ref, fromStack, cached, scopes, values,
                   poolVars, pc, closing, adding, pending, alive, collected,
                   throwing, failure>>

\* getValue without a napi_value: it comes from the reference, in the
\* innermost handle scope.  A weak reference may give none.  No exception is
\* pending, so the calls that crash when they fail do not.
GetValue(p) ==
    /\ HostRuns
    /\ Depth > 0
    /\ refCount[p] > 0
    /\ value[p] = 0
    /\ ref[p] # "none"
    /\ ~collected[p]
    /\ value' = [value EXCEPT ![p] = Depth]
    /\ values' = Append(values, p)
    /\ UNCHANGED <<state, pointerKind, refCount, ref, fromStack, cached, scopes,
                   poolVars, pc, closing, adding, pending, alive, collected,
                   throwing, failure>>

\* A collection frees what no handle and no strong reference keeps.
Collect(p) ==
    /\ failure = "none"
    /\ alive
    /\ state[p] = "live"
    /\ ~collected[p]
    /\ value[p] = 0
    /\ ref[p] # "strong"
    /\ collected' = [collected EXCEPT ![p] = TRUE]
    /\ UNCHANGED <<pointerVars, scopes, values, poolVars, pc, closing, adding,
                   pending, alive, throwing, failure>>

-----------------------------------------------------------------------------
(* Scopes.                                                                 *)

\* pushPointerValueScope.
OpenEntry(kind) == [kind |-> kind, mark |-> Len(values)]

Open(entries) ==
    /\ HostRuns
    /\ Len(scopes) + Len(entries) <= MaxScopes
    /\ scopes' = scopes \o entries
    /\ UNCHANGED <<pointerVars, values, poolVars, pc, closing, adding, pending,
                   alive, collected, throwing, failure>>

PushScope == Open(<<OpenEntry("outer")>>)

\* Every operation of the runtime starts with one.
OpenNodeApiScope == Open(<<OpenEntry("outer"), OpenEntry("inner")>>)

\* jsiHostFunctionCallback and the traps of the host object proxy.
EnterCallback == scopes # <<>> /\ Open(<<OpenEntry("callback")>>)

\* popPointerValueScope, up to the sweep.
StartPop ==
    /\ closing' = Last(scopes)
    /\ scopes' = Front(scopes)
    /\ pc' = "sweep"

\* A callback that throws has called napi_throw before its scope ends.
PopScope ==
    /\ HostRuns
    /\ scopes # <<>>
    /\ StartPop
    /\ \/ UNCHANGED throwing
       \/ Last(scopes).kind = "callback" /\ throwing' = TRUE
    /\ UNCHANGED <<pointerVars, values, poolVars, adding, pending, alive,
                   collected, failure>>

UsedByJsiPointer(p) == refCount[p] > 0

\* for_each goes upwards from the mark of the scope, and the vector is cut
\* afterwards.
Sweeping ==
    /\ pc = "sweep"
    /\ failure = "none"
    /\ adding[JS] = NoPointer
    /\ Len(values) > closing.mark
Swept == values[closing.mark + 1]

\* createNodeApiRef of a primitive calls napi_set_named_property, which fails
\* while an exception is pending.
CreateRefFails(p) ==
    /\ value[p] # 0
    /\ ~fromStack[p]
    /\ UsedByJsiPointer(p)
    /\ ref[p] = "none"
    /\ pointerKind[p] = "primitive"
    /\ throwing

DeleteStackValue_Mutant ==
    /\ Sweeping
    /\ ~CreateRefFails(Swept)
    /\ LET p == Swept IN
       /\ values' = RemoveAt(values, closing.mark + 1)
       /\ IF fromStack[p]
             THEN /\ state' = [state EXCEPT ![p] = "deleted"]
                  /\ pending' = pending - 1
                  /\ UNCHANGED <<ref, value>>
             ELSE /\ ref' = IF refCount[p] > 1 /\ ref[p] = "none"
                            THEN [ref EXCEPT ![p] = NewRef(pointerKind[p])]
                            ELSE ref
                  /\ value' = [value EXCEPT ![p] = 0]
                  /\ UNCHANGED <<state, pending>>
       /\ \/ failure' = IF value[p] = 0 THEN "value" ELSE "none"
          \/ fromStack[p] /\ failure' = "freed"
    /\ UNCHANGED <<pointerKind, refCount, fromStack, cached, scopes, poolVars,
                   pc, closing, adding, alive, collected, throwing>>

\* deleteStackValue.  After "delete this" the code falls through and reads the
\* count and the reference of the deleted instance and sets its value: with
\* the memory as it was left that has no effect, otherwise the outcome is
\* that of a use of freed memory.
DeleteStackValue ==
    /\ Sweeping
    /\ ~CreateRefFails(Swept)
    /\ LET p == Swept IN
       /\ values' = RemoveAt(values, closing.mark + 1)
       /\ IF fromStack[p]
             THEN /\ state' = [state EXCEPT ![p] = "deleted"]
                  /\ pending' = pending - 1
                  /\ UNCHANGED <<ref, value>>
             ELSE /\ ref' = IF UsedByJsiPointer(p) /\ ref[p] = "none"
                            THEN [ref EXCEPT ![p] = NewRef(pointerKind[p])]
                            ELSE ref
                  /\ value' = [value EXCEPT ![p] = 0]
                  /\ UNCHANGED <<state, pending>>
       /\ \/ failure' = IF value[p] = 0 THEN "value" ELSE "none"
          \/ fromStack[p] /\ failure' = "freed"
    /\ UNCHANGED <<pointerKind, refCount, fromStack, cached, scopes, poolVars,
                   pc, closing, adding, alive, collected, throwing>>

\* deleteStackValue when createNodeApiRef fails: CHECK_NAPI_ELSE_CRASH.
DeleteStackValueCrashes ==
    /\ Sweeping
    /\ CreateRefFails(Swept)
    /\ failure' = "reference"
    /\ UNCHANGED <<pointerVars, scopes, values, poolVars, pc, closing, adding,
                   pending, alive, collected, throwing>>

EndSweep ==
    /\ pc = "sweep"
    /\ adding[JS] = NoPointer
    /\ Len(values) <= closing.mark
    /\ failure = "none"
    /\ pc' = "select"
    /\ UNCHANGED <<pointerVars, scopes, values, poolVars, closing, adding,
                   pending, alive, collected, throwing, failure>>

\* ~NodeApiScope pops the "inner" entry and then the "outer" one; popScope
\* closes the handle scope when the entry is gone.  The exception of a callback
\* is V8's once it has returned.
EndPop ==
    IF closing.kind = "inner"
    THEN StartPop /\ UNCHANGED throwing
    ELSE /\ pc' = "run"
         /\ closing' = NoScope
         /\ throwing' = FALSE
         /\ UNCHANGED scopes

\* deletePointerValues, the part under the mutex.
SelectPool ==
    /\ pc = "select"
    /\ IF pool[selector] = <<>>
          THEN EndPop /\ UNCHANGED selector
          ELSE /\ selector' = 1 - selector
               /\ pc' = "delete"
               /\ UNCHANGED <<scopes, closing, throwing>>
    /\ UNCHANGED <<pointerVars, values, pool, adding, pending, alive,
                   collected, failure>>

DeleteNodeApiRef_MutantB ==
    /\ pc = "delete"
    /\ pool[1 - selector] # <<>>
    /\ LET p == Head(pool[1 - selector]) IN
       /\ pool' = [pool EXCEPT ![1 - selector] = Tail(@)]
       /\ ref' = [ref EXCEPT ![p] = "none"]
       /\ IF value[p] # 0
             THEN UNCHANGED <<state, pending>>
             ELSE /\ state' = [state EXCEPT ![p] = "deleted"]
                  /\ pending' = pending - 1
    /\ UNCHANGED <<pointerKind, refCount, value, fromStack, cached, scopes, values,
                   selector, pc, closing, adding, alive, collected, throwing, failure>>

\* deleteNodeApiRef of one entry of the other pool, which no thread adds to.
DeleteNodeApiRef ==
    /\ pc = "delete"
    /\ pool[1 - selector] # <<>>
    /\ LET p == Head(pool[1 - selector]) IN
       /\ pool' = [pool EXCEPT ![1 - selector] = Tail(@)]
       /\ ref' = [ref EXCEPT ![p] = "none"]
       /\ IF value[p] # 0
             THEN /\ fromStack' = [fromStack EXCEPT ![p] = TRUE]
                  /\ UNCHANGED <<state, pending>>
             ELSE /\ state' = [state EXCEPT ![p] = "deleted"]
                  /\ pending' = pending - 1
                  /\ UNCHANGED fromStack
    /\ UNCHANGED <<pointerKind, refCount, value, cached, scopes, values, selector, pc,
                   closing, adding, alive, collected, throwing, failure>>

EndDelete ==
    /\ pc = "delete"
    /\ pool[1 - selector] = <<>>
    /\ EndPop
    /\ UNCHANGED <<pointerVars, values, poolVars, adding, pending, alive,
                   collected, failure>>

\* ~NodeApiJsiRuntime: onDelete_ deletes the environment, then the members
\* go; the holders of the runtime release what they hold, one by one.
DeleteRuntime ==
    /\ HostRuns
    /\ scopes = <<>>
    /\ alive' = FALSE
    /\ pending' = pending - 1
    /\ UNCHANGED <<pointerVars, scopes, values, poolVars, pc, closing, adding,
                   collected, throwing, failure>>

-----------------------------------------------------------------------------
Init ==
    /\ state = [p \in Pointer |-> "unborn"]
    /\ pointerKind = [p \in Pointer |-> "object"]
    /\ refCount = [p \in Pointer |-> 0]
    /\ value = [p \in Pointer |-> 0]
    /\ ref = [p \in Pointer |-> "none"]
    /\ fromStack = [p \in Pointer |-> FALSE]
    /\ cached = {}
    /\ scopes = <<>>
    /\ values = <<>>
    /\ pool = [i \in 0 .. 1 |-> <<>>]
    /\ selector = 0
    /\ pc = "run"
    /\ closing = NoScope
    /\ adding = [t \in Thread |-> NoPointer]
    /\ pending = 1
    /\ alive = TRUE
    /\ collected = [p \in Pointer |-> FALSE]
    /\ throwing = FALSE
    /\ failure = "none"

HostStep ==
    \/ \E p \in Pointer : \/ MakeJsiPointer(p)
                         \/ CreateWeakObject(p)
                         \/ CreatePropNameID(p)
                         \/ CacheValue(p)
                         \/ Clone(p)
                         \/ GetValue(p)
    \/ PushScope
    \/ OpenNodeApiScope
    \/ EnterCallback
    \/ DeleteRuntime

PopStep ==
    \/ PopScope
    \/ DeleteStackValue
    \/ DeleteStackValueCrashes
    \/ EndSweep
    \/ SelectPool
    \/ DeleteNodeApiRef
    \/ EndDelete

Next ==
    \/ HostStep
    \/ PopStep
    \/ \E t \in Thread : AddPointerValueToDelete(t)
    \/ \E t \in Thread, p \in Pointer : Release(t, p)
    \/ \E p \in Pointer : Collect(p)

\* The host keeps calling the runtime; every call ends, so a scope is closed
\* although others are opened inside it again and again; and a thread that is
\* inside decRefCount finishes it.
Fairness ==
    /\ WF_vars(scopes = <<>> /\ OpenNodeApiScope)
    /\ WF_vars(PopStep)
    /\ \A k \in 1 .. MaxScopes : SF_vars(Len(scopes) = k /\ PopScope)
    /\ \A t \in Thread : WF_vars(AddPointerValueToDelete(t))

Spec == Init /\ [][Next]_vars /\ Fairness

-----------------------------------------------------------------------------
InPool(p) == \E i \in 0 .. 1 : Contains(pool[i], p)
BeingAdded(p) == \E t \in Thread : adding[t] = p

\* One entry of one of the two pools.
InPoolOnce(p) ==
    \E i \in 0 .. 1 : \E k \in 1 .. Len(pool[i]) :
       \A j \in 0 .. 1 : \A m \in 1 .. Len(pool[j]) :
          pool[j][m] = p <=> j = i /\ m = k

TypeOK ==
    /\ state \in [Pointer -> {"unborn", "live", "deleted"}]
    /\ pointerKind \in [Pointer -> PointerKind]
    /\ refCount \in [Pointer -> 0 .. MaxCount]
    /\ value \in [Pointer -> 0 .. MaxScopes]
    /\ ref \in [Pointer -> {"none", "strong", "weak"}]
    /\ fromStack \in [Pointer -> BOOLEAN]
    /\ cached \subseteq Pointer
    /\ scopes \in Seq(Scope)
    /\ values \in Seq(Pointer)
    /\ pool \in [0 .. 1 -> Seq(Pointer)]
    /\ selector \in 0 .. 1
    /\ pc \in {"run", "sweep", "select", "delete"}
    /\ closing \in Scope \cup {NoScope}
    /\ adding \in [Thread -> Pointer \cup {NoPointer}]
    /\ pending \in Nat
    /\ alive \in BOOLEAN
    /\ collected \in [Pointer -> BOOLEAN]
    /\ throwing \in BOOLEAN
    /\ failure \in {"none", "value", "reference", "freed"}

(* The value of a jsi::Pointer that exists is still there: whichever scope *)
(* ends and whoever releases another reference, the instance keeps a       *)
(* handle or a reference, and a strong one is never collected.             *)
PointerKeepsValue ==
    \A p \in Pointer :
       refCount[p] > 0 => /\ state[p] = "live"
                          /\ value[p] # 0 \/ ref[p] # "none"
                          /\ pointerKind[p] # "weak" => ~collected[p]

(* A napi_value is never used after its handle scope: an instance has one  *)
(* exactly while it is an entry of stackValues_, once, and the handle is   *)
(* in a scope that has not been closed.  So the check of deleteStackValue  *)
(* that value_ is not null never fails.  (That createNodeApiRef does not   *)
(* fail is another matter: ScopeEndCreatesRef.)                            *)
HandleInOpenScope ==
    /\ \A p \in Pointer :
          state[p] = "live" =>
             /\ value[p] # 0 <=> Contains(values, p)
             /\ value[p] <= Depth
    /\ IsInjective(values)
    /\ failure # "value"

(* An instance is deleted once, by its last owner: no count, no other      *)
(* entry of stackValues_, no pending deletion and no thread still has it.  *)
(* (What the last owner itself does after "delete this" is another matter: *)
(* OwnerLeavesDeleted.)                                                    *)
DeletedByLastOwner ==
    \A p \in Pointer :
       state[p] = "deleted" => /\ refCount[p] = 0
                               /\ ~Contains(values, p)
                               /\ ~InPool(p)
                               /\ ~BeingAdded(p)

(* An instance nobody refers to has exactly one way to its deletion, so it *)
(* is neither lost nor deleted twice, whatever the threads' order.         *)
OneWayToDeletion ==
    \A p \in Pointer :
       state[p] = "live" /\ refCount[p] = 0 =>
          \/ /\ \E t \in Thread : \A u \in Thread : adding[u] = p <=> u = t
             /\ ~InPool(p) /\ ~fromStack[p]
          \/ /\ InPoolOnce(p)
             /\ ~BeingAdded(p) /\ ~fromStack[p]
          \/ /\ fromStack[p] /\ Contains(values, p)
             /\ ~InPool(p) /\ ~BeingAdded(p)

(* A thread that drops the last reference, even after the runtime is gone, *)
(* finds the pending deletions it has to add the instance to.              *)
PendingDeletionsOutlivePointers ==
    (\E t \in Thread : adding[t] # NoPointer) => pending > 0

(* An instance nobody refers to has exactly one way to its deletion and is *)
(* deleted by its last owner, whatever the order of the threads; one that  *)
(* is released after the runtime is gone still finds the pending deletions *)
(* (NodeApiJsiRuntime.cpp:603-660, 2076-2170).                             *)
DeletedOnce ==
    /\ TypeOK
    /\ DeletedByLastOwner
    /\ OneWayToDeletion
    /\ PendingDeletionsOutlivePointers

(* Every instance whose last reference was dropped is deleted in the end,  *)
(* as long as the runtime exists, the process goes on and the host goes on *)
(* calling it.                                                             *)
ReleasedIsDeleted ==
    \A p \in Pointer :
       (state[p] = "live" /\ refCount[p] = 0)
          ~> (state[p] = "deleted" \/ ~alive \/ failure # "none")

(* "When stack scope is closed we check the `refCount_`.  If it is not     *)
(* zero, then we ensure that it has an associated `napi_ref` or we create  *)
(* one." (NodeApiJsiRuntime.cpp:722-723)  A scope that ends always manages *)
(* to.  The code does not: the scope of a callback that throws ends with   *)
(* the exception pending, and a primitive the host keeps ends the process. *)
ScopeEndCreatesRef == failure # "reference"

(* The owner that deletes an instance is done with it: only one that       *)
(* "cannot delete the instance" sets its own field to null                 *)
(* (NodeApiJsiRuntime.cpp:717-719).  The code does not keep to it:         *)
(* deleteStackValue goes on after "delete this".                           *)
OwnerLeavesDeleted == failure # "freed"
=============================================================================
