--------------------------- MODULE NapiEnvProofs ---------------------------
(***************************************************************************)
(* Proofs about NapiEnv for every set of objects, every number of trackers *)
(* and both kinds of env: types, no dangling tracker, no weak callback on  *)
(* a freed Reference and no forgotten finalizer (IInv); and, with a second *)
(* layer on the JavaScript heap (HeapInv), that references hold their      *)
(* objects, that no Reference is used after its end, and that the env      *)
(* implements FinalizerContract.                                           *)
(***************************************************************************)
EXTENDS NapiEnv, TLAPS

\* A tracker that does not exist yet is in its initial state.
UnbornBeyondNext ==
    \A t \in Tracker : t >= next => trk[t].state = "unborn"

\* What depends on a tracker's kind.
TrackerShape ==
    \A t \in Tracker :
        /\ trk[t].kind \in {"TrackedFinalizer", "TrackedStringResource"}
               => trk[t].value = NULL
        /\ trk[t].state = "unborn" => trk[t].value = NULL
        /\ trk[t].persistent # "empty" => Live(t)
        /\ trk[t].kind \in {"Reference", "ReferenceWithData"} 
               => trk[t].cb = "nullptr"

\* A tracker with a finalizer is never in reflist.
ReflistKinds ==
    \A t \in reflist : trk[t].cb = "nullptr"
                       /\ trk[t].kind # "TrackedFinalizer"

\* Only trackers with a finalizer are queued; in an experimental env only
\* the posted ones.
PendingKinds ==
    \A t \in pending_finalizers :
        \/ trk[t].kind = "TrackedFinalizer"
        \/ trk[t].kind = "ReferenceWithFinalizer" /\ ~ Experimental

InstanceDataKind ==
    instance_data # NULL =>
        /\ trk[instance_data].kind = "TrackedFinalizer"
        /\ trk[instance_data].state # "unborn"

\* The part of the invariant that speaks of trackers and of who points at
\* them; its first conjuncts are types.
TrackerInv ==
    /\ trk \in [Tracker -> TrackerRecord]
    /\ next \in 1 .. MaxTracker + 1
    /\ reflist \subseteq Tracker
    /\ finalizing_reflist \subseteq Tracker
    /\ pending_finalizers \subseteq Tracker
    /\ gcQueue \subseteq Tracker
    /\ instance_data \in Tracker \cup {NULL}
    /\ UnbornBeyondNext
    /\ TrackerShape
    /\ NoDanglingTracker
    /\ ReflistKinds
    /\ PendingKinds
    /\ WeakCallbackTargetsLive
    /\ \A t \in gcQueue : trk[t].kind \in ReferenceKinds
    /\ InstanceDataKind

\* The types of the other variables.
ThreadTypes ==
    /\ obj \in [Object -> {"unborn", "reachable", "unreachable", "collected"}]
    /\ wrapper \in [Object -> Tracker \cup {NULL}]
    /\ refs \in Nat
    /\ owned \in BOOLEAN
    /\ scheduled \in BOOLEAN
    /\ tasks \in Nat
    /\ pc \in Teardown \cup {"run", "drain", "deleted", "aborted"}
    /\ fin \in Tracker \cup {NULL}
    /\ gcFin \in Tracker \cup {NULL}
    /\ inTask \in BOOLEAN
    /\ faults \subseteq Kinds \cup {"instance_data", "env"}

\* The collector calls user code in an experimental env only, and it runs
\* inside of user code.
CollectorState ==
    /\ gcFin \notin gcQueue
    /\ gcFin # NULL => Experimental
    /\ gcQueue # {} \/ gcFin # NULL =>
           fin # NULL \/ pc \in {"run", "aborted"}

\* The env's reference count is its owner plus the immediate, which is in the
\* task runner exactly while the flag is set.
RefsBalance ==
    /\ tasks = IF scheduled THEN 1 ELSE 0
    /\ refs = tasks + (IF owned THEN 1 ELSE 0)
    /\ pc = "run" /\ pending_finalizers # {} => scheduled

\* The private property of an object names a Reference on that object.
WrapperNames ==
    \A o \in Object : wrapper[o] # NULL =>
        /\ trk[wrapper[o]].state # "unborn"
        /\ trk[wrapper[o]].kind \in ReferenceKinds
        /\ trk[wrapper[o]].value = o

ThreadInv == ThreadTypes /\ CollectorState /\ RefsBalance /\ WrapperNames

\* A step gives no tracker that exists another kind or value.
TrackersStable ==
    \A t \in Tracker : trk[t].state # "unborn" =>
        /\ trk'[t].state # "unborn"
        /\ trk'[t].kind = trk[t].kind
        /\ trk'[t].value = trk[t].value

IInv == TrackerInv /\ ThreadInv

-----------------------------------------------------------------------------
(* The operations on one tracker.                                          *)

(* A new Reference is well-formed, live and of the requested kind; it has  *)
(* a callback only if one was given.                                       *)
LEMMA MakeReferenceFacts ==
    ASSUME NEW k \in ReferenceKinds, NEW own \in Ownership,
           NEW count \in 0 .. MaxRefcount, NEW v \in Object \cup Primitive,
           NEW callback \in {"user", "nullptr"}
    PROVE  LET r == MakeReference(k, own, count, v, callback)
           IN  /\ r \in TrackerRecord
               /\ r.state = "live" /\ r.kind = k /\ r.cb = callback
BY DEF MakeReference, TrackerRecord, SetWeak, CanBeHeldWeakly, Kinds

(* A new TrackedFinalizer is well-formed and live and names no value.      *)
LEMMA MakeTrackedFinalizerFacts ==
    /\ MakeTrackedFinalizer \in TrackerRecord
    /\ MakeTrackedFinalizer.state = "live"
    /\ MakeTrackedFinalizer.kind = "TrackedFinalizer"
    /\ MakeTrackedFinalizer.value = NULL
    /\ MakeTrackedFinalizer.persistent = "empty"
BY ConstantsAssumption DEF MakeTrackedFinalizer, TrackerRecord, Kinds, Ownership

(* The destructor empties the handle and drops the callback.               *)
LEMMA DestroyedFacts ==
    ASSUME NEW r \in TrackerRecord
    PROVE  /\ Destroyed(r) \in TrackerRecord
           /\ Destroyed(r).state = "deleted" /\ Destroyed(r).cb = "nullptr"
           /\ Destroyed(r).persistent = "empty"
           /\ Destroyed(r).kind = r.kind /\ Destroyed(r).value = r.value
           /\ Destroyed(r).env = r.env
BY DEF Destroyed, TrackerRecord

(* CallFinalizer drops the callback and, if there was one, calls it.       *)
LEMMA CallFinalizerFacts ==
    ASSUME NEW r \in TrackerRecord
    PROVE  LET c == CallFinalizer(r)
           IN  /\ c \in TrackerRecord /\ c.cb = "nullptr"
               /\ c.calls = IF r.cb = "user" THEN r.calls + 1 ELSE r.calls
               /\ c.state = r.state /\ c.kind = r.kind /\ c.value = r.value
               /\ c.persistent = r.persistent /\ c.refcount = r.refcount
               /\ c.ownership = r.ownership /\ c.env = r.env
<1>1. CASE r.cb = "user"
  <2>1. r.calls + 1 \in Nat
    BY DEF TrackerRecord
  <2>2. CallFinalizer(r) = [r EXCEPT !.cb = "nullptr", !.calls = r.calls + 1]
    BY <1>1 DEF CallFinalizer
  <2>3. QED
    BY <1>1, <2>1, <2>2 DEF TrackerRecord
<1>2. CASE r.cb # "user"
  BY <1>2 DEF CallFinalizer, TrackerRecord
<1>3. QED
  BY <1>1, <1>2

(* Finalize() empties the handle and drops the callback; it frees a        *)
(* tracker only if it has no callback and is owned by the runtime.  That   *)
(* of a string's resource only lets go of the env.                         *)
LEMMA FinalizedFacts ==
    ASSUME NEW r \in TrackerRecord
    PROVE  /\ Finalized(r) \in TrackerRecord
           /\ Finalized(r).kind = r.kind /\ Finalized(r).value = r.value
           /\ r.kind # "TrackedStringResource" =>
                  /\ Finalized(r).cb = "nullptr"
                  /\ Finalized(r).persistent = "empty"
                  /\ Finalized(r).env = r.env
           /\ r.kind = "TrackedStringResource" =>
                  /\ Finalized(r).cb = r.cb
                  /\ Finalized(r).persistent = r.persistent
                  /\ Finalized(r).env = FALSE
           /\ Finalized(r).state =
                  IF /\ r.kind # "TrackedStringResource"
                     /\ r.cb # "user" /\ r.ownership = "kRuntime"
                  THEN "deleted" ELSE r.state
<1>0. CASE r.kind = "TrackedStringResource"
  BY <1>0 DEF Finalized, TrackerRecord
<1>1. CASE r.kind # "TrackedStringResource" /\ r.cb = "user"
  <2>1. PICK e : e = [r EXCEPT !.persistent = "empty"]
    OBVIOUS
  <2>2. /\ e \in TrackerRecord /\ e.state = r.state /\ e.kind = r.kind
        /\ e.value = r.value /\ e.persistent = "empty" /\ e.env = r.env
    BY <2>1 DEF TrackerRecord
  <2>3. Finalized(r) = CallFinalizer(e)
    BY <1>1, <2>1 DEF Finalized
  <2>4. QED
    BY <1>1, <2>2, <2>3, CallFinalizerFacts
<1>2. CASE /\ r.kind # "TrackedStringResource"
           /\ r.cb # "user" /\ r.ownership = "kRuntime"
  BY <1>2, DestroyedFacts DEF Finalized
<1>3. CASE /\ r.kind # "TrackedStringResource"
           /\ r.cb # "user" /\ r.ownership # "kRuntime"
  <2>1. Finalized(r) = [r EXCEPT !.persistent = "empty"]
    BY <1>3 DEF Finalized
  <2>2. r.cb = "nullptr"
    BY <1>3 DEF TrackerRecord
  <2>3. QED
    BY <1>3, <2>1, <2>2 DEF TrackerRecord
<1>4. QED
  BY <1>0, <1>1, <1>2, <1>3

(* Ref() and Unref() change the count and the handle only.                 *)
LEMMA RefFacts ==
    ASSUME NEW r \in TrackerRecord, r.refcount < MaxRefcount
    PROVE  /\ Ref(r) \in TrackerRecord
           /\ Ref(r).state = r.state /\ Ref(r).kind = r.kind
           /\ Ref(r).value = r.value /\ Ref(r).cb = r.cb
<1>1. r.refcount + 1 \in 0 .. MaxRefcount
  BY ConstantsAssumption DEF TrackerRecord
<1>2. QED
  BY <1>1 DEF Ref, TrackerRecord

(* Unref lowers a positive count and keeps the record well typed.          *)
LEMMA UnrefFacts ==
    ASSUME NEW r \in TrackerRecord, r.refcount # 0
    PROVE  /\ Unref(r) \in TrackerRecord
           /\ Unref(r).state = r.state /\ Unref(r).kind = r.kind
           /\ Unref(r).value = r.value /\ Unref(r).cb = r.cb
<1>1. r.refcount - 1 \in 0 .. MaxRefcount
  BY ConstantsAssumption DEF TrackerRecord
<1>2. (IF r.refcount = 1 THEN SetWeak(r.value) ELSE r.persistent)
          \in {"empty", "weak", "strong"}
  BY DEF TrackerRecord, SetWeak
<1>3. QED
  BY <1>1, <1>2 DEF Unref, TrackerRecord

-----------------------------------------------------------------------------
(* The invariant implies the properties it was made for.                   *)
LEMMA IInvImplies ==
    IInv => TypeOK /\ NoDanglingTracker /\ WeakCallbackTargetsLive
            /\ QueueHasImmediate
<1>1. IInv => TypeOK
  BY DEF IInv, TrackerInv, ThreadInv, ThreadTypes, TypeOK
<1>2. IInv => NoDanglingTracker /\ WeakCallbackTargetsLive
  BY DEF IInv, TrackerInv
<1>3. IInv => QueueHasImmediate
  BY DEF IInv, ThreadInv, RefsBalance, QueueHasImmediate
<1>4. QED
  BY <1>1, <1>2, <1>3

(* Init establishes the invariant.                                         *)
LEMMA InitIInv == Init => IInv
<1> SUFFICES ASSUME Init PROVE IInv
  OBVIOUS
<1>1. Unborn \in TrackerRecord
  BY ConstantsAssumption DEF Unborn, TrackerRecord, Kinds, ReferenceKinds,
                             Ownership
<1>2. trk \in [Tracker -> TrackerRecord] /\ next \in 1 .. MaxTracker + 1
  BY <1>1, ConstantsAssumption DEF Init
<1>3. UnbornBeyondNext /\ TrackerShape
  BY DEF Init, UnbornBeyondNext, TrackerShape, Unborn, Live
<1>4. TrackerInv
  BY <1>2, <1>3 DEF Init, TrackerInv, NoDanglingTracker, PendingKinds,
     ReflistKinds, WeakCallbackTargetsLive, InstanceDataKind
<1>5. /\ obj \in [Object -> {"unborn", "reachable", "unreachable",
                             "collected"}]
      /\ wrapper \in [Object -> Tracker \cup {NULL}]
  BY DEF Init
<1>6. ThreadTypes
  BY <1>5 DEF Init, ThreadTypes
<1>7. CollectorState /\ RefsBalance
  BY DEF Init, CollectorState, RefsBalance
<1>71. WrapperNames
  BY DEF Init, WrapperNames
<1>8. QED
  BY <1>4, <1>6, <1>7, <1>71 DEF IInv, ThreadInv

-----------------------------------------------------------------------------
(* How the steps of the code move the tracker part of the invariant.       *)

(* Nothing happens to the trackers; the collector may owe fewer callbacks. *)
LEMMA UnchangedKeeps ==
    ASSUME TrackerInv, gcQueue' \subseteq gcQueue,
           UNCHANGED <<trackerVars, instance_data, pending_finalizers>>
    PROVE  TrackerInv' /\ TrackersStable
BY DEF TrackersStable, TrackerInv, trackerVars, UnbornBeyondNext, TrackerShape,
   NoDanglingTracker, ReflistKinds, PendingKinds, WeakCallbackTargetsLive,
   InstanceDataKind, Live

(* An operation on one tracker that exists: it keeps its kind and value,   *)
(* it may be queued if its kind allows, and if the operation freed it then *)
(* no list, queue or owed callback names it any more.                      *)
LEMMA UpdateKeeps ==
    ASSUME TrackerInv, NEW t \in Tracker, NEW r \in TrackerRecord,
           trk[t].state # "unborn", r.state # "unborn",
           r.kind = trk[t].kind, r.value = trk[t].value,
           r.persistent # "empty" => r.state = "live",
           r.cb = "nullptr" \/ r.cb = trk[t].cb,
           trk' = [trk EXCEPT ![t] = r],
           UNCHANGED <<next, instance_data>>,
           reflist' \subseteq reflist,
           finalizing_reflist' \subseteq finalizing_reflist,
           gcQueue' \subseteq gcQueue,
           pending_finalizers' \subseteq pending_finalizers \cup {t},
           t \in pending_finalizers' =>
               \/ t \in pending_finalizers
               \/ r.kind = "ReferenceWithFinalizer" /\ ~ Experimental,
           r.state # "live" =>
               t \notin reflist' \cup finalizing_reflist'
                        \cup pending_finalizers' \cup gcQueue'
    PROVE  TrackerInv' /\ TrackersStable
<1>1. /\ trk' \in [Tracker -> TrackerRecord]
      /\ trk'[t] = r
      /\ \A u \in Tracker : u # t => trk'[u] = trk[u]
  BY DEF TrackerInv
<1>2. /\ next' \in 1 .. MaxTracker + 1
      /\ reflist' \subseteq Tracker
      /\ finalizing_reflist' \subseteq Tracker
      /\ pending_finalizers' \subseteq Tracker
      /\ gcQueue' \subseteq Tracker
      /\ instance_data' \in Tracker \cup {NULL}
  BY DEF TrackerInv
<1>3. UnbornBeyondNext'
  BY <1>1 DEF TrackerInv, UnbornBeyondNext
<1>4. TrackerShape'
  BY <1>1 DEF TrackerInv, TrackerShape, Live
<1>5. NoDanglingTracker'
  <2>1. SUFFICES ASSUME NEW u \in reflist' \cup finalizing_reflist'
                                  \cup pending_finalizers'
                 PROVE  trk'[u].state = "live"
    BY DEF NoDanglingTracker, Live
  <2>2. CASE u = t
    <3>1. r.state = "live"
      BY <2>2
    <3>2. QED
      BY <3>1, <2>2, <1>1
  <2>3. CASE u # t
    BY <2>3, <1>1, <1>2 DEF TrackerInv, NoDanglingTracker, Live
  <2>4. QED
    BY <2>2, <2>3
<1>6. PendingKinds' /\ ReflistKinds'
  BY <1>1, <1>2 DEF TrackerInv, PendingKinds, ReflistKinds
<1>7. /\ WeakCallbackTargetsLive'
      /\ \A u \in gcQueue' : trk'[u].kind \in ReferenceKinds
  <2>1. SUFFICES ASSUME NEW u \in gcQueue'
                 PROVE  trk'[u].state = "live"
                        /\ trk'[u].kind \in ReferenceKinds
    BY DEF WeakCallbackTargetsLive, Live
  <2>2. trk[u].state = "live" /\ trk[u].kind \in ReferenceKinds
    BY DEF TrackerInv, WeakCallbackTargetsLive, Live
  <2>3. u = t => r.state = "live"
    OBVIOUS
  <2>4. QED
    BY <1>1, <1>2, <2>2, <2>3
<1>8. InstanceDataKind'
  BY <1>1 DEF TrackerInv, InstanceDataKind
<1>9. TrackersStable
  BY <1>1 DEF TrackersStable
<1>10. QED
  BY <1>1, <1>2, <1>3, <1>4, <1>5, <1>6, <1>7, <1>8, <1>9 DEF TrackerInv

(* A new tracker, linked in front of one of the lists and, if it is a      *)
(* posted finalizer, queued.                                               *)
LEMMA NewKeeps ==
    ASSUME TrackerInv, NEW r \in TrackerRecord, NEW list, New(r, list),
           r.state = "live",
           r.kind \in {"TrackedFinalizer", "TrackedStringResource"} =>
               r.value = NULL,
           r.kind \in {"Reference", "ReferenceWithData"} => r.cb = "nullptr",
           list = "reflist" => r.cb = "nullptr" /\ r.kind # "TrackedFinalizer",
           \/ pending_finalizers' = pending_finalizers
           \/ /\ pending_finalizers' = pending_finalizers \cup {next}
              /\ r.kind = "TrackedFinalizer",
           UNCHANGED <<instance_data, gcQueue>>
    PROVE  /\ TrackerInv' /\ TrackersStable
           /\ next \in Tracker /\ trk'[next] = r
           /\ trk[next].state = "unborn"
<1>1. next \in Tracker
  BY ConstantsAssumption DEF TrackerInv, New, Tracker
<1>2. /\ trk' \in [Tracker -> TrackerRecord]
      /\ trk'[next] = r
      /\ \A u \in Tracker : u # next => trk'[u] = trk[u]
  BY <1>1 DEF TrackerInv, New
<1>3. /\ trk[next].state = "unborn"
      /\ next' = next + 1 /\ next' \in 1 .. MaxTracker + 1
  BY <1>1, ConstantsAssumption DEF TrackerInv, UnbornBeyondNext, New
<1>4. /\ reflist' \subseteq reflist \cup {next}
      /\ finalizing_reflist' \subseteq finalizing_reflist \cup {next}
      /\ pending_finalizers' \subseteq pending_finalizers \cup {next}
  BY DEF New
<1>5. next \notin gcQueue
  BY <1>3 DEF TrackerInv, WeakCallbackTargetsLive, Live
<1>6. UnbornBeyondNext'
  BY <1>1, <1>2, <1>3, ConstantsAssumption
     DEF TrackerInv, UnbornBeyondNext, Tracker
<1>7. TrackerShape'
  BY <1>2 DEF TrackerInv, TrackerShape, Live
<1>8. NoDanglingTracker'
  BY <1>1, <1>2, <1>4 DEF TrackerInv, NoDanglingTracker, Live
<1>9. PendingKinds' /\ ReflistKinds'
  <2>1. reflist' = reflist \/ list = "reflist"
    BY DEF New
  <2>2. QED
    BY <1>1, <1>2, <1>4, <1>3, <2>1
       DEF TrackerInv, PendingKinds, ReflistKinds, NoDanglingTracker, Live
<1>10. /\ WeakCallbackTargetsLive'
       /\ \A t \in gcQueue' : trk'[t].kind \in ReferenceKinds
  BY <1>2, <1>5 DEF TrackerInv, WeakCallbackTargetsLive, Live
<1>11. InstanceDataKind'
  BY <1>2, <1>3 DEF TrackerInv, InstanceDataKind
<1>12. TrackersStable
  BY <1>2, <1>3 DEF TrackersStable
<1>13. QED
  BY <1>1, <1>2, <1>3, <1>4, <1>6, <1>7, <1>8, <1>9, <1>10, <1>11, <1>12
     DEF TrackerInv

(* napi_set_instance_data frees the old TrackedFinalizer and links a new   *)
(* one in the same step.                                                   *)
LEMMA SetInstanceDataKeeps ==
    ASSUME TrackerInv, next <= MaxTracker,
           instance_data = NULL \/ Live(instance_data),
           next' = next + 1,
           trk' = [t \in Tracker |->
                     IF t = next THEN MakeTrackedFinalizer
                     ELSE IF t = instance_data THEN Destroyed(trk[t])
                     ELSE trk[t]],
           reflist' = reflist,
           finalizing_reflist' =
               (finalizing_reflist \ {instance_data}) \cup {next},
           pending_finalizers' = pending_finalizers \ {instance_data},
           instance_data' = next,
           gcQueue' = gcQueue
    PROVE  TrackerInv' /\ TrackersStable
<1>1. next \in Tracker /\ trk[next].state = "unborn"
      /\ next' \in 1 .. MaxTracker + 1
  BY ConstantsAssumption DEF TrackerInv, Tracker, UnbornBeyondNext
<1>2. next # instance_data
  BY <1>1 DEF TrackerInv, InstanceDataKind, NULL, Tracker
<1>3. /\ trk' \in [Tracker -> TrackerRecord]
      /\ trk'[next] = MakeTrackedFinalizer
      /\ \A u \in Tracker : u # next /\ u # instance_data => trk'[u] = trk[u]
      /\ instance_data # NULL =>
             trk'[instance_data] = Destroyed(trk[instance_data])
  <2>1. \A u \in Tracker : trk[u] \in TrackerRecord
    BY DEF TrackerInv
  <2>2. \A u \in Tracker : Destroyed(trk[u]) \in TrackerRecord
    BY <2>1, DestroyedFacts
  <2>3. QED
    BY <1>1, <1>2, <2>1, <2>2, MakeTrackedFinalizerFacts DEF TrackerInv
<1>4. instance_data # NULL =>
          /\ trk'[instance_data].state = "deleted"
          /\ trk'[instance_data].kind = "TrackedFinalizer"
          /\ trk'[instance_data].value = trk[instance_data].value
          /\ trk'[instance_data].persistent = "empty"
  BY <1>3, DestroyedFacts DEF TrackerInv, InstanceDataKind
<1>14. NULL \notin Tracker
  BY DEF Tracker, NULL
<1>15. instance_data \notin reflist
  BY <1>14 DEF TrackerInv, InstanceDataKind, ReflistKinds
<1>5. instance_data \notin gcQueue /\ next \notin gcQueue
  BY <1>1, ConstantsAssumption
     DEF TrackerInv, InstanceDataKind, WeakCallbackTargetsLive, Live,
         ReferenceKinds, NULL, Tracker
<1>6. UnbornBeyondNext'
  <2>1. SUFFICES ASSUME NEW u \in Tracker, u >= next'
                 PROVE  trk'[u].state = "unborn"
    BY DEF UnbornBeyondNext
  <2>2. u # next /\ u >= next
    BY <1>1, <2>1 DEF Tracker
  <2>3. trk[u].state = "unborn"
    BY <2>2 DEF TrackerInv, UnbornBeyondNext
  <2>4. u # instance_data
    BY <2>3, <1>14 DEF TrackerInv, InstanceDataKind
  <2>5. QED
    BY <1>3, <2>2, <2>3, <2>4
<1>7. TrackerShape'
  <2>1. SUFFICES ASSUME NEW u \in Tracker
                 PROVE
                   /\ trk'[u].kind \in {"TrackedFinalizer",
                                        "TrackedStringResource"}
                          => trk'[u].value = NULL
                   /\ trk'[u].state = "unborn" => trk'[u].value = NULL
                   /\ trk'[u].persistent # "empty" => trk'[u].state = "live"
                   /\ trk'[u].kind \in {"Reference", "ReferenceWithData"}
                          => trk'[u].cb = "nullptr"
    BY DEF TrackerShape, Live
  <2>2. CASE u = next
    BY <2>2, <1>3, MakeTrackedFinalizerFacts
  <2>3. CASE u = instance_data
    <3>1. trk[u].kind = "TrackedFinalizer" /\ trk[u].value = NULL
      BY <2>3, <1>14 DEF TrackerInv, InstanceDataKind, TrackerShape
    <3>2. QED
      BY <2>3, <3>1, <1>4, <1>14
  <2>4. CASE u # next /\ u # instance_data
    BY <2>4, <1>3 DEF TrackerInv, TrackerShape, Live
  <2>5. QED
    BY <2>2, <2>3, <2>4
<1>8. NoDanglingTracker'
  BY <1>1, <1>3, <1>15, MakeTrackedFinalizerFacts
     DEF TrackerInv, NoDanglingTracker, Live
<1>9. PendingKinds' /\ ReflistKinds'
  BY <1>1, <1>3, <1>15, MakeTrackedFinalizerFacts
     DEF TrackerInv, PendingKinds, ReflistKinds, NoDanglingTracker, Live
<1>10. /\ WeakCallbackTargetsLive'
       /\ \A t \in gcQueue' : trk'[t].kind \in ReferenceKinds
  BY <1>3, <1>5 DEF TrackerInv, WeakCallbackTargetsLive, Live
<1>11. InstanceDataKind' /\ instance_data' \in Tracker \cup {NULL}
  BY <1>1, <1>3, MakeTrackedFinalizerFacts DEF InstanceDataKind
<1>12. TrackersStable
  <2>1. SUFFICES ASSUME NEW u \in Tracker, trk[u].state # "unborn"
                 PROVE  /\ trk'[u].state # "unborn"
                        /\ trk'[u].kind = trk[u].kind
                        /\ trk'[u].value = trk[u].value
    BY DEF TrackersStable
  <2>2. CASE u = instance_data
    BY <2>2, <1>4, <1>14 DEF TrackerInv, InstanceDataKind
  <2>3. CASE u # instance_data
    BY <2>1, <2>3, <1>1, <1>3
  <2>4. QED
    BY <2>2, <2>3
<1>13. QED
  BY <1>1, <1>3, <1>6, <1>7, <1>8, <1>9, <1>10, <1>11, <1>12 DEF TrackerInv

(* The private properties keep naming References on their objects.         *)
LEMMA WrapperKeeps ==
    ASSUME IInv, TrackersStable,
           \A o \in Object : wrapper'[o] \in {wrapper[o], NULL}
    PROVE  WrapperNames'
BY DEF IInv, ThreadInv, ThreadTypes, WrapperNames, TrackersStable

(* A call that touches at most the trackers, objects and faults, takes     *)
(* finalizers out of the queue at most, and leaves the thread where it is  *)
(* or ends the process.                                                    *)
LEMMA CallKeeps ==
    ASSUME IInv, TrackerInv', TrackersStable,
           obj' \in [Object -> {"unborn", "reachable", "unreachable",
                                "collected"}],
           wrapper' \in [Object -> Tracker \cup {NULL}],
           \A o \in Object : wrapper'[o] \in {wrapper[o], NULL},
           faults' \subseteq Kinds \cup {"instance_data", "env"},
           pending_finalizers' \subseteq pending_finalizers,
           pc' \in {pc, "aborted"},
           UNCHANGED <<gcQueue, refs, scheduled, tasks, owned, fin, gcFin,
                       inTask>>
    PROVE  IInv'
<1>1. ThreadTypes'
  BY DEF IInv, ThreadInv, ThreadTypes, Teardown
<1>2. CollectorState'
  BY DEF IInv, ThreadInv, CollectorState
<1>3. RefsBalance'
  BY DEF IInv, ThreadInv, RefsBalance
<1>4. WrapperNames'
  BY WrapperKeeps
<1>5. QED
  BY <1>1, <1>2, <1>3, <1>4 DEF IInv, ThreadInv

-----------------------------------------------------------------------------
(* Each action keeps the invariant: calls of the addon.                    *)

(* JavaScript code that creates or drops an object moves no tracker.       *)
LEMMA HeapCallsKeep ==
    ASSUME IInv, NEW o \in Object, JsCreateObject(o) \/ JsDropObject(o)
    PROVE  IInv'
<1>1. TrackerInv' /\ TrackersStable
  BY UnchangedKeeps DEF IInv, JsCreateObject, JsDropObject, queueVars
<1>2. /\ obj' \in [Object -> {"unborn", "reachable", "unreachable",
                              "collected"}]
      /\ UNCHANGED <<wrapper, faults, pending_finalizers, pc, gcQueue, refs,
                     scheduled, tasks, owned, fin, gcFin, inTask>>
  BY DEF IInv, ThreadInv, ThreadTypes, JsCreateObject, JsDropObject,
         queueVars, stackVars
<1>3. QED
  BY <1>1, <1>2, CallKeeps DEF IInv, ThreadInv, ThreadTypes

(* napi_create_reference links a live tracker without a callback.          *)
LEMMA CreateReferenceKeeps ==
    ASSUME IInv, NEW v \in Object \cup Primitive, NEW n \in 0 .. 1,
           napi_create_reference(v, n)
    PROVE  IInv'
<1> DEFINE r == MakeReference("Reference", "kUserland", n, v, "nullptr")
<1>1. n \in 0 .. MaxRefcount
  BY ConstantsAssumption
<1>2. /\ r \in TrackerRecord /\ r.state = "live" /\ r.kind = "Reference"
      /\ r.cb = "nullptr"
  BY <1>1, MakeReferenceFacts DEF ReferenceKinds, Ownership
<1>3. /\ New(r, "reflist")
      /\ UNCHANGED <<instance_data, obj, wrapper, faults, pending_finalizers,
                     pc, gcQueue, refs, scheduled, tasks, owned, fin, gcFin,
                     inTask>>
  BY DEF napi_create_reference, heapVars, queueVars, stackVars
<1> HIDE DEF r
<1>4. TrackerInv' /\ TrackersStable
  BY <1>2, <1>3, NewKeeps DEF IInv
<1>5. QED
  BY <1>3, <1>4, CallKeeps DEF IInv, ThreadInv, ThreadTypes

(* An external string links the resource of its characters.                *)
LEMMA CreateStringKeeps ==
    ASSUME IInv, NEW c \in {"user", "nullptr"},
           node_api_create_external_string(c)
    PROVE  IInv'
<1>1. PICK r : r = MakeTrackedStringResource(c)
  OBVIOUS
<1>2. /\ r \in TrackerRecord /\ r.state = "live"
      /\ r.kind = "TrackedStringResource" /\ r.cb = c /\ r.value = NULL
  BY <1>1, ConstantsAssumption
     DEF MakeTrackedStringResource, TrackerRecord, Kinds, Ownership
<1>3. PICK list : list = IF c = "user" THEN "finalizing_reflist" ELSE "reflist"
  OBVIOUS
<1>4. /\ New(r, list)
      /\ UNCHANGED <<instance_data, obj, wrapper, faults, pending_finalizers,
                     pc, gcQueue, refs, scheduled, tasks, owned, fin, gcFin,
                     inTask>>
  BY <1>1, <1>3
     DEF node_api_create_external_string, heapVars, queueVars, stackVars
<1>5. TrackerInv' /\ TrackersStable
  BY <1>2, <1>3, <1>4, NewKeeps DEF IInv
<1>6. QED
  BY <1>4, <1>5, CallKeeps DEF IInv, ThreadInv, ThreadTypes

(* V8 deletes the resource of a string: it leaves its list.                *)
LEMMA StringDestroyedKeeps ==
    ASSUME IInv, NEW t \in Tracker, StringResourceDestroyed(t)
    PROVE  IInv'
<1>1. /\ Live(t) /\ trk[t].kind = "TrackedStringResource"
      /\ gcQueue = {} /\ trk[t] \in TrackerRecord
      /\ UNCHANGED <<next, instance_data, obj, wrapper, faults,
                     pending_finalizers, pc, gcQueue, refs, scheduled, tasks,
                     owned, fin, gcFin, inTask>>
  BY DEF StringResourceDestroyed, heapVars, queueVars, stackVars, IInv,
         TrackerInv
<1>2. PICK r : r = Destroyed(CallFinalizer(trk[t]))
  OBVIOUS
<1>3. /\ r \in TrackerRecord /\ r.state = "deleted" /\ r.cb = "nullptr"
      /\ r.persistent = "empty" /\ r.kind = trk[t].kind
      /\ r.value = trk[t].value
  BY <1>1, <1>2, CallFinalizerFacts, DestroyedFacts
<1>4. /\ trk' = [trk EXCEPT ![t] = r]
      /\ reflist' = reflist \ {t}
      /\ finalizing_reflist' = finalizing_reflist \ {t}
  BY <1>2 DEF StringResourceDestroyed, Unlink
<1>5. t \notin pending_finalizers
  BY <1>1 DEF IInv, TrackerInv, PendingKinds
<1>6. TrackerInv' /\ TrackersStable
  BY <1>1, <1>3, <1>4, <1>5, UpdateKeeps DEF IInv, Live
<1>7. QED
  BY <1>1, <1>6, CallKeeps DEF IInv, ThreadInv, ThreadTypes

(* napi_add_finalizer and napi_create_external link a live tracker.        *)
LEMMA AddFinalizerKeeps ==
    ASSUME IInv, NEW o \in Object, NEW own \in Ownership,
           napi_add_finalizer(o, own) \/ napi_create_external(o)
    PROVE  IInv'
<1>0. PICK p \in Ownership :
          New(MakeReference("ReferenceWithFinalizer", p, 0, o, "user"),
              "finalizing_reflist")
  BY DEF napi_add_finalizer, napi_create_external, Ownership
<1> DEFINE r == MakeReference("ReferenceWithFinalizer", p, 0, o, "user")
<1>1. 0 \in 0 .. MaxRefcount
  BY ConstantsAssumption
<1>2. /\ r \in TrackerRecord /\ r.state = "live"
      /\ r.kind = "ReferenceWithFinalizer"
  BY <1>1, MakeReferenceFacts DEF ReferenceKinds
<1>3. /\ New(r, "finalizing_reflist")
      /\ UNCHANGED <<instance_data, wrapper, faults, pending_finalizers, pc,
                     gcQueue, refs, scheduled, tasks, owned, fin, gcFin,
                     inTask>>
  BY <1>0 DEF napi_add_finalizer, napi_create_external, heapVars, queueVars,
              stackVars
<1>4. obj' \in [Object -> {"unborn", "reachable", "unreachable", "collected"}]
  BY DEF IInv, ThreadInv, ThreadTypes, napi_add_finalizer,
         napi_create_external, heapVars
<1> HIDE DEF r
<1>5. TrackerInv' /\ TrackersStable
  BY <1>2, <1>3, NewKeeps DEF IInv
<1>6. QED
  BY <1>3, <1>4, <1>5, CallKeeps DEF IInv, ThreadInv, ThreadTypes

(* napi_wrap links one live tracker, in the list of its kind.              *)
LEMMA WrapKeeps ==
    ASSUME IInv, NEW o \in Object, NEW withResult \in BOOLEAN,
           NEW withFinalizer \in BOOLEAN, napi_wrap(o, withResult, withFinalizer)
    PROVE  IInv'
<1>0. PICK p \in Ownership, k \in ReferenceKinds, c \in {"user", "nullptr"},
           list \in {"reflist", "finalizing_reflist"} :
          /\ New(MakeReference(k, p, 0, o, c), list)
          /\ list = "reflist" <=> k = "ReferenceWithData"
          /\ k # "Reference"
          /\ k = "ReferenceWithData" => c = "nullptr"
  <2>1. PICK p \in Ownership :
            p = IF withResult THEN "kUserland" ELSE "kRuntime"
    BY DEF Ownership
  <2>2. CASE withFinalizer
    BY <2>1, <2>2 DEF napi_wrap, ReferenceKinds
  <2>3. CASE ~ withFinalizer
    BY <2>1, <2>3 DEF napi_wrap, ReferenceKinds
  <2>4. QED
    BY <2>2, <2>3
<1> DEFINE r == MakeReference(k, p, 0, o, c)
<1>1. 0 \in 0 .. MaxRefcount
  BY ConstantsAssumption
<1>2. /\ r \in TrackerRecord /\ r.state = "live" /\ r.kind = k /\ r.cb = c
  BY <1>1, MakeReferenceFacts
<1>21. r.value = o
  BY DEF MakeReference
<1>3. /\ New(r, list)
      /\ wrapper' = [wrapper EXCEPT ![o] = next]
      /\ UNCHANGED <<instance_data, obj, faults, pending_finalizers, pc,
                     gcQueue, refs, scheduled, tasks, owned, fin, gcFin,
                     inTask>>
  BY <1>0 DEF napi_wrap, queueVars, stackVars
<1> HIDE DEF r
<1>4. /\ TrackerInv' /\ TrackersStable
      /\ next \in Tracker /\ trk'[next] = r
  BY <1>0, <1>2, <1>3, NewKeeps DEF IInv, ReferenceKinds
<1>5. ThreadTypes'
  BY <1>3, <1>4 DEF IInv, ThreadInv, ThreadTypes
<1>6. CollectorState' /\ RefsBalance'
  BY <1>3 DEF IInv, ThreadInv, CollectorState, RefsBalance
<1>7. WrapperNames'
  <2>1. SUFFICES ASSUME NEW q \in Object, wrapper'[q] # NULL
                 PROVE  /\ trk'[wrapper'[q]].state # "unborn"
                        /\ trk'[wrapper'[q]].kind \in ReferenceKinds
                        /\ trk'[wrapper'[q]].value = q
    BY DEF WrapperNames
  <2>2. CASE q = o
    <3>1. wrapper'[q] = next
      BY <2>2, <1>3 DEF IInv, ThreadInv, ThreadTypes
    <3>2. QED
      BY <2>2, <3>1, <1>2, <1>21, <1>4
  <2>3. CASE q # o
    <3>1. wrapper'[q] = wrapper[q] /\ wrapper[q] \in Tracker
      BY <2>1, <2>3, <1>3 DEF IInv, ThreadInv, ThreadTypes
    <3>2. QED
      BY <2>1, <3>1, <1>4
         DEF IInv, ThreadInv, WrapperNames, TrackersStable
  <2>4. QED
    BY <2>2, <2>3
<1>8. QED
  BY <1>4, <1>5, <1>6, <1>7 DEF IInv, ThreadInv

(* Calls that only read, and steps that end the process.                   *)
LEMMA ReadsKeep ==
    ASSUME IInv,
           \/ \E o \in Object : napi_unwrap(o)
           \/ \E t \in Tracker : napi_get_reference_value(t)
           \/ napi_get_instance_data
           \/ CheckGCAccessFatal
           \/ CallFinalizerThrow
           \/ DrainDeletedEnv
    PROVE  IInv'
<1>1. UNCHANGED <<trackerVars, instance_data, wrapper, pending_finalizers,
                  gcQueue, refs, scheduled, tasks, owned, fin, gcFin, inTask>>
  BY DEF napi_unwrap, napi_get_reference_value, napi_get_instance_data,
         CheckGCAccessFatal, CallFinalizerThrow, DrainDeletedEnv, heapVars,
         queueVars, stackVars
<1>2. TrackerInv' /\ TrackersStable
  BY <1>1, UnchangedKeeps DEF IInv
<1>3. obj' \in [Object -> {"unborn", "reachable", "unreachable", "collected"}]
  BY DEF napi_unwrap, napi_get_reference_value, napi_get_instance_data,
         CheckGCAccessFatal, CallFinalizerThrow, DrainDeletedEnv, heapVars,
         IInv, ThreadInv, ThreadTypes
<1>4. faults' \subseteq Kinds \cup {"instance_data", "env"}
  <2>1. ASSUME NEW o \in Object, napi_unwrap(o)
        PROVE  faults' \subseteq Kinds \cup {"instance_data", "env"}
    <3>1. wrapper[o] \in Tracker
      BY <2>1 DEF napi_unwrap, IInv, ThreadInv, ThreadTypes
    <3>2. trk[wrapper[o]].kind \in Kinds
      BY <3>1 DEF IInv, TrackerInv, TrackerRecord
    <3>3. QED
      BY <2>1, <3>2 DEF napi_unwrap, IInv, ThreadInv, ThreadTypes
  <2>2. QED
    BY <2>1 DEF napi_get_reference_value, napi_get_instance_data,
         CheckGCAccessFatal, CallFinalizerThrow, DrainDeletedEnv,
         IInv, ThreadInv, ThreadTypes
<1>5. pc' \in {pc, "aborted"}
  BY DEF napi_unwrap, napi_get_reference_value, napi_get_instance_data,
         CheckGCAccessFatal, CallFinalizerThrow, DrainDeletedEnv, stackVars
<1>6. QED
  BY <1>1, <1>2, <1>3, <1>4, <1>5, CallKeeps
     DEF IInv, ThreadInv, ThreadTypes

(* Unless the GC is calling a finalizer of an experimental env, a call     *)
(* that CheckEnvNotInGC lets through runs while no weak callback is owed.  *)
LEMMA NotInGC ==
    ASSUME IInv, CheckEnvNotInGC
    PROVE  gcQueue = {} /\ gcFin = NULL
BY DEF IInv, ThreadInv, CollectorState, CheckEnvNotInGC, UserCode,
       GCAccessAllowed, InGcFinalizer

(* Deleting a tracker that no weak callback is owed to.                    *)
LEMMA DeleteKeeps ==
    ASSUME TrackerInv, NEW t \in Tracker, Delete(t), trk[t].state # "unborn",
           t \notin gcQueue, UNCHANGED <<next, instance_data, gcQueue>>
    PROVE  TrackerInv' /\ TrackersStable
<1> DEFINE r == Destroyed(trk[t])
<1>1. trk[t] \in TrackerRecord
  BY DEF TrackerInv
<1>2. /\ r \in TrackerRecord /\ r.state = "deleted"
      /\ r.persistent = "empty" /\ r.cb = "nullptr"
      /\ r.kind = trk[t].kind /\ r.value = trk[t].value
  BY <1>1, DestroyedFacts
<1>3. /\ trk' = [trk EXCEPT ![t] = r]
      /\ reflist' = reflist \ {t}
      /\ finalizing_reflist' = finalizing_reflist \ {t}
      /\ pending_finalizers' = pending_finalizers \ {t}
  BY DEF Delete, Unlink, DequeueFinalizer
<1> HIDE DEF r
<1>4. QED
  BY <1>2, <1>3, UpdateKeeps

(* napi_delete_reference unlinks and dequeues what it frees.               *)
LEMMA DeleteReferenceKeeps ==
    ASSUME IInv, NEW t \in Tracker, napi_delete_reference(t)
    PROVE  IInv'
<1>1. gcQueue = {}
  BY NotInGC DEF napi_delete_reference
<1>2. TrackerInv' /\ TrackersStable
  BY <1>1, DeleteKeeps DEF IInv, napi_delete_reference, Held, Live
<1>3. QED
  BY <1>2, CallKeeps DEF napi_delete_reference, Delete, DequeueFinalizer,
     IInv, ThreadInv, ThreadTypes, heapVars, stackVars

(* napi_remove_wrap frees a kRuntime tracker or disarms the addon's.       *)
LEMMA RemoveWrapKeeps ==
    ASSUME IInv, NEW o \in Object, napi_remove_wrap(o)
    PROVE  IInv'
<1> DEFINE t == wrapper[o]
<1>1. gcQueue = {}
  BY NotInGC DEF napi_remove_wrap, Preamble
<1>2. t \in Tracker /\ trk[t].state # "unborn" /\ trk[t] \in TrackerRecord
  BY DEF napi_remove_wrap, IInv, ThreadInv, ThreadTypes, WrapperNames,
         TrackerInv
<1>3. /\ UNCHANGED <<next, instance_data, obj, gcQueue, refs, scheduled,
                     tasks, owned, fin, gcFin, inTask, pc, faults>>
      /\ wrapper' = [wrapper EXCEPT ![o] = NULL]
  BY DEF napi_remove_wrap, stackVars
<1>4. /\ TrackerInv' /\ TrackersStable
      /\ pending_finalizers' \subseteq pending_finalizers
  <2>1. CASE trk[t].ownership = "kUserland"
    <3> DEFINE r == [trk[t] EXCEPT !.cb = "nullptr"]
    <3>1. /\ r \in TrackerRecord /\ r.state = trk[t].state
          /\ r.kind = trk[t].kind /\ r.value = trk[t].value
          /\ r.cb = "nullptr" /\ r.persistent = trk[t].persistent
      BY <1>2 DEF TrackerRecord
    <3>2. /\ trk' = [trk EXCEPT ![t] = r]
          /\ UNCHANGED <<reflist, finalizing_reflist, pending_finalizers>>
      BY <2>1 DEF napi_remove_wrap
    <3>3. r.state # "live" =>
              t \notin reflist \cup finalizing_reflist \cup pending_finalizers
      BY <3>1 DEF IInv, TrackerInv, NoDanglingTracker, Live
    <3>4. r.persistent # "empty" => r.state = "live"
      BY <1>2, <3>1 DEF IInv, TrackerInv, TrackerShape, Live
    <3> HIDE DEF r
    <3>5. QED
      BY <1>1, <1>2, <1>3, <3>1, <3>2, <3>3, <3>4, UpdateKeeps DEF IInv
  <2>2. CASE trk[t].ownership # "kUserland"
    <3>1. Delete(t)
      BY <2>2 DEF napi_remove_wrap
    <3>2. pending_finalizers' \subseteq pending_finalizers
      BY <3>1 DEF Delete, DequeueFinalizer
    <3>3. QED
      BY <1>1, <1>2, <1>3, <3>1, <3>2, DeleteKeeps DEF IInv
  <2>3. QED
    BY <2>1, <2>2
<1>5. /\ wrapper' \in [Object -> Tracker \cup {NULL}]
      /\ \A q \in Object : wrapper'[q] \in {wrapper[q], NULL}
  BY <1>3 DEF IInv, ThreadInv, ThreadTypes
<1>6. QED
  BY <1>3, <1>4, <1>5, CallKeeps DEF IInv, ThreadInv, ThreadTypes

(* Ref and Unref change the count and the handle of one tracker.           *)
LEMMA CountKeeps ==
    ASSUME IInv, NEW t \in Tracker,
           napi_reference_ref(t) \/ napi_reference_unref(t)
    PROVE  IInv'
<1> DEFINE r == trk'[t]
<1>1. trk[t] \in TrackerRecord /\ trk[t].state = "live"
  BY DEF IInv, TrackerInv, napi_reference_ref, napi_reference_unref, Held,
         Live
<1>2. /\ trk' = [trk EXCEPT ![t] = r]
      /\ r \in TrackerRecord /\ r.state = "live" /\ r.kind = trk[t].kind
      /\ r.value = trk[t].value /\ r.cb = trk[t].cb
  <2>1. CASE napi_reference_ref(t)
    <3>1. trk' = [trk EXCEPT ![t] = Ref(trk[t])]
          /\ trk[t].refcount < MaxRefcount
      BY <2>1 DEF napi_reference_ref
    <3>2. QED
      BY <1>1, <3>1, RefFacts DEF IInv, TrackerInv
  <2>2. CASE napi_reference_unref(t)
    <3>1. trk' = [trk EXCEPT ![t] = Unref(trk[t])]
          /\ trk[t].refcount # 0
      BY <2>2 DEF napi_reference_unref, napi_reference_unref_status
    <3>2. QED
      BY <1>1, <3>1, UnrefFacts DEF IInv, TrackerInv
  <2>3. QED
    BY <2>1, <2>2
<1>3. UNCHANGED <<next, reflist, finalizing_reflist, instance_data, obj,
                  wrapper, faults, pending_finalizers, gcQueue, pc, refs,
                  scheduled, tasks, owned, fin, gcFin, inTask>>
  BY DEF napi_reference_ref, napi_reference_unref, heapVars, queueVars,
         stackVars
<1> HIDE DEF r
<1>4. TrackerInv' /\ TrackersStable
  BY <1>1, <1>2, <1>3, UpdateKeeps DEF IInv
<1>5. QED
  BY <1>3, <1>4, CallKeeps DEF IInv, ThreadInv, ThreadTypes

(* EnqueueFinalizer posts an immediate when none is posted: the flag, the  *)
(* task and the count stay in balance, and the queue has its immediate.    *)
LEMMA EnqueueKeeps ==
    ASSUME ThreadTypes, RefsBalance, NEW t, EnqueueFinalizer(t),
           UNCHANGED <<pc, owned>>
    PROVE  /\ RefsBalance'
           /\ refs' \in Nat /\ tasks' \in Nat /\ scheduled' \in BOOLEAN
<1>1. CASE scheduled \/ Destructing
  <2>1. UNCHANGED <<refs, scheduled, tasks>>
    BY <1>1 DEF EnqueueFinalizer
  <2>2. pc = "run" => scheduled
    BY <1>1 DEF Destructing, Teardown
  <2>3. QED
    BY <2>1, <2>2 DEF RefsBalance, ThreadTypes
<1>2. CASE ~ (scheduled \/ Destructing)
  <2>1. scheduled' = TRUE /\ refs' = refs + 1 /\ tasks' = tasks + 1
    BY <1>2 DEF EnqueueFinalizer
  <2>2. tasks = 0 /\ refs = tasks + (IF owned THEN 1 ELSE 0)
    BY <1>2 DEF RefsBalance
  <2>3. tasks' = 1 /\ refs' = 1 + (IF owned THEN 1 ELSE 0)
    BY <2>1, <2>2
  <2>4. QED
    BY <2>1, <2>3 DEF RefsBalance
<1>3. QED
  BY <1>1, <1>2

(* node_api_post_finalizer queues a new tracker with its immediate.        *)
LEMMA PostFinalizerKeeps ==
    ASSUME IInv, node_api_post_finalizer
    PROVE  IInv'
<1>1. /\ New(MakeTrackedFinalizer, "finalizing_reflist")
      /\ pending_finalizers' = pending_finalizers \cup {next}
      /\ UNCHANGED <<instance_data, obj, wrapper, faults, gcQueue, pc, owned,
                     fin, gcFin, inTask>>
  BY DEF node_api_post_finalizer, EnqueueFinalizer, heapVars, stackVars
<1>2. TrackerInv' /\ TrackersStable
  BY <1>1, NewKeeps, MakeTrackedFinalizerFacts DEF IInv
<1>3. ThreadTypes' /\ RefsBalance'
  <2>1. EnqueueFinalizer(next)
    BY DEF node_api_post_finalizer
  <2>2. /\ RefsBalance'
        /\ refs' \in Nat /\ tasks' \in Nat /\ scheduled' \in BOOLEAN
    BY <1>1, <2>1, EnqueueKeeps DEF IInv, ThreadInv
  <2>3. QED
    BY <1>1, <2>2 DEF IInv, ThreadInv, ThreadTypes
<1>4. CollectorState'
  BY <1>1 DEF IInv, ThreadInv, CollectorState
<1>5. WrapperNames'
  BY <1>1, <1>2, WrapperKeeps
<1>6. QED
  BY <1>2, <1>3, <1>4, <1>5 DEF IInv, ThreadInv

(* napi_set_instance_data frees the old tracker and links a new one.       *)
LEMMA SetInstanceKeeps ==
    ASSUME IInv, napi_set_instance_data
    PROVE  IInv'
<1>1. UNCHANGED <<obj, wrapper, gcQueue, refs, scheduled, tasks, owned, fin,
                  gcFin, inTask>>
  BY DEF napi_set_instance_data, heapVars
<1>2. CASE instance_data # NULL /\ ~ Live(instance_data)
  <2>1. /\ UNCHANGED <<trackerVars, instance_data, pending_finalizers>>
        /\ pc' = "aborted"
        /\ faults' = faults \cup {"TrackedFinalizer"}
    BY <1>2 DEF napi_set_instance_data
  <2>2. TrackerInv' /\ TrackersStable
    BY <1>1, <2>1, UnchangedKeeps DEF IInv
  <2>3. faults' \subseteq Kinds \cup {"instance_data", "env"}
    BY <2>1 DEF IInv, ThreadInv, ThreadTypes, Kinds
  <2>4. QED
    BY <1>1, <2>1, <2>2, <2>3, CallKeeps DEF IInv, ThreadInv, ThreadTypes
<1>3. CASE ~ (instance_data # NULL /\ ~ Live(instance_data))
  <2>1. TrackerInv' /\ TrackersStable
    BY <1>1, <1>3, SetInstanceDataKeeps DEF IInv, napi_set_instance_data
  <2>2. /\ pending_finalizers' \subseteq pending_finalizers
        /\ UNCHANGED <<pc, faults>>
    BY <1>3 DEF napi_set_instance_data
  <2>3. QED
    BY <1>1, <2>1, <2>2, CallKeeps DEF IInv, ThreadInv, ThreadTypes
<1>4. QED
  BY <1>2, <1>3

-----------------------------------------------------------------------------
(* The collector.                                                          *)

(* A collection owes callbacks to live References only.                    *)
LEMMA CollectGarbageKeeps ==
    ASSUME IInv, NEW o \in Object, CollectGarbage(o)
    PROVE  IInv'
<1>1. /\ UNCHANGED <<trk, next, reflist, finalizing_reflist, instance_data,
                     pending_finalizers, refs, scheduled, tasks, owned, pc,
                     fin, gcFin, inTask, faults>>
      /\ gcQueue' = {t \in Tracker : trk[t].value = o
                                     /\ trk[t].persistent = "weak"}
      /\ wrapper' = [wrapper EXCEPT ![o] = NULL]
      /\ obj' = [obj EXCEPT ![o] = "collected"]
      /\ gcFin = NULL
      /\ pc = "run" \/ fin # NULL
  BY DEF CollectGarbage, trackerVars, queueVars, stackVars, InGcFinalizer
<1>2. \A t \in gcQueue' : trk[t].state = "live" /\ trk[t].kind \in ReferenceKinds
  <2>1. SUFFICES ASSUME NEW t \in gcQueue'
                 PROVE  trk[t].state = "live" /\ trk[t].kind \in ReferenceKinds
    OBVIOUS
  <2>2. t \in Tracker /\ trk[t].value = o /\ trk[t].persistent = "weak"
    BY <1>1
  <2>3. trk[t].state = "live"
    BY <2>2 DEF IInv, TrackerInv, TrackerShape, Live
  <2>4. trk[t].kind \notin {"TrackedFinalizer", "TrackedStringResource"}
    BY <2>2, ConstantsAssumption DEF IInv, TrackerInv, TrackerShape
  <2>5. trk[t].kind \in Kinds
    BY <2>2 DEF IInv, TrackerInv, TrackerRecord
  <2>6. QED
    BY <2>3, <2>4, <2>5 DEF Kinds
<1>3. TrackerInv' /\ TrackersStable
  <2>1. TrackersStable
    BY <1>1 DEF TrackersStable
  <2>2. /\ UnbornBeyondNext' /\ TrackerShape' /\ NoDanglingTracker'
        /\ ReflistKinds' /\ PendingKinds' /\ InstanceDataKind'
    BY <1>1 DEF IInv, TrackerInv, UnbornBeyondNext, TrackerShape,
       NoDanglingTracker, ReflistKinds, PendingKinds, InstanceDataKind, Live
  <2>3. WeakCallbackTargetsLive'
        /\ \A t \in gcQueue' : trk'[t].kind \in ReferenceKinds
    BY <1>1, <1>2 DEF WeakCallbackTargetsLive, Live
  <2>4. QED
    BY <1>1, <2>1, <2>2, <2>3 DEF IInv, TrackerInv
<1>4. ThreadTypes'
  BY <1>1 DEF IInv, ThreadInv, ThreadTypes
<1>5. CollectorState'
  BY <1>1 DEF IInv, ThreadInv, CollectorState, Tracker, NULL
<1>6. RefsBalance'
  BY <1>1 DEF IInv, ThreadInv, RefsBalance
<1>7. WrapperNames'
  BY <1>1, <1>3, WrapperKeeps DEF IInv, ThreadInv, ThreadTypes
<1>8. QED
  BY <1>3, <1>4, <1>5, <1>6, <1>7 DEF IInv, ThreadInv

(* Finalize() on a tracker that exists: it leaves both lists, and if it    *)
(* freed itself then neither the queue nor the collector names it.         *)
LEMMA FinalizeKeeps ==
    ASSUME TrackerInv, NEW t \in Tracker, trk[t].state # "unborn",
           trk' = [trk EXCEPT ![t] = Finalized(@)], Unlink(t),
           UNCHANGED <<next, instance_data>>,
           gcQueue' \subseteq gcQueue,
           pending_finalizers' \subseteq pending_finalizers,
           trk[t].cb # "user" /\ trk[t].ownership = "kRuntime" =>
               t \notin pending_finalizers' \cup gcQueue',
           trk[t].state = "live"
    PROVE  TrackerInv' /\ TrackersStable
<1> DEFINE r == Finalized(trk[t])
<1>1. trk[t] \in TrackerRecord
  BY DEF TrackerInv
<1>2. /\ r \in TrackerRecord
      /\ r.persistent # "empty" => r.state = "live"
      /\ r.cb = "nullptr" \/ r.cb = trk[t].cb
      /\ r.kind = trk[t].kind /\ r.value = trk[t].value
      /\ r.state # "unborn"
      /\ r.state # "live" => trk[t].cb # "user"
                             /\ trk[t].ownership = "kRuntime"
  BY <1>1, FinalizedFacts
<1>3. /\ trk' = [trk EXCEPT ![t] = r]
      /\ reflist' = reflist \ {t}
      /\ finalizing_reflist' = finalizing_reflist \ {t}
  BY DEF Unlink
<1> HIDE DEF r
<1>4. QED
  BY <1>2, <1>3, UpdateKeeps

(* A weak callback queues its Reference or finalizes it at once.           *)
LEMMA WeakCallbackKeeps ==
    ASSUME IInv, NEW t \in Tracker, WeakCallback(t)
    PROVE  IInv'
<1>1. /\ t \in gcQueue /\ gcFin = NULL /\ pc # "aborted"
      /\ gcQueue' = gcQueue \ {t}
      /\ UNCHANGED <<next, instance_data, obj, wrapper, owned, pc, fin,
                     inTask, faults>>
  BY DEF WeakCallback, InGcFinalizer, heapVars
<1>2. trk[t].state = "live" /\ trk[t].kind \in ReferenceKinds
      /\ trk[t] \in TrackerRecord
  BY <1>1 DEF IInv, TrackerInv, WeakCallbackTargetsLive, Live
<1>3. CASE trk[t].kind = "ReferenceWithFinalizer" /\ ~ Experimental
  <2> DEFINE r == WeakCallbackReset(trk[t])
  <2>1. /\ trk' = [trk EXCEPT ![t] = r]
        /\ EnqueueFinalizer(t)
        /\ UNCHANGED <<reflist, finalizing_reflist, gcFin>>
    BY <1>3 DEF WeakCallback
  <2>2. /\ r \in TrackerRecord /\ r.state = "live" /\ r.kind = trk[t].kind
        /\ r.value = trk[t].value /\ r.cb = trk[t].cb
    BY <1>2 DEF WeakCallbackReset, TrackerRecord
  <2>3. pending_finalizers' = pending_finalizers \cup {t}
    BY <2>1 DEF EnqueueFinalizer
  <2> HIDE DEF r
  <2>4. TrackerInv' /\ TrackersStable
    BY <1>1, <1>2, <1>3, <2>1, <2>2, <2>3, UpdateKeeps DEF IInv
  <2>5. ThreadTypes' /\ RefsBalance'
    <3>1. /\ RefsBalance'
          /\ refs' \in Nat /\ tasks' \in Nat /\ scheduled' \in BOOLEAN
      BY <1>1, <2>1, EnqueueKeeps DEF IInv, ThreadInv
    <3>2. QED
      BY <1>1, <2>1, <3>1 DEF IInv, ThreadInv, ThreadTypes
  <2>6. CollectorState'
    BY <1>1, <2>1 DEF IInv, ThreadInv, CollectorState
  <2>7. WrapperNames'
    BY <1>1, <2>4, WrapperKeeps
  <2>8. QED
    BY <2>4, <2>5, <2>6, <2>7 DEF IInv, ThreadInv
<1>4. CASE ~ (trk[t].kind = "ReferenceWithFinalizer" /\ ~ Experimental)
  <2>1. /\ trk' = [trk EXCEPT ![t] = Finalized(@)]
        /\ Unlink(t)
        /\ gcFin' = IF trk[t].cb = "user" THEN t ELSE NULL
        /\ UNCHANGED <<pending_finalizers, refs, scheduled, tasks>>
    BY <1>4 DEF WeakCallback, queueVars
  <2>2. t \notin pending_finalizers
    BY <1>2, <1>4 DEF IInv, TrackerInv, PendingKinds, ReferenceKinds
  <2>3. TrackerInv' /\ TrackersStable
    BY <1>1, <1>2, <2>1, <2>2, FinalizeKeeps DEF IInv
  <2>4. trk[t].cb = "user" => Experimental
    BY <1>2, <1>4 DEF IInv, TrackerInv, TrackerShape, ReferenceKinds
  <2>5. ThreadTypes' /\ RefsBalance'
    BY <1>1, <2>1 DEF IInv, ThreadInv, ThreadTypes, RefsBalance
  <2>6. CollectorState'
    BY <1>1, <2>1, <2>4 DEF IInv, ThreadInv, CollectorState, TrackerInv,
       Tracker, NULL
  <2>7. WrapperNames'
    BY <1>1, <2>3, WrapperKeeps
  <2>8. QED
    BY <2>3, <2>5, <2>6, <2>7 DEF IInv, ThreadInv
<1>5. QED
  BY <1>3, <1>4

-----------------------------------------------------------------------------
(* Running finalizers, and the life of the env.                            *)

(* Outside of user code and of "run" the collector is not active.          *)
LEMMA CollectorIdle ==
    ASSUME IInv, fin = NULL, pc \notin {"run", "aborted"}
    PROVE  gcQueue = {} /\ gcFin = NULL
BY DEF IInv, ThreadInv, CollectorState

(* One turn of either draining loop or of FinalizeAll: a live tracker that *)
(* the collector does not owe a callback is finalized.                     *)
LEMMA FinalizeStepKeeps ==
    ASSUME IInv, NEW t \in Tracker, Live(t), fin = NULL,
           pc \in Teardown \cup {"drain"},
           trk' = [trk EXCEPT ![t] = Finalized(@)], Unlink(t),
           fin' = IF CallsUser(trk[t]) THEN t ELSE NULL,
           pending_finalizers' \subseteq pending_finalizers,
           trk[t].cb # "user" /\ trk[t].ownership = "kRuntime" =>
               t \notin pending_finalizers',
           UNCHANGED <<next, instance_data, heapVars, gcQueue, refs, scheduled,
                       tasks, owned, pc, gcFin, inTask, faults>>
    PROVE  IInv'
<1>1. gcQueue = {} /\ gcFin = NULL
  BY CollectorIdle DEF Teardown
<1>2. TrackerInv' /\ TrackersStable
  BY <1>1, FinalizeKeeps DEF IInv, Live
<1>3. ThreadTypes'
  BY DEF IInv, ThreadInv, ThreadTypes, heapVars
<1>4. CollectorState'
  BY <1>1 DEF CollectorState
<1>5. RefsBalance'
  BY DEF IInv, ThreadInv, RefsBalance, Teardown
<1>6. WrapperNames'
  BY <1>2, WrapperKeeps DEF heapVars
<1>7. QED
  BY <1>2, <1>3, <1>4, <1>5, <1>6 DEF IInv, ThreadInv

(* DrainFinalizerQueue unlinks and dequeues the tracker it runs.           *)
LEMMA DrainKeeps ==
    ASSUME IInv, NEW t \in Tracker, DrainFinalizerQueue(t)
    PROVE  IInv'
<1>1. Live(t)
  BY DEF IInv, TrackerInv, NoDanglingTracker, DrainFinalizerQueue
<1>2. QED
  BY <1>1, FinalizeStepKeeps DEF DrainFinalizerQueue, Teardown

(* The loops of DeleteMe unlink the tracker they finalize.                 *)
LEMMA DeleteMeKeeps ==
    ASSUME IInv, DeleteMeFinalizing \/ DeleteMeReflist
    PROVE  IInv'
<1>1. PICK list \in {reflist, finalizing_reflist} :
          FinalizeFront(list) /\ pc \in Teardown
  BY DEF DeleteMeFinalizing, DeleteMeReflist, Teardown
<1>2. PICK t \in list :
        /\ fin = NULL
        /\ trk' = [trk EXCEPT ![t] = Finalized(@)]
        /\ Unlink(t)
        /\ fin' = IF CallsUser(trk[t]) THEN t ELSE NULL
        /\ pending_finalizers' =
               IF trk[t].cb = "user" \/ trk[t].ownership = "kUserland"
               THEN pending_finalizers ELSE pending_finalizers \ {t}
        /\ UNCHANGED <<next, instance_data, heapVars, gcQueue, refs,
                       scheduled, tasks, owned, pc, gcFin, inTask, faults>>
  BY <1>1 DEF FinalizeFront
<1>3. t \in Tracker /\ Live(t)
  BY <1>1, <1>2 DEF IInv, TrackerInv, NoDanglingTracker
<1>4. /\ pending_finalizers' \subseteq pending_finalizers
      /\ trk[t].cb # "user" /\ trk[t].ownership = "kRuntime" =>
             t \notin pending_finalizers'
  BY <1>2
<1>5. QED
  BY <1>1, <1>2, <1>3, <1>4, FinalizeStepKeeps

(* The steps between the loops of the immediate and of DeleteMe.           *)
LEMMA LoopEndKeeps ==
    ASSUME IInv, \/ DrainFinalizerQueueEnd
                 \/ DeleteMeFinalizingEnd
                 \/ DeleteMeEnd
    PROVE  IInv'
<1>1. /\ fin = NULL
      /\ pc \in Teardown \cup {"drain"}
      /\ pc' \in Teardown \cup {"run", "deleted"}
      /\ pc' = "run" => pending_finalizers = {}
      /\ UNCHANGED <<trackerVars, instance_data, obj, wrapper, gcQueue,
                     pending_finalizers, refs, scheduled, tasks, owned, fin,
                     gcFin, inTask, faults>>
  BY DEF DrainFinalizerQueueEnd, DeleteMeFinalizingEnd, DeleteMeEnd, Teardown,
         heapVars, queueVars
<1>2. gcQueue = {} /\ gcFin = NULL
  BY <1>1, CollectorIdle DEF Teardown
<1>3. TrackerInv' /\ TrackersStable
  BY <1>1, UnchangedKeeps DEF IInv
<1>4. ThreadTypes'
  BY <1>1 DEF IInv, ThreadInv, ThreadTypes
<1>5. CollectorState'
  BY <1>1, <1>2 DEF CollectorState
<1>6. RefsBalance'
  BY <1>1 DEF IInv, ThreadInv, RefsBalance
<1>7. WrapperNames'
  BY <1>1, <1>3, WrapperKeeps
<1>8. QED
  BY <1>3, <1>4, <1>5, <1>6, <1>7 DEF IInv, ThreadInv

(* A user finalizer returns: what Finalize() then does to its tracker.     *)
LEMMA FinalizerReturnedKeeps ==
    ASSUME IInv, NEW t \in Tracker, t \notin gcQueue, FinalizerReturned(t),
           UNCHANGED <<next, instance_data, gcQueue>>
    PROVE  /\ TrackerInv' /\ TrackersStable
           /\ pending_finalizers' \subseteq pending_finalizers
           /\ pc' \in {pc, "aborted"}
           /\ faults' \subseteq Kinds \cup {"instance_data", "env"}
<1>1. trk[t].kind \in Kinds
  BY DEF IInv, TrackerInv, TrackerRecord
<1>2. CASE Delete(t) /\ Live(t) /\ UNCHANGED <<pc, faults>>
  <2>1. TrackerInv' /\ TrackersStable
    BY <1>2, DeleteKeeps DEF IInv, Live
  <2>2. QED
    BY <1>2, <2>1 DEF Delete, DequeueFinalizer, IInv, ThreadInv, ThreadTypes
<1>3. CASE UNCHANGED <<trk, reflist, finalizing_reflist, pending_finalizers>>
  <2>1. TrackerInv' /\ TrackersStable
    BY <1>3, UnchangedKeeps DEF IInv, trackerVars
  <2>2. /\ pc' \in {pc, "aborted"}
        /\ faults' \in {faults, faults \cup {trk[t].kind}}
    BY DEF FinalizerReturned
  <2>3. QED
    BY <1>1, <1>3, <2>1, <2>2 DEF IInv, ThreadInv, ThreadTypes
<1>4. QED
  BY <1>2, <1>3 DEF FinalizerReturned

(* A finalizer returned: its kRuntime tracker is freed and unlinked.       *)
LEMMA CallFinalizerReturnKeeps ==
    ASSUME IInv, CallFinalizerReturn
    PROVE  IInv'
<1>1. /\ fin \in Tracker /\ gcQueue = {} /\ gcFin = NULL
      /\ FinalizerReturned(fin) /\ fin' = NULL
      /\ UNCHANGED <<next, instance_data, obj, wrapper, gcQueue, refs,
                     scheduled, tasks, owned, gcFin, inTask>>
  BY DEF CallFinalizerReturn, InGcFinalizer, heapVars, IInv, ThreadInv,
         ThreadTypes
<1>2. /\ TrackerInv' /\ TrackersStable
      /\ pending_finalizers' \subseteq pending_finalizers
      /\ pc' \in {pc, "aborted"}
      /\ faults' \subseteq Kinds \cup {"instance_data", "env"}
  BY <1>1, FinalizerReturnedKeeps
<1>3. ThreadTypes'
  BY <1>1, <1>2 DEF IInv, ThreadInv, ThreadTypes, Teardown
<1>4. CollectorState'
  BY <1>1 DEF CollectorState
<1>5. RefsBalance'
  BY <1>1, <1>2 DEF IInv, ThreadInv, RefsBalance
<1>6. WrapperNames'
  BY <1>1, <1>2, WrapperKeeps
<1>7. QED
  BY <1>2, <1>3, <1>4, <1>5, <1>6 DEF IInv, ThreadInv

(* The same for a finalizer that the collector called.                     *)
LEMMA GcFinalizerReturnKeeps ==
    ASSUME IInv, GcFinalizerReturn
    PROVE  IInv'
<1>1. /\ gcFin \in Tracker /\ gcFin \notin gcQueue
      /\ FinalizerReturned(gcFin) /\ gcFin' = NULL
      /\ UNCHANGED <<next, instance_data, obj, wrapper, gcQueue, refs,
                     scheduled, tasks, owned, fin, inTask>>
  BY DEF GcFinalizerReturn, InGcFinalizer, heapVars, IInv, ThreadInv,
         ThreadTypes, CollectorState
<1>2. /\ TrackerInv' /\ TrackersStable
      /\ pending_finalizers' \subseteq pending_finalizers
      /\ pc' \in {pc, "aborted"}
      /\ faults' \subseteq Kinds \cup {"instance_data", "env"}
  BY <1>1, FinalizerReturnedKeeps
<1>3. ThreadTypes'
  BY <1>1, <1>2 DEF IInv, ThreadInv, ThreadTypes, Teardown
<1>4. CollectorState'
  BY <1>1, <1>2 DEF IInv, ThreadInv, CollectorState, TrackerInv, Tracker, NULL
<1>5. RefsBalance'
  BY <1>1, <1>2 DEF IInv, ThreadInv, RefsBalance
<1>6. WrapperNames'
  BY <1>1, <1>2, WrapperKeeps
<1>7. QED
  BY <1>2, <1>3, <1>4, <1>5, <1>6 DEF IInv, ThreadInv

(* The owner and the immediate drop their references on the env.           *)
LEMMA UnrefEnvKeeps ==
    ASSUME IInv, OwnerUnref \/ RunImmediate
    PROVE  IInv'
<1>1. /\ pc = "run" /\ gcQueue = {} /\ gcFin = NULL
      /\ UNCHANGED <<trackerVars, instance_data, obj, wrapper, gcQueue,
                     pending_finalizers, fin, gcFin, faults>>
      /\ refs' = refs - 1
      /\ pc' \in {"run", "teardownDrain", "drain"}
      /\ inTask' \in BOOLEAN
  BY DEF OwnerUnref, RunImmediate, Idle, InGcFinalizer, heapVars, IInv,
         ThreadInv, ThreadTypes
<1>2. TrackerInv' /\ TrackersStable
  BY <1>1, UnchangedKeeps DEF IInv
<1>3. /\ refs' \in Nat /\ tasks' \in Nat /\ scheduled' \in BOOLEAN
      /\ owned' \in BOOLEAN
      /\ RefsBalance'
  <2>1. CASE OwnerUnref
    <3>1. owned = TRUE /\ owned' = FALSE /\ UNCHANGED <<scheduled, tasks>>
      BY <2>1 DEF OwnerUnref, IInv, ThreadInv, ThreadTypes
    <3>2. refs' = tasks
      BY <1>1, <3>1 DEF IInv, ThreadInv, RefsBalance, ThreadTypes
    <3>3. tasks' \in Nat /\ scheduled' \in BOOLEAN /\ refs' \in Nat
      BY <3>1, <3>2 DEF IInv, ThreadInv, ThreadTypes
    <3>4. /\ tasks' = IF scheduled' THEN 1 ELSE 0
          /\ pc' = "run" /\ pending_finalizers' # {} => scheduled'
      BY <1>1, <3>1 DEF IInv, ThreadInv, RefsBalance
    <3>5. refs' = tasks' + (IF owned' THEN 1 ELSE 0)
      BY <3>1, <3>2 DEF IInv, ThreadInv, ThreadTypes
    <3>6. QED
      BY <3>1, <3>3, <3>4, <3>5 DEF RefsBalance
  <2>2. CASE RunImmediate
    <3>1. /\ tasks > 0 /\ tasks' = tasks - 1 /\ scheduled' = FALSE
          /\ pc' # "run" /\ owned' = owned
      BY <2>2 DEF RunImmediate
    <3>2. tasks = 1
      BY <3>1 DEF IInv, ThreadInv, RefsBalance
    <3>3. tasks' = 0 /\ refs' = IF owned THEN 1 ELSE 0
      BY <1>1, <3>1, <3>2 DEF IInv, ThreadInv, RefsBalance
    <3>4. refs' \in Nat /\ tasks' \in Nat
      BY <3>3
    <3>5. scheduled' \in BOOLEAN /\ owned' \in BOOLEAN
      BY <3>1, Zenon DEF IInv, ThreadInv, ThreadTypes
    <3>6. tasks' = IF scheduled' THEN 1 ELSE 0
      BY <3>1, <3>3
    <3>7. refs' = IF owned' THEN 1 ELSE 0
      BY <3>1, <3>3, Zenon
    <3>8. refs' = tasks' + (IF owned' THEN 1 ELSE 0)
      BY <3>3, <3>7
    <3>9. QED
      BY <3>1, <3>4, <3>5, <3>6, <3>8 DEF RefsBalance
  <2>3. QED
    BY <2>1, <2>2
<1>4. ThreadTypes'
  BY <1>1, <1>3 DEF IInv, ThreadInv, ThreadTypes, Teardown
<1>5. CollectorState'
  BY <1>1 DEF CollectorState
<1>6. WrapperNames'
  BY <1>1, <1>2, WrapperKeeps
<1>7. QED
  BY <1>2, <1>3, <1>4, <1>5, <1>6 DEF IInv, ThreadInv

-----------------------------------------------------------------------------
(* Every step keeps the invariant.                                         *)
LEMMA NextIInv == IInv /\ [Next]_vars => IInv'
<1> SUFFICES ASSUME IInv, [Next]_vars PROVE IInv'
  OBVIOUS
<1>1. CASE ApiCall
  <2>1. CASE \E o \in Object : JsCreateObject(o) \/ JsDropObject(o)
    BY <2>1, HeapCallsKeep
  <2>2. CASE \E v \in Object \cup Primitive, n \in 0 .. 1 :
                 napi_create_reference(v, n)
    BY <2>2, CreateReferenceKeeps
  <2>3. CASE \E o \in Object, withResult, withFinalizer \in BOOLEAN :
                 napi_wrap(o, withResult, withFinalizer)
    BY <2>3, WrapKeeps
  <2>4. CASE \E o \in Object : napi_remove_wrap(o)
    BY <2>4, RemoveWrapKeeps
  <2>5. CASE \E o \in Object, own \in Ownership : napi_add_finalizer(o, own)
    BY <2>5, AddFinalizerKeeps
  <2>6. CASE \E o \in Object : napi_create_external(o)
    BY <2>6, AddFinalizerKeeps DEF Ownership
  <2>7. CASE \E t \in Tracker : napi_delete_reference(t)
    BY <2>7, DeleteReferenceKeeps
  <2>8. CASE \E t \in Tracker :
                 napi_reference_ref(t) \/ napi_reference_unref(t)
    BY <2>8, CountKeeps
  <2>9. CASE node_api_post_finalizer
    BY <2>9, PostFinalizerKeeps
  <2>10. CASE napi_set_instance_data
    BY <2>10, SetInstanceKeeps
  <2>11. CASE \/ \E o \in Object : napi_unwrap(o)
              \/ \E t \in Tracker : napi_get_reference_value(t)
              \/ napi_get_instance_data
              \/ CheckGCAccessFatal
    BY <2>11, ReadsKeep
  <2>12. CASE \E c \in {"user", "nullptr"} :
                  node_api_create_external_string(c)
    BY <2>12, CreateStringKeeps
  <2>13. QED
    BY <1>1, <2>1, <2>2, <2>3, <2>4, <2>5, <2>6, <2>7, <2>8, <2>9, <2>10,
       <2>11, <2>12 DEF ApiCall
<1>2. CASE Runtime
  BY <1>2, WeakCallbackKeeps, DrainKeeps, LoopEndKeeps,
     CallFinalizerReturnKeeps, GcFinalizerReturnKeeps, UnrefEnvKeeps,
     DeleteMeKeeps DEF Runtime
<1>3. CASE \E o \in Object : CollectGarbage(o)
  BY <1>3, CollectGarbageKeeps
<1>31. CASE \E t \in Tracker : StringResourceDestroyed(t)
  BY <1>31, StringDestroyedKeeps
<1>4. CASE CallFinalizerThrow \/ DrainDeletedEnv
  BY <1>4, ReadsKeep
<1>5. CASE OwnerUnref
  BY <1>5, UnrefEnvKeeps
<1>6. CASE UNCHANGED vars
  BY <1>6 DEF vars, trackerVars, heapVars, queueVars, stackVars, IInv,
     TrackerInv, ThreadInv, ThreadTypes, CollectorState, RefsBalance,
     WrapperNames, UnbornBeyondNext, TrackerShape, NoDanglingTracker,
     ReflistKinds, PendingKinds, WeakCallbackTargetsLive, InstanceDataKind,
     Live
<1>7. QED
  BY <1>1, <1>2, <1>3, <1>31, <1>4, <1>5, <1>6 DEF Next

(* The invariant holds in every reachable state.                           *)
LEMMA Invariance == Spec => []IInv
BY InitIInv, NextIInv, PTL DEF Spec

(* Type correctness, for every number of objects and trackers and for both *)
(* kinds of env.                                                           *)
THEOREM TypeCorrect == Spec => []TypeOK
<1>1. IInv => TypeOK
  BY IInvImplies
<1>2. QED
  BY <1>1, Invariance, PTL

(* The lists and the queue of an env never point at a freed tracker: every *)
(* destructor (of the addon's deletions, of Finalize(), of teardown and of *)
(* napi_set_instance_data) unlinks and dequeues.                           *)
THEOREM NoDanglingTrackerHolds == Spec => []NoDanglingTracker
<1>1. IInv => NoDanglingTracker
  BY IInvImplies
<1>2. QED
  BY <1>1, Invariance, PTL

(* No weak callback runs on a freed Reference: CheckGCAccess keeps the     *)
(* finalizers that the collector calls from deleting one.                  *)
THEOREM WeakCallbackTargetsLiveHolds == Spec => []WeakCallbackTargetsLive
<1>1. IInv => WeakCallbackTargetsLive
  BY IInvImplies
<1>2. QED
  BY <1>1, Invariance, PTL

(* A queued finalizer always has its immediate, which keeps the env alive. *)
THEOREM QueueHasImmediateHolds == Spec => []QueueHasImmediate
<1>1. IInv => QueueHasImmediate
  BY IInvImplies
<1>2. QED
  BY <1>1, Invariance, PTL

-----------------------------------------------------------------------------
(* The heap: what the handles of the references name, and what keeps a     *)
(* wrapped object's reference.                                             *)

\* The object of a reference has been collected.
Gone(t) == trk[t].value \in Object /\ obj[trk[t].value] = "collected"

\* The handle is strong exactly while the count is positive, until teardown
\* finalizes the reference, and does not outlive its object.
HandleOK(t) ==
    /\ trk[t].persistent = "weak" =>
           trk[t].refcount = 0 /\ trk[t].value \in Object
    /\ trk[t].persistent = "strong" => trk[t].refcount > 0
    /\ Live(t) /\ trk[t].refcount > 0 /\ pc \in {"run", "drain"} =>
           trk[t].persistent = "strong"
    /\ trk[t].persistent # "empty" /\ Gone(t) => t \in gcQueue

\* A callback that is still there has not been called, and its tracker is in
\* the list that teardown finalizes first, unless that has happened.
CallbackOK(t) ==
    /\ trk[t].cb = "user" =>
           trk[t].calls = 0 /\ (trk[t].env => t \in finalizing_reflist)
    /\ trk[t].calls \in {0, 1}
    /\ ~ trk[t].env => trk[t].kind = "TrackedStringResource"
    /\ trk[t].state = "unborn" => trk[t].calls = 0 /\ trk[t].cb = "nullptr"

\* Who waits for the collector or for its finalizer has a dead object, and is
\* freed by nobody else in the meantime.
WaitingOK(t) ==
    /\ t \in gcQueue => trk[t].persistent = "weak" /\ Gone(t)
    /\ t \in pending_finalizers =>
           /\ trk[t].persistent = "empty" /\ trk[t].refcount = 0
           /\ trk[t].kind # "TrackedFinalizer" => Gone(t)
    /\ t = fin =>
           /\ trk[t].persistent = "empty" /\ trk[t].state # "unborn"
           /\ trk[t].kind # "TrackedStringResource"
           /\ trk[t].kind \in ReferenceKinds =>
                  /\ trk[t].ownership = "kRuntime" => Live(t)
                  /\ pc = "drain" => Gone(t)
    /\ t = gcFin =>
           /\ trk[t].persistent = "empty" /\ trk[t].state # "unborn"
           /\ t # fin
           /\ trk[t].kind \in ReferenceKinds /\ Gone(t)
           /\ trk[t].ownership = "kRuntime" => Live(t)

HeapTracker(t) == HandleOK(t) /\ CallbackOK(t) /\ WaitingOK(t)

\* A collected object has lost its private property; that of another one
\* names a live reference until teardown.
HeapObject(o) ==
    /\ obj[o] = "collected" => wrapper[o] = NULL
    /\ wrapper[o] # NULL /\ pc \in {"run", "drain"} =>
           Live(wrapper[o]) /\ trk[wrapper[o]].calls = 0

\* When a finalizer runs, and what is left at the end of the teardown.
PhaseOK ==
    /\ fin # NULL =>
           pc \in {"drain", "teardownDrain", "finalizeFinalizing", "aborted"}
    /\ pc \in {"finalizeReflist", "deleted"} =>
           fin = NULL /\ finalizing_reflist = {}
    /\ "env" \in faults => pc = "aborted"
    /\ NoReferenceFault

HeapInv ==
    /\ \A t \in Tracker : HeapTracker(t)
    /\ \A o \in Object : HeapObject(o)
    /\ PhaseOK

\* The environment exists, for the abstract specification.
EnvAlive == ~ (pc = "deleted" \/ "env" \in faults)

\* The abstract status of a finalizer, as a function of its tracker.
StatusOf(r) ==
    IF r.calls > 0 THEN IF r.calls = 1 THEN "called" ELSE "called again"
    ELSE IF r.cb = "user" THEN IF r.env THEN "armed" ELSE "detached"
    ELSE IF r.state # "unborn"
            /\ r.kind \in {"ReferenceWithFinalizer", "TrackedFinalizer"}
    THEN "cancelled" ELSE "none"

\* The status stays as it is, or an armed finalizer is called, cancelled or
\* detached, or a detached one is called.
Settles(r, s) ==
    \/ StatusOf(s) = StatusOf(r)
    \/ /\ StatusOf(r) = "armed"
       /\ StatusOf(s) \in {"called", "cancelled", "detached"}
    \/ StatusOf(r) = "detached" /\ StatusOf(s) = "called"

ContractStep == [Contract!ContractNext]_(Contract!contractVars)

\* A step that touches only the trackers in S: the others keep their places,
\* or leave the queue and the stack; no object is collected, and no tracker
\* goes back from teardown.
Quiet(S) ==
    /\ \A u \in Tracker \ S :
           /\ trk'[u] = trk[u]
           /\ u \in gcQueue' <=> u \in gcQueue
           /\ u \in pending_finalizers' => u \in pending_finalizers
           /\ u \in finalizing_reflist => u \in finalizing_reflist'
           /\ u = fin' => u = fin
           /\ u = gcFin' => u = gcFin
    /\ \A o \in Object : obj'[o] = "collected" <=> obj[o] = "collected"
    /\ pc' \in {"run", "drain"} => pc \in {"run", "drain"}
    /\ pc' = "drain" /\ fin' # NULL => pc = "drain"

-----------------------------------------------------------------------------
(* The operations on one tracker, once more: count, callback and calls.    *)

(* The handle of a new Reference is strong if its count is positive, and   *)
(* weak or cleared otherwise.                                              *)
LEMMA MakeReferenceHandle ==
    ASSUME NEW k, NEW own, NEW count \in Nat, NEW v, NEW callback
    PROVE  LET r == MakeReference(k, own, count, v, callback)
           IN  /\ r.persistent = "weak" => r.refcount = 0 /\ v \in Object
               /\ r.persistent = "strong" => r.refcount > 0
               /\ r.refcount > 0 => r.persistent = "strong"
               /\ r.value = v /\ r.calls = 0 /\ r.env
BY DEF MakeReference, SetWeak, CanBeHeldWeakly

(* The destructor leaves count, owner and history alone.                   *)
LEMMA DestroyedKeeps ==
    ASSUME NEW r \in TrackerRecord
    PROVE  /\ Destroyed(r).refcount = r.refcount
           /\ Destroyed(r).ownership = r.ownership
           /\ Destroyed(r).calls = r.calls
           /\ Destroyed(r).env = r.env
BY DEF Destroyed, TrackerRecord

(* Finalize() calls a callback that is there, once.                        *)
LEMMA FinalizedKeeps ==
    ASSUME NEW r \in TrackerRecord
    PROVE  /\ Finalized(r).refcount = r.refcount
           /\ Finalized(r).ownership = r.ownership
           /\ CallsUser(r) => Finalized(r).calls = r.calls + 1
           /\ ~ CallsUser(r) => Finalized(r).calls = r.calls
<1>1. CASE CallsUser(r)
  <2>1. PICK e : e = [r EXCEPT !.persistent = "empty"]
    OBVIOUS
  <2>2. /\ e \in TrackerRecord /\ e.refcount = r.refcount
        /\ e.ownership = r.ownership /\ e.cb = r.cb /\ e.calls = r.calls
    BY <2>1 DEF TrackerRecord
  <2>3. Finalized(r) = CallFinalizer(e)
    BY <1>1, <2>1 DEF Finalized, CallsUser
  <2>4. QED
    BY <1>1, <2>2, <2>3, CallFinalizerFacts DEF CallsUser
<1>2. CASE ~ CallsUser(r)
  BY <1>2 DEF Finalized, Destroyed, TrackerRecord, CallsUser
<1>3. QED
  BY <1>1, <1>2

(* A counted reference is strong after Ref().                              *)
LEMMA RefHandle ==
    ASSUME NEW r \in TrackerRecord
    PROVE  /\ Ref(r).persistent = "strong" /\ Ref(r).refcount > 0
           /\ Ref(r).calls = r.calls /\ Ref(r).ownership = r.ownership
           /\ Ref(r).env = r.env
BY ConstantsAssumption DEF Ref, TrackerRecord

(* After Unref() the handle is strong exactly if the count is positive.    *)
LEMMA UnrefHandle ==
    ASSUME NEW r \in TrackerRecord, r.refcount # 0, r.persistent = "strong"
    PROVE  /\ Unref(r).persistent = "weak" =>
                  Unref(r).refcount = 0 /\ r.value \in Object
           /\ Unref(r).persistent = "strong" <=> Unref(r).refcount > 0
           /\ Unref(r).calls = r.calls /\ Unref(r).ownership = r.ownership
           /\ Unref(r).env = r.env
<1>1. r.refcount \in Nat
  BY ConstantsAssumption DEF TrackerRecord
<1>2. /\ Unref(r).refcount = r.refcount - 1
      /\ Unref(r).persistent =
             IF r.refcount = 1 THEN SetWeak(r.value) ELSE "strong"
      /\ Unref(r).calls = r.calls /\ Unref(r).ownership = r.ownership
      /\ Unref(r).env = r.env
  BY DEF Unref, TrackerRecord
<1>3. CASE r.refcount = 1
  BY <1>2, <1>3 DEF SetWeak, CanBeHeldWeakly
<1>4. CASE r.refcount # 1
  BY <1>1, <1>2, <1>4
<1>5. QED
  BY <1>3, <1>4

(* What an operation on an existing tracker does to its finalizer.         *)
LEMMA StatusSettles ==
    ASSUME NEW r \in TrackerRecord, NEW s \in TrackerRecord,
           r.state # "unborn", s.state # "unborn", s.kind = r.kind,
           s.cb = "nullptr" \/ s.cb = r.cb,
           r.cb = "user" => r.calls = 0,
           r.kind \in {"Reference", "ReferenceWithData"} => r.cb = "nullptr",
           ~ r.env => r.kind = "TrackedStringResource",
           r.kind # "TrackedStringResource" => s.env = r.env,
           \/ /\ s.calls = r.calls
              /\ r.kind = "TrackedStringResource" =>
                     s.cb = r.cb /\ (s.env => r.env)
           \/ r.cb = "user" /\ s.cb = "nullptr" /\ s.calls = r.calls + 1
    PROVE  Settles(r, s)
<1>1. /\ r.calls \in Nat /\ s.calls \in Nat
      /\ r.cb \in {"user", "nullptr"} /\ r.kind \in Kinds
      /\ r.env \in BOOLEAN /\ s.env \in BOOLEAN
  BY DEF TrackerRecord
<1>2. CASE r.cb = "user" /\ r.kind # "TrackedStringResource"
  <2>1. r.kind \in {"ReferenceWithFinalizer", "TrackedFinalizer"}
    BY <1>1, <1>2 DEF Kinds, ReferenceKinds
  <2>2. StatusOf(r) = "armed" /\ r.calls = 0
    BY <1>2 DEF StatusOf
  <2>3. StatusOf(s) \in {"armed", "called", "cancelled"}
    BY <1>2, <2>1, <2>2 DEF StatusOf
  <2>4. QED
    BY <2>2, <2>3 DEF Settles
<1>21. CASE r.cb = "user" /\ r.kind = "TrackedStringResource"
  <2>1. /\ r.calls = 0
        /\ r.env => StatusOf(r) = "armed"
        /\ ~ r.env => StatusOf(r) = "detached"
    BY <1>21 DEF StatusOf
  <2>2. CASE s.calls = 1
    <3>1. StatusOf(s) = "called"
      BY <2>2 DEF StatusOf
    <3>2. QED
      BY <2>1, <3>1 DEF Settles
  <2>3. CASE s.calls # 1
    <3>1. s.calls = 0 /\ s.cb = "user" /\ (s.env => r.env)
      BY <1>21, <2>1, <2>3
    <3>2. /\ s.env => StatusOf(s) = "armed"
          /\ ~ s.env => StatusOf(s) = "detached"
      BY <3>1 DEF StatusOf
    <3>3. QED
      BY <2>1, <3>1, <3>2 DEF Settles
  <2>4. QED
    BY <2>2, <2>3
<1>3. CASE r.cb # "user"
  BY <1>1, <1>3 DEF StatusOf, Settles
<1>4. QED
  BY <1>2, <1>21, <1>3

-----------------------------------------------------------------------------
(* The parts of the invariant that a step leaves alone.                    *)

(* A tracker that the step does not touch.                                 *)
LEMMA QuietTrackers ==
    ASSUME HeapInv, NEW S, Quiet(S), NEW u \in Tracker \ S
    PROVE  HeapTracker(u)'
<1>1. HeapTracker(u) /\ trk'[u] = trk[u]
  BY DEF HeapInv, Quiet
<1>2. Gone(u)' <=> Gone(u)
  BY <1>1 DEF Gone, Quiet
<1>3. u # NULL
  BY DEF Tracker, NULL
<1>4. HandleOK(u)'
  BY <1>1, <1>2 DEF HeapTracker, HandleOK, Quiet, Live
<1>5. CallbackOK(u)'
  BY <1>1 DEF HeapTracker, CallbackOK, Quiet
<1>6. WaitingOK(u)'
  BY <1>1, <1>2, <1>3 DEF HeapTracker, WaitingOK, Quiet, Live
<1>7. QED
  BY <1>4, <1>5, <1>6 DEF HeapTracker

(* The private properties: none is set, and a tracker that the step        *)
(* touches either stays live and uncalled or is not wrapped.               *)
LEMMA QuietObjects ==
    ASSUME IInv, HeapInv, NEW S, Quiet(S),
           \A o \in Object : wrapper'[o] \in {wrapper[o], NULL},
           \A o \in Object :
               wrapper'[o] \in S /\ pc' \in {"run", "drain"}
               /\ wrapper[o] # NULL /\ wrapper'[o] = wrapper[o] =>
                   trk'[wrapper[o]].state = "live" /\ trk'[wrapper[o]].calls = 0
    PROVE  \A o \in Object : HeapObject(o)'
<1> SUFFICES ASSUME NEW o \in Object PROVE HeapObject(o)'
  OBVIOUS
<1>1. HeapObject(o)
  BY DEF HeapInv
<1>2. obj'[o] = "collected" => wrapper'[o] = NULL
  BY <1>1 DEF HeapObject, Quiet
<1>3. ASSUME wrapper'[o] # NULL, pc' \in {"run", "drain"}
      PROVE  trk'[wrapper'[o]].state = "live" /\ trk'[wrapper'[o]].calls = 0
  <2>1. wrapper'[o] = wrapper[o] /\ wrapper[o] \in Tracker
    BY <1>3 DEF IInv, ThreadInv, ThreadTypes
  <2>2. CASE wrapper[o] \in S
    BY <1>3, <2>1, <2>2
  <2>3. CASE wrapper[o] \notin S
    <3>1. trk'[wrapper[o]] = trk[wrapper[o]]
      BY <2>1, <2>3 DEF Quiet
    <3>2. trk[wrapper[o]].state = "live" /\ trk[wrapper[o]].calls = 0
      BY <1>1, <1>3, <2>1 DEF HeapObject, Quiet, Live
    <3>3. QED
      BY <2>1, <3>1, <3>2
  <2>4. QED
    BY <2>2, <2>3
<1>4. QED
  BY <1>2, <1>3 DEF HeapObject, Live

(* The env exists while neither it nor the process has ended.              *)
LEMMA AliveUntilDeleted ==
    ASSUME PhaseOK, pc \notin {"deleted", "aborted"}
    PROVE  EnvAlive
BY DEF PhaseOK, EnvAlive

(* A tracker that is settled, or not touched, is a step of the contract.   *)
LEMMA SettleStep ==
    ASSUME NEW t \in Tracker, EnvAlive' <=> EnvAlive,
           EnvAlive \/ StatusOf(trk[t]) # "armed",
           \A u \in Tracker : u # t => trk'[u] = trk[u],
           Settles(trk[t], trk'[t])
    PROVE  ContractStep
<1> DEFINE st == [u \in Tracker |-> StatusOf(trk[u])]
<1>1. /\ [u \in Tracker |-> FinalizerStatus(u)] = st
      /\ [u \in Tracker |-> FinalizerStatus(u)]' = st'
  BY DEF FinalizerStatus, StatusOf
<1>2. \A u \in Tracker : u # t => st'[u] = st[u]
  OBVIOUS
<1>3. CASE StatusOf(trk'[t]) = StatusOf(trk[t])
  <2>1. st' = st
    BY <1>3
  <2>2. QED
    BY <1>1, <2>1 DEF ContractStep, Contract!contractVars, EnvAlive
<1>4. CASE /\ StatusOf(trk[t]) \in {"armed", "detached"}
           /\ StatusOf(trk'[t]) = "called"
  <2>1. /\ st[t] \in {"armed", "detached"} /\ (EnvAlive \/ st[t] = "detached")
        /\ st' = [st EXCEPT ![t] = "called"]
    BY <1>4
  <2>2. Contract!Call(t)
    BY <1>1, <2>1 DEF Contract!Call, EnvAlive
  <2>3. QED
    BY <2>2 DEF ContractStep, Contract!ContractNext
<1>5. CASE StatusOf(trk[t]) = "armed" /\ StatusOf(trk'[t]) = "cancelled"
  <2>1. st[t] = "armed" /\ st' = [st EXCEPT ![t] = "cancelled"]
    BY <1>5
  <2>2. Contract!Cancel(t)
    BY <1>1, <2>1 DEF Contract!Cancel, EnvAlive
  <2>3. QED
    BY <2>2 DEF ContractStep, Contract!ContractNext
<1>51. CASE StatusOf(trk[t]) = "armed" /\ StatusOf(trk'[t]) = "detached"
  <2>1. st[t] = "armed" /\ st' = [st EXCEPT ![t] = "detached"]
    BY <1>51
  <2>2. Contract!Detach(t)
    BY <1>1, <2>1 DEF Contract!Detach, EnvAlive
  <2>3. QED
    BY <2>2 DEF ContractStep, Contract!ContractNext
<1>6. QED
  BY <1>3, <1>4, <1>5, <1>51 DEF Settles

-----------------------------------------------------------------------------
(* Each action keeps the heap and is a step of the contract: first those   *)
(* that touch no tracker.                                                  *)

(* A step that touches no tracker is no step of the contract.              *)
LEMMA NoTrackerStep ==
    ASSUME IInv, HeapInv, Quiet({}), UNCHANGED <<trk, wrapper>>, PhaseOK',
           EnvAlive' <=> EnvAlive
    PROVE  HeapInv' /\ ContractStep
<1>1. \A u \in Tracker : HeapTracker(u)'
  BY QuietTrackers
<1>2. \A o \in Object : HeapObject(o)'
  BY QuietObjects
<1>3. UNCHANGED Contract!contractVars
  BY DEF Contract!contractVars, FinalizerStatus, EnvAlive
<1>4. QED
  BY <1>1, <1>2, <1>3 DEF HeapInv, ContractStep

(* Nobody calls the env before its end and gets it after.                  *)
LEMMA UserCodePhase ==
    ASSUME IInv, PhaseOK, UserCode
    PROVE  /\ pc \notin {"finalizeReflist", "deleted", "aborted"}
           /\ ~ Destructing => pc \in {"run", "drain"}
<1>1. gcFin # NULL => fin # NULL \/ pc \in {"run", "aborted"}
  BY DEF IInv, ThreadInv, CollectorState
<1>2. pc \notin {"deleted", "aborted"} /\ (fin # NULL \/ pc = "run")
  BY <1>1 DEF UserCode, InGcFinalizer
<1>3. pc \in Teardown \cup {"run", "drain", "deleted", "aborted"}
  BY DEF IInv, ThreadInv, ThreadTypes
<1>4. QED
  BY <1>2, <1>3 DEF PhaseOK, Destructing, Teardown

(* JavaScript code creates and drops objects.                              *)
LEMMA HeapCallsHeap ==
    ASSUME IInv, HeapInv, NEW o \in Object, JsCreateObject(o) \/ JsDropObject(o)
    PROVE  HeapInv' /\ ContractStep
<1>1. UNCHANGED <<trk, wrapper, faults, pending_finalizers, pc, gcQueue, fin,
                  gcFin, finalizing_reflist>>
  BY DEF JsCreateObject, JsDropObject, trackerVars, queueVars, stackVars
<1>2. \A q \in Object : obj'[q] = "collected" <=> obj[q] = "collected"
  BY DEF JsCreateObject, JsDropObject, IInv, ThreadInv, ThreadTypes
<1>3. Quiet({}) /\ PhaseOK' /\ (EnvAlive' <=> EnvAlive)
  BY <1>1, <1>2 DEF Quiet, HeapInv, PhaseOK, EnvAlive, NoReferenceFault
<1>4. QED
  BY <1>1, <1>3, NoTrackerStep

(* napi_get_reference_value hands out an object that exists.               *)
LEMMA GetReferenceValueHeap ==
    ASSUME IInv, HeapInv, NEW t \in Tracker, napi_get_reference_value(t)
    PROVE  HeapInv' /\ ContractStep
<1>1. UNCHANGED <<trk, wrapper, faults, pending_finalizers, pc, gcQueue, fin,
                  gcFin, finalizing_reflist>>
  BY DEF napi_get_reference_value, trackerVars, queueVars, stackVars
<1>2. gcQueue = {}
  BY NotInGC DEF napi_get_reference_value
<1>3. trk[t].value \in Object /\ obj[trk[t].value] # "collected"
  BY <1>2 DEF napi_get_reference_value, HeapInv, HeapTracker, HandleOK, Gone
<1>4. \A q \in Object : obj'[q] = "collected" <=> obj[q] = "collected"
  BY <1>3 DEF napi_get_reference_value, IInv, ThreadInv, ThreadTypes
<1>5. Quiet({}) /\ PhaseOK' /\ (EnvAlive' <=> EnvAlive)
  BY <1>1, <1>4 DEF Quiet, HeapInv, PhaseOK, EnvAlive, NoReferenceFault
<1>6. QED
  BY <1>1, <1>5, NoTrackerStep

(* napi_unwrap finds a live Reference: an object that the addon reaches    *)
(* has one until teardown, and NAPI_PREAMBLE refuses the call from then on.*)
LEMMA UnwrapHeap ==
    ASSUME IInv, HeapInv, NEW o \in Object, napi_unwrap(o)
    PROVE  HeapInv' /\ ContractStep
<1>1. UNCHANGED <<trk, wrapper, obj, pending_finalizers, gcQueue, fin, gcFin,
                  finalizing_reflist>>
  BY DEF napi_unwrap, trackerVars, queueVars, heapVars
<1>2. pc \in {"run", "drain"}
  BY UserCodePhase DEF napi_unwrap, Preamble, CheckEnvNotInGC, HeapInv
<1>3. Live(wrapper[o])
  BY <1>2 DEF napi_unwrap, HeapInv, HeapObject
<1>4. UNCHANGED <<pc, faults>>
  BY <1>3 DEF napi_unwrap
<1>5. Quiet({}) /\ PhaseOK' /\ (EnvAlive' <=> EnvAlive)
  BY <1>1, <1>4 DEF Quiet, HeapInv, PhaseOK, EnvAlive, NoReferenceFault
<1>6. QED
  BY <1>1, <1>5, NoTrackerStep

(* The process ends: no Reference was read or deleted after its end.       *)
LEMMA AbortHeap ==
    ASSUME IInv, HeapInv, pc' \in {pc, "aborted"}, pc # "deleted",
           faults' \subseteq faults \cup {"instance_data", "TrackedFinalizer"},
           faults \subseteq faults',
           UNCHANGED <<trk, wrapper, obj, pending_finalizers, gcQueue, fin,
                       gcFin, finalizing_reflist>>
    PROVE  HeapInv' /\ ContractStep
<1>1. PhaseOK
  BY DEF HeapInv
<1>2. faults' \cap ReferenceKinds = {} /\ ("env" \in faults' <=> "env" \in faults)
  BY <1>1 DEF PhaseOK, NoReferenceFault, ReferenceKinds
<1>3. PhaseOK' /\ (EnvAlive' <=> EnvAlive)
  BY <1>1, <1>2 DEF PhaseOK, EnvAlive, NoReferenceFault
<1>4. Quiet({})
  BY DEF Quiet
<1>5. QED
  BY <1>3, <1>4, NoTrackerStep

(* Reading the instance data, and the calls that CheckGCAccess refuses.    *)
LEMMA ReadsHeap ==
    ASSUME IInv, HeapInv,
           napi_get_instance_data \/ CheckGCAccessFatal \/ CallFinalizerThrow
    PROVE  HeapInv' /\ ContractStep
<1>1. /\ pc # "deleted" /\ pc' \in {pc, "aborted"}
      /\ faults \subseteq faults'
      /\ faults' \subseteq faults \cup {"instance_data", "TrackedFinalizer"}
      /\ UNCHANGED <<trk, wrapper, obj, pending_finalizers, gcQueue, fin,
                     gcFin, finalizing_reflist>>
  BY DEF napi_get_instance_data, CheckGCAccessFatal, CallFinalizerThrow,
         UserCode, trackerVars, heapVars, queueVars, stackVars
<1>2. QED
  BY <1>1, AbortHeap

(* The immediate goes on with an env that is no more.                      *)
LEMMA DrainDeletedHeap ==
    ASSUME IInv, HeapInv, DrainDeletedEnv
    PROVE  HeapInv' /\ ContractStep
<1>1. /\ UNCHANGED <<trk, wrapper, obj, pending_finalizers, gcQueue, fin,
                     gcFin, finalizing_reflist>>
      /\ pc = "deleted" /\ pc' = "aborted" /\ faults' = faults \cup {"env"}
  BY DEF DrainDeletedEnv, trackerVars, heapVars, queueVars
<1>2. PhaseOK' /\ (EnvAlive' <=> EnvAlive)
  BY <1>1 DEF HeapInv, PhaseOK, EnvAlive, NoReferenceFault, ReferenceKinds
<1>3. Quiet({})
  BY <1>1 DEF Quiet
<1>4. QED
  BY <1>1, <1>2, <1>3, NoTrackerStep

(* The owner and the immediate drop their references on the env.           *)
LEMMA UnrefEnvHeap ==
    ASSUME IInv, HeapInv, OwnerUnref \/ RunImmediate
    PROVE  HeapInv' /\ ContractStep
<1>1. /\ UNCHANGED <<trk, wrapper, obj, pending_finalizers, gcQueue, fin,
                     gcFin, finalizing_reflist, faults>>
      /\ pc = "run" /\ pc' \in {"run", "teardownDrain", "drain"}
  BY DEF OwnerUnref, RunImmediate, Idle, trackerVars, heapVars
<1>2. fin = NULL /\ PhaseOK' /\ (EnvAlive' <=> EnvAlive)
  BY <1>1 DEF HeapInv, PhaseOK, EnvAlive, NoReferenceFault
<1>3. Quiet({})
  BY <1>1, <1>2 DEF Quiet
<1>4. QED
  BY <1>1, <1>2, <1>3, NoTrackerStep

(* The loops of the immediate and of DeleteMe end.                         *)
LEMMA LoopEndHeap ==
    ASSUME IInv, HeapInv, DrainFinalizerQueueEnd \/ DeleteMeFinalizingEnd
    PROVE  HeapInv' /\ ContractStep
<1>1. /\ UNCHANGED <<trk, wrapper, obj, pending_finalizers, gcQueue, fin,
                     gcFin, finalizing_reflist, faults>>
      /\ fin = NULL
      /\ \/ pc = "drain" /\ pc' = "run"
         \/ pc = "teardownDrain" /\ pc' = "finalizeFinalizing"
         \/ /\ pc = "finalizeFinalizing" /\ pc' = "finalizeReflist"
            /\ finalizing_reflist = {}
  BY DEF DrainFinalizerQueueEnd, DeleteMeFinalizingEnd, trackerVars, heapVars,
         queueVars
<1>2. PhaseOK' /\ (EnvAlive' <=> EnvAlive)
  BY <1>1 DEF HeapInv, PhaseOK, EnvAlive, NoReferenceFault
<1>3. Quiet({})
  BY <1>1 DEF Quiet
<1>4. QED
  BY <1>1, <1>2, <1>3, NoTrackerStep

(* DeleteMe frees the env when no finalizer is left that could be called.  *)
LEMMA DeleteMeEndHeap ==
    ASSUME IInv, HeapInv, DeleteMeEnd
    PROVE  HeapInv' /\ ContractStep
<1>1. /\ UNCHANGED <<trk, wrapper, obj, pending_finalizers, gcQueue, fin,
                     gcFin, finalizing_reflist, faults>>
      /\ pc = "finalizeReflist" /\ pc' = "deleted" /\ fin = NULL
  BY DEF DeleteMeEnd, trackerVars, heapVars, queueVars
<1>2. /\ PhaseOK' /\ finalizing_reflist = {} /\ EnvAlive /\ ~ EnvAlive'
      /\ Quiet({})
  BY <1>1 DEF HeapInv, PhaseOK, EnvAlive, NoReferenceFault, Quiet
<1>3. \A u \in Tracker : HeapTracker(u)'
  BY <1>2, QuietTrackers
<1>4. \A o \in Object : HeapObject(o)'
  BY <1>1, <1>2, QuietObjects
<1>5. Contract!End
  <2>1. \A u \in Tracker : FinalizerStatus(u) # "armed"
    BY <1>2 DEF FinalizerStatus, HeapInv, HeapTracker, CallbackOK
  <2>2. \A u \in Tracker : FinalizerStatus(u)' = FinalizerStatus(u)
    BY <1>1 DEF FinalizerStatus
  <2>3. QED
    BY <1>2, <2>1, <2>2 DEF Contract!End, EnvAlive
<1>6. QED
  BY <1>2, <1>3, <1>4, <1>5 DEF HeapInv, ContractStep, Contract!ContractNext

-----------------------------------------------------------------------------
(* Actions on one tracker that exists.                                     *)

(* An object whose Reference waits for its finalizer is not wrapped.       *)
LEMMA GoneNotWrapped ==
    ASSUME IInv, HeapInv, NEW o \in Object, wrapper[o] # NULL
    PROVE  ~ Gone(wrapper[o]) /\ trk[wrapper[o]].kind \in ReferenceKinds
BY DEF IInv, ThreadInv, WrapperNames, HeapInv, HeapObject, Gone

(* A step on one tracker that exists.                                      *)
LEMMA OneTrackerStep ==
    ASSUME IInv, HeapInv, NEW t \in Tracker, Quiet({t}), HeapTracker(t)',
           PhaseOK', EnvAlive' <=> EnvAlive,
           EnvAlive \/ StatusOf(trk[t]) # "armed",
           \A o \in Object : wrapper'[o] \in {wrapper[o], NULL},
           pc' \in {"run", "drain"} /\ (\E o \in Object : wrapper'[o] = t) =>
               trk'[t].state = "live" /\ trk'[t].calls = 0,
           Settles(trk[t], trk'[t])
    PROVE  HeapInv' /\ ContractStep
<1>1. \A u \in Tracker : HeapTracker(u)'
  BY QuietTrackers
<1>2. \A o \in Object : HeapObject(o)'
  BY QuietObjects
<1>3. ContractStep
  BY SettleStep DEF Quiet
<1>4. QED
  BY <1>1, <1>2, <1>3 DEF HeapInv

(* What the invariants say of a tracker that exists, for StatusSettles.    *)
LEMMA CallbackFacts ==
    ASSUME IInv, HeapInv, NEW t \in Tracker
    PROVE  /\ trk[t] \in TrackerRecord
           /\ trk[t].cb = "user" => trk[t].calls = 0
           /\ trk[t].calls \in {0, 1}
           /\ ~ trk[t].env => trk[t].kind = "TrackedStringResource"
           /\ trk[t].kind \in {"Reference", "ReferenceWithData"} =>
                  trk[t].cb = "nullptr"
BY DEF IInv, TrackerInv, TrackerShape, HeapInv, HeapTracker, CallbackOK

(* The destructor: no kRuntime Reference whose finalizer is on the stack   *)
(* may be freed, and outside of teardown none that an object carries.      *)
LEMMA DeleteHeap ==
    ASSUME IInv, HeapInv, NEW t \in Tracker, Live(t), Delete(t),
           trk[t].kind # "TrackedStringResource",
           t \notin gcQueue, t # gcFin',
           t = fin' /\ trk[t].kind \in ReferenceKinds =>
               trk[t].ownership # "kRuntime",
           pc \in {"run", "drain"} => \A o \in Object : wrapper'[o] # t,
           \A o \in Object : wrapper'[o] \in {wrapper[o], NULL},
           fin' \in {fin, NULL}, gcFin' \in {gcFin, NULL},
           EnvAlive, UNCHANGED <<obj, gcQueue, pc, faults>>
    PROVE  HeapInv' /\ ContractStep
<1>1. PICK r \in TrackerRecord : r = Destroyed(trk[t])
  BY DestroyedFacts DEF IInv, TrackerInv
<1>2. /\ r.state = "deleted" /\ r.cb = "nullptr" /\ r.persistent = "empty"
      /\ r.kind = trk[t].kind /\ r.value = trk[t].value
      /\ r.ownership = trk[t].ownership /\ r.calls = trk[t].calls
      /\ r.refcount = trk[t].refcount /\ r.env = trk[t].env
  BY <1>1, DestroyedFacts, DestroyedKeeps, CallbackFacts
<1>3. /\ trk'[t] = r
      /\ \A u \in Tracker : u # t => trk'[u] = trk[u]
      /\ finalizing_reflist' = finalizing_reflist \ {t}
      /\ pending_finalizers' = pending_finalizers \ {t}
  BY <1>1 DEF Delete, Unlink, DequeueFinalizer, IInv, TrackerInv
<1>4. Settles(trk[t], r)
  BY <1>2, CallbackFacts, StatusSettles DEF Live
<1>5. Quiet({t})
  BY <1>3 DEF Quiet, Tracker, NULL
<1>6. Gone(t)' <=> Gone(t)
  BY <1>2, <1>3 DEF Gone
<1>7. HandleOK(t)' /\ CallbackOK(t)'
  BY <1>2, <1>3, CallbackFacts DEF HandleOK, CallbackOK, Live
<1>8. WaitingOK(t)'
  <2>1. t = fin' /\ pc = "drain" /\ trk[t].kind \in ReferenceKinds => Gone(t)
    BY DEF HeapInv, HeapTracker, WaitingOK, Tracker, NULL
  <2>2. QED
    BY <1>2, <1>3, <1>6, <2>1 DEF WaitingOK
<1>9. PhaseOK' /\ EnvAlive'
  BY <1>3 DEF HeapInv, PhaseOK, EnvAlive, NoReferenceFault
<1>10. QED
  BY <1>3, <1>4, <1>5, <1>7, <1>8, <1>9, OneTrackerStep DEF HeapTracker

(* The addon deletes a reference of its own.                               *)
LEMMA DeleteReferenceHeap ==
    ASSUME IInv, HeapInv, NEW t \in Tracker, napi_delete_reference(t)
    PROVE  HeapInv' /\ ContractStep
<1>1. /\ Live(t) /\ trk[t].ownership = "kUserland" /\ Delete(t)
      /\ trk[t].kind # "TrackedStringResource"
      /\ trk[t].calls > 0 \/ \A o \in Object : wrapper[o] # t
      /\ UNCHANGED <<obj, wrapper, gcQueue, pc, faults, fin, gcFin>>
  BY DEF napi_delete_reference, Held, heapVars, stackVars, ReferenceKinds
<1>2. gcQueue = {} /\ gcFin = NULL
  BY NotInGC DEF napi_delete_reference
<1>3. EnvAlive
  BY AliveUntilDeleted, UserCodePhase
     DEF HeapInv, napi_delete_reference, CheckEnvNotInGC
<1>4. ASSUME pc \in {"run", "drain"}, NEW o \in Object PROVE wrapper[o] # t
  <2>1. SUFFICES ASSUME wrapper[o] = t PROVE FALSE
    OBVIOUS
  <2>2. trk[t].calls = 0
    BY <1>4, <2>1 DEF HeapInv, HeapObject, Tracker, NULL
  <2>3. QED
    BY <1>1, <2>1, <2>2
<1>5. QED
  BY <1>1, <1>2, <1>3, <1>4, DeleteHeap DEF Tracker, NULL

(* napi_remove_wrap frees a kRuntime Reference, which no finalizer on the  *)
(* stack belongs to because the object is alive, or disarms the addon's.   *)
LEMMA RemoveWrapHeap ==
    ASSUME IInv, HeapInv, NEW o \in Object, napi_remove_wrap(o)
    PROVE  HeapInv' /\ ContractStep
<1>0. PICK t \in Tracker : t = wrapper[o]
  BY DEF napi_remove_wrap, IInv, ThreadInv, ThreadTypes
<1>1. /\ UNCHANGED <<obj, gcQueue, pc, faults, fin, gcFin>>
      /\ wrapper' = [wrapper EXCEPT ![o] = NULL]
  BY DEF napi_remove_wrap, stackVars
<1>2. gcQueue = {} /\ gcFin = NULL
  BY NotInGC DEF napi_remove_wrap, Preamble
<1>3. EnvAlive /\ pc \in {"run", "drain"}
  BY AliveUntilDeleted, UserCodePhase
     DEF HeapInv, napi_remove_wrap, Preamble, CheckEnvNotInGC
<1>4. /\ Live(t) /\ trk[t].calls = 0
      /\ trk[t].kind \in ReferenceKinds /\ trk[t].value = o /\ ~ Gone(t)
  BY <1>0, <1>3, GoneNotWrapped
     DEF HeapInv, HeapObject, napi_remove_wrap, IInv, ThreadInv, WrapperNames
<1>5. t # fin /\ t # gcFin
  <2>1. fin # NULL => pc = "drain"
    BY <1>3 DEF HeapInv, PhaseOK
  <2>2. QED
    BY <1>2, <1>4, <2>1 DEF HeapInv, HeapTracker, WaitingOK, Tracker, NULL
<1>6. /\ \A q \in Object : wrapper'[q] \in {wrapper[q], NULL}
      /\ \A q \in Object : wrapper'[q] # t
  <2>1. \A q \in Object : wrapper'[q] = IF q = o THEN NULL ELSE wrapper[q]
    BY <1>1 DEF IInv, ThreadInv, ThreadTypes
  <2>2. \A q \in Object : q # o => wrapper[q] # t
    BY <1>4 DEF IInv, ThreadInv, WrapperNames, Tracker, NULL
  <2>3. NULL # t
    BY DEF Tracker, NULL
  <2>4. QED
    BY <2>1, <2>2, <2>3
<1>7. CASE trk[t].ownership = "kUserland"
  <2>1. PICK r : r = [trk[t] EXCEPT !.cb = "nullptr"]
    OBVIOUS
  <2>2. /\ r \in TrackerRecord
        /\ r.state = trk[t].state /\ r.cb = "nullptr"
        /\ r.persistent = trk[t].persistent /\ r.kind = trk[t].kind
        /\ r.value = trk[t].value /\ r.ownership = trk[t].ownership
        /\ r.calls = trk[t].calls /\ r.refcount = trk[t].refcount
        /\ r.env = trk[t].env /\ r.kind # "TrackedStringResource"
    BY <1>4, <2>1, CallbackFacts DEF TrackerRecord, ReferenceKinds
  <2>3. /\ trk' = [trk EXCEPT ![t] = r]
        /\ UNCHANGED <<finalizing_reflist, pending_finalizers>>
    BY <1>0, <1>7, <2>1 DEF napi_remove_wrap
  <2>4. /\ trk'[t] = r
        /\ \A u \in Tracker : u # t => trk'[u] = trk[u]
    BY <2>3 DEF IInv, TrackerInv
  <2>5. Settles(trk[t], r)
    BY <1>4, <2>2, CallbackFacts, StatusSettles DEF Live
  <2>6. Quiet({t})
    BY <1>1, <2>3, <2>4 DEF Quiet
  <2>7. (Gone(t)' <=> Gone(t)) /\ HeapTracker(t)
    BY <1>1, <2>2, <2>4 DEF Gone, HeapInv
  <2>8. HandleOK(t)'
    BY <1>1, <2>2, <2>4, <2>7 DEF HeapTracker, HandleOK, Live
  <2>9. CallbackOK(t)'
    BY <2>2, <2>4, <2>7 DEF HeapTracker, CallbackOK
  <2>10. WaitingOK(t)'
    BY <1>1, <2>2, <2>3, <2>4, <2>7 DEF HeapTracker, WaitingOK, Live
  <2>11. PhaseOK' /\ EnvAlive'
    BY <1>1, <1>3, <2>3 DEF HeapInv, PhaseOK, EnvAlive, NoReferenceFault
  <2>12. QED
    BY <1>3, <1>6, <2>4, <2>5, <2>6, <2>8, <2>9, <2>10, <2>11, OneTrackerStep
       DEF HeapTracker
<1>8. CASE trk[t].ownership # "kUserland"
  <2>1. Delete(t)
    BY <1>0, <1>8 DEF napi_remove_wrap
  <2>2. QED
    BY <1>1, <1>2, <1>3, <1>4, <1>5, <1>6, <2>1, DeleteHeap
       DEF ReferenceKinds
<1>9. QED
  BY <1>7, <1>8

(* Ref and Unref: the handle they find names an object that exists.        *)
LEMMA CountHeap ==
    ASSUME IInv, HeapInv, NEW t \in Tracker,
           napi_reference_ref(t) \/ napi_reference_unref(t)
    PROVE  HeapInv' /\ ContractStep
<1>1. /\ UNCHANGED <<obj, wrapper, gcQueue, pc, faults, fin, gcFin,
                     finalizing_reflist, pending_finalizers>>
      /\ Live(t) /\ trk[t].persistent # "empty"
      /\ CheckEnvNotInGC
  BY DEF napi_reference_ref, napi_reference_unref, Held, heapVars, queueVars,
         stackVars
<1>2. gcQueue = {} /\ gcFin = NULL /\ EnvAlive
  BY <1>1, NotInGC, AliveUntilDeleted, UserCodePhase
     DEF HeapInv, CheckEnvNotInGC
<1>3. HeapTracker(t) /\ trk[t] \in TrackerRecord
  BY CallbackFacts DEF HeapInv
<1>4. ~ Gone(t) /\ t # fin /\ t # gcFin /\ t \notin pending_finalizers
  BY <1>1, <1>2, <1>3 DEF HeapTracker, HandleOK, WaitingOK, Tracker, NULL
<1>5. PICK r \in TrackerRecord :
        /\ trk' = [trk EXCEPT ![t] = r]
        /\ r.state = "live" /\ r.kind = trk[t].kind
        /\ r.value = trk[t].value /\ r.cb = trk[t].cb
        /\ r.calls = trk[t].calls /\ r.env = trk[t].env
        /\ r.persistent = "weak" => r.refcount = 0 /\ r.value \in Object
        /\ r.persistent = "strong" <=> r.refcount > 0
  <2>1. CASE napi_reference_ref(t)
    <3>1. trk' = [trk EXCEPT ![t] = Ref(trk[t])]
          /\ trk[t].refcount < MaxRefcount
      BY <2>1 DEF napi_reference_ref
    <3>2. QED
      BY <1>1, <1>3, <3>1, RefFacts, RefHandle DEF Live
  <2>2. CASE napi_reference_unref(t)
    <3>1. trk' = [trk EXCEPT ![t] = Unref(trk[t])] /\ trk[t].refcount # 0
      BY <2>2 DEF napi_reference_unref, napi_reference_unref_status
    <3>2. trk[t].persistent = "strong"
      BY <1>1, <1>3, <3>1 DEF HeapTracker, HandleOK, TrackerRecord
    <3>3. QED
      BY <1>1, <1>3, <3>1, <3>2, UnrefFacts, UnrefHandle DEF Live
  <2>3. QED
    BY <2>1, <2>2
<1>6. /\ trk'[t] = r
      /\ \A u \in Tracker : u # t => trk'[u] = trk[u]
  BY <1>5 DEF IInv, TrackerInv
<1>7. Settles(trk[t], r)
  BY <1>1, <1>5, CallbackFacts, StatusSettles DEF Live
<1>8. Quiet({t})
  BY <1>1, <1>6 DEF Quiet
<1>9. ~ Gone(t)'
  BY <1>1, <1>4, <1>5, <1>6 DEF Gone
<1>10. HandleOK(t)'
  BY <1>5, <1>6, <1>9 DEF HandleOK
<1>11. CallbackOK(t)'
  BY <1>1, <1>3, <1>5, <1>6 DEF HeapTracker, CallbackOK
<1>12. WaitingOK(t)'
  BY <1>1, <1>2, <1>4 DEF WaitingOK
<1>13. PhaseOK' /\ EnvAlive'
  BY <1>1, <1>2 DEF HeapInv, PhaseOK, EnvAlive, NoReferenceFault
<1>14. ASSUME pc' \in {"run", "drain"}, NEW o \in Object, wrapper'[o] = t
       PROVE  trk'[t].state = "live" /\ trk'[t].calls = 0
  BY <1>1, <1>5, <1>6, <1>14 DEF HeapInv, HeapObject, Tracker, NULL
<1>15. QED
  BY <1>1, <1>2, <1>6, <1>7, <1>8, <1>10, <1>11, <1>12, <1>13, <1>14,
     OneTrackerStep DEF HeapTracker

-----------------------------------------------------------------------------
(* Actions that create a tracker.                                          *)

(* The next tracker has no place anywhere yet.                             *)
LEMMA NextIsNowhere ==
    ASSUME IInv, HeapInv, next <= MaxTracker
    PROVE  /\ next \in Tracker /\ next # fin /\ next # gcFin
           /\ next \notin gcQueue \cup pending_finalizers
           /\ \A o \in Object : wrapper[o] # next
           /\ StatusOf(trk[next]) = "none"
<1>1. next \in Tracker
  BY ConstantsAssumption DEF IInv, TrackerInv, Tracker
<1>2. trk[next].state = "unborn"
  BY <1>1, ConstantsAssumption DEF IInv, TrackerInv, UnbornBeyondNext
<1>3. next # fin /\ next # gcFin
  BY <1>1, <1>2 DEF HeapInv, HeapTracker, WaitingOK
<1>4. next \notin gcQueue \cup pending_finalizers
  BY <1>2 DEF IInv, TrackerInv, NoDanglingTracker, WeakCallbackTargetsLive,
              Live
<1>5. \A o \in Object : wrapper[o] # next
  BY <1>1, <1>2 DEF IInv, ThreadInv, WrapperNames, Tracker, NULL
<1>6. StatusOf(trk[next]) = "none"
  BY <1>1, <1>2 DEF StatusOf, HeapInv, HeapTracker, CallbackOK
<1>7. QED
  BY <1>1, <1>3, <1>4, <1>5, <1>6

(* A finalizer is registered and others are cancelled in the same step.    *)
LEMMA RegisterStep ==
    ASSUME NEW t \in Tracker, NEW D \in SUBSET Tracker, EnvAlive, EnvAlive',
           StatusOf(trk[t]) = "none", StatusOf(trk'[t]) = "armed",
           \A u \in D : StatusOf(trk[u]) = "armed"
                        /\ StatusOf(trk'[u]) = "cancelled",
           \A u \in Tracker : u # t /\ u \notin D =>
               StatusOf(trk'[u]) = StatusOf(trk[u])
    PROVE  ContractStep
<1> DEFINE st == [u \in Tracker |-> StatusOf(trk[u])]
<1>1. /\ [u \in Tracker |-> FinalizerStatus(u)] = st
      /\ [u \in Tracker |-> FinalizerStatus(u)]' = st'
  BY DEF FinalizerStatus, StatusOf
<1>2. /\ st[t] = "none" /\ \A u \in D : st[u] = "armed"
      /\ st' = [u \in Tracker |-> IF u = t THEN "armed"
                                  ELSE IF u \in D THEN "cancelled"
                                  ELSE st[u]]
  OBVIOUS
<1>3. Contract!Register(t, D)
  BY <1>1, <1>2 DEF Contract!Register, EnvAlive
<1>4. QED
  BY <1>3 DEF ContractStep, Contract!ContractNext

(* A finalizer is registered and no other one changes its status.          *)
LEMMA RegisterOnly ==
    ASSUME NEW t \in Tracker, EnvAlive, EnvAlive',
           StatusOf(trk[t]) = "none", StatusOf(trk'[t]) = "armed",
           \A u \in Tracker : u # t => StatusOf(trk'[u]) = StatusOf(trk[u])
    PROVE  ContractStep
<1>1. PICK D : D = {}
  OBVIOUS
<1>2. D \in SUBSET Tracker /\ \A u : u \notin D
  BY <1>1
<1>3. QED
  BY <1>2, RegisterStep

\* A record that a constructor makes, linked in a list.
FreshRecord(r, list) ==
    /\ r \in TrackerRecord /\ r.state = "live" /\ r.calls = 0
    /\ r.persistent = "weak" => r.refcount = 0 /\ r.value \in Object
    /\ r.persistent = "strong" <=> r.refcount > 0
    /\ r.cb = "user" => list # "reflist"
    /\ r.cb # "user" =>
           r.kind \notin {"ReferenceWithFinalizer", "TrackedFinalizer"}
    /\ r.env

(* A new tracker, whose object exists if it has one; the private property  *)
(* of an object that exists may name it.                                   *)
LEMMA NewHeap ==
    ASSUME IInv, HeapInv, NEW r, NEW list, New(r, list), FreshRecord(r, list),
           r.value \in Object => obj'[r.value] # "collected",
           \A o \in Object : obj'[o] = "collected" <=> obj[o] = "collected",
           \A o \in Object : wrapper'[o] = wrapper[o] \/
                             (wrapper'[o] = next /\ obj'[o] # "collected"),
           \/ pending_finalizers' = pending_finalizers
           \/ /\ pending_finalizers' = pending_finalizers \cup {next}
              /\ r.kind = "TrackedFinalizer" /\ r.persistent = "empty"
              /\ r.refcount = 0,
           EnvAlive, pc # "finalizeReflist",
           UNCHANGED <<gcQueue, pc, faults, fin, gcFin>>
    PROVE  HeapInv' /\ ContractStep
<1>0. PICK t \in Tracker : t = next
  BY NextIsNowhere DEF New
<1>1. /\ t # fin /\ t # gcFin /\ t \notin gcQueue \cup pending_finalizers
      /\ \A o \in Object : wrapper[o] # t
      /\ StatusOf(trk[t]) = "none"
  BY <1>0, NextIsNowhere DEF New
<1>2. /\ trk'[t] = r
      /\ \A u \in Tracker : u # t => trk'[u] = trk[u]
      /\ finalizing_reflist \subseteq finalizing_reflist'
      /\ r.cb = "user" => t \in finalizing_reflist'
  BY <1>0 DEF New, IInv, TrackerInv, FreshRecord
<1>3. Quiet({t})
  BY <1>0, <1>2 DEF Quiet
<1>4. \A u \in Tracker : u # t => HeapTracker(u)'
  BY <1>3, QuietTrackers
<1>5. HandleOK(t)'
  BY <1>2 DEF HandleOK, Gone, FreshRecord
<1>6. CallbackOK(t)'
  BY <1>2 DEF CallbackOK, FreshRecord
<1>7. WaitingOK(t)'
  BY <1>0, <1>1, <1>2 DEF WaitingOK
<1>8. ASSUME NEW o \in Object PROVE HeapObject(o)'
  <2>1. HeapObject(o)
    BY DEF HeapInv
  <2>2. CASE wrapper'[o] = t /\ obj'[o] # "collected"
    BY <1>2, <2>2 DEF HeapObject, Live, FreshRecord
  <2>3. CASE wrapper'[o] = wrapper[o]
    <3>1. wrapper[o] # NULL => trk'[wrapper[o]] = trk[wrapper[o]]
      BY <1>1, <1>2 DEF IInv, ThreadInv, ThreadTypes
    <3>2. QED
      BY <2>1, <2>3, <3>1 DEF HeapObject, Live
  <2>4. QED
    BY <1>0, <2>2, <2>3
<1>9. PhaseOK' /\ EnvAlive'
  BY DEF HeapInv, PhaseOK, EnvAlive, NoReferenceFault
<1>10. ContractStep
  <2>1. CASE r.cb = "user"
    <3>1. StatusOf(trk'[t]) = "armed"
      BY <1>2, <2>1 DEF StatusOf, FreshRecord
    <3>2. QED
      BY <1>1, <1>2, <1>9, <3>1, RegisterOnly
  <2>2. CASE r.cb # "user"
    <3>1. StatusOf(trk'[t]) = "none"
      BY <1>2, <2>2 DEF StatusOf, FreshRecord
    <3>2. Settles(trk[t], trk'[t])
      BY <1>1, <3>1 DEF Settles
    <3>3. QED
      BY <1>2, <1>9, <3>2, SettleStep
  <2>3. QED
    BY <2>1, <2>2
<1>11. QED
  BY <1>4, <1>5, <1>6, <1>7, <1>8, <1>9, <1>10 DEF HeapInv, HeapTracker

(* What a constructor of a Reference returns is such a record.             *)
LEMMA FreshReference ==
    ASSUME NEW k \in ReferenceKinds, NEW own \in Ownership,
           NEW n \in 0 .. 1, NEW v \in Object \cup Primitive,
           NEW c \in {"user", "nullptr"}, NEW list,
           c = "user" => list # "reflist",
           c # "user" => k \in {"Reference", "ReferenceWithData"}
    PROVE  FreshRecord(MakeReference(k, own, n, v, c), list)
<1>1. n \in 0 .. MaxRefcount /\ n \in Nat
  BY ConstantsAssumption
<1>2. PICK r : r = MakeReference(k, own, n, v, c)
  OBVIOUS
<1>3. /\ r \in TrackerRecord
      /\ r.state = "live" /\ r.kind = k /\ r.cb = c
      /\ r.persistent = "weak" => r.refcount = 0 /\ v \in Object
      /\ r.persistent = "strong" => r.refcount > 0
      /\ r.refcount > 0 => r.persistent = "strong"
      /\ r.value = v /\ r.calls = 0 /\ r.env
  BY <1>1, <1>2, MakeReferenceFacts, MakeReferenceHandle
<1>4. QED
  BY <1>2, <1>3 DEF FreshRecord

(* napi_create_reference, napi_add_finalizer and napi_create_external.     *)
LEMMA CreateHeap ==
    ASSUME IInv, HeapInv,
           \/ \E v \in Object \cup Primitive, n \in 0 .. 1 :
                  napi_create_reference(v, n)
           \/ \E o \in Object, own \in Ownership : napi_add_finalizer(o, own)
           \/ \E o \in Object : napi_create_external(o)
    PROVE  HeapInv' /\ ContractStep
<1>1. /\ CheckEnvNotInGC
      /\ UNCHANGED <<wrapper, gcQueue, pending_finalizers, pc, faults, fin,
                     gcFin>>
  BY DEF napi_create_reference, napi_add_finalizer, napi_create_external,
         Preamble, heapVars, queueVars, stackVars
<1>2. EnvAlive /\ pc # "finalizeReflist"
  BY <1>1, AliveUntilDeleted, UserCodePhase DEF HeapInv, CheckEnvNotInGC
<1>3. ASSUME NEW v \in Object \cup Primitive, NEW n \in 0 .. 1,
             napi_create_reference(v, n)
      PROVE  HeapInv' /\ ContractStep
  <2>1. PICK r : r = MakeReference("Reference", "kUserland", n, v, "nullptr")
    OBVIOUS
  <2>2. FreshRecord(r, "reflist") /\ r.value = v
    BY <2>1, FreshReference DEF ReferenceKinds, Ownership, MakeReference
  <2>3. New(r, "reflist") /\ obj' = obj /\ (v \in Object => obj[v] = "reachable")
    BY <1>3, <2>1 DEF napi_create_reference, heapVars
  <2>4. QED
    BY <1>1, <1>2, <2>2, <2>3, NewHeap
<1>4. ASSUME NEW o \in Object, NEW own \in Ownership,
             napi_add_finalizer(o, own) \/ napi_create_external(o)
      PROVE  HeapInv' /\ ContractStep
  <2>1. PICK p \in Ownership :
            New(MakeReference("ReferenceWithFinalizer", p, 0, o, "user"),
                "finalizing_reflist")
    BY <1>4 DEF napi_add_finalizer, napi_create_external, Ownership
  <2>2. PICK r : r = MakeReference("ReferenceWithFinalizer", p, 0, o, "user")
    OBVIOUS
  <2>3. FreshRecord(r, "finalizing_reflist") /\ r.value = o
    BY <2>2, FreshReference DEF ReferenceKinds, MakeReference
  <2>4. /\ obj'[o] = "reachable"
        /\ \A q \in Object : obj'[q] = "collected" <=> obj[q] = "collected"
    BY <1>4 DEF napi_add_finalizer, napi_create_external, heapVars, IInv,
                ThreadInv, ThreadTypes
  <2>5. QED
    BY <1>1, <1>2, <2>1, <2>2, <2>3, <2>4, NewHeap
<1>5. QED
  BY <1>3, <1>4 DEF Ownership

(* An external string: its callback is registered, if it has one.          *)
LEMMA CreateStringHeap ==
    ASSUME IInv, HeapInv, NEW c \in {"user", "nullptr"},
           node_api_create_external_string(c)
    PROVE  HeapInv' /\ ContractStep
<1>1. /\ CheckEnvNotInGC
      /\ UNCHANGED <<obj, wrapper, gcQueue, pending_finalizers, pc, faults,
                     fin, gcFin>>
  BY DEF node_api_create_external_string, heapVars, queueVars, stackVars
<1>2. EnvAlive /\ pc # "finalizeReflist"
  BY <1>1, AliveUntilDeleted, UserCodePhase DEF HeapInv, CheckEnvNotInGC
<1>3. PICK r : r = MakeTrackedStringResource(c)
  OBVIOUS
<1>4. PICK list : list = IF c = "user" THEN "finalizing_reflist" ELSE "reflist"
  OBVIOUS
<1>5. r \in TrackerRecord
  BY <1>3, ConstantsAssumption
     DEF MakeTrackedStringResource, TrackerRecord, Kinds, Ownership
<1>6. FreshRecord(r, list) /\ r.value \notin Object
  BY <1>3, <1>4, <1>5, ConstantsAssumption
     DEF FreshRecord, MakeTrackedStringResource
<1>7. New(r, list)
  BY <1>3, <1>4 DEF node_api_create_external_string
<1>8. QED
  BY <1>1, <1>2, <1>6, <1>7, NewHeap

(* V8 deletes the resource of a string: the callback is called, if it was  *)
(* not before, with the env or, when that is gone, without.                *)
LEMMA StringDestroyedHeap ==
    ASSUME IInv, HeapInv, NEW t \in Tracker, StringResourceDestroyed(t)
    PROVE  HeapInv' /\ ContractStep
<1>1. /\ Live(t) /\ trk[t].kind = "TrackedStringResource"
      /\ gcQueue = {} /\ gcFin = NULL /\ pc # "aborted"
      /\ UNCHANGED <<obj, wrapper, faults, pending_finalizers, pc, gcQueue,
                     fin, gcFin>>
  BY DEF StringResourceDestroyed, InGcFinalizer, heapVars, queueVars,
         stackVars
<1>2. HeapTracker(t) /\ trk[t] \in TrackerRecord /\ trk[t].calls \in {0, 1}
      /\ trk[t].cb \in {"user", "nullptr"}
  BY CallbackFacts DEF HeapInv, TrackerRecord
<1>3. PICK r \in TrackerRecord : r = Destroyed(CallFinalizer(trk[t]))
  BY <1>2, CallFinalizerFacts, DestroyedFacts
<1>4. /\ r.state = "deleted" /\ r.cb = "nullptr"
      /\ r.persistent = "empty" /\ r.kind = trk[t].kind
      /\ r.value = trk[t].value /\ r.env = trk[t].env
      /\ r.calls = IF trk[t].cb = "user" THEN trk[t].calls + 1
                                         ELSE trk[t].calls
  BY <1>2, <1>3, CallFinalizerFacts, DestroyedFacts, DestroyedKeeps
<1>5. /\ trk'[t] = r /\ \A u \in Tracker : u # t => trk'[u] = trk[u]
      /\ finalizing_reflist' = finalizing_reflist \ {t}
  BY <1>3 DEF StringResourceDestroyed, Unlink, IInv, TrackerInv
<1>6. Settles(trk[t], r)
  <2>1. CASE trk[t].cb = "user"
    BY <1>1, <1>4, <2>1, CallbackFacts, StatusSettles DEF Live
  <2>2. CASE trk[t].cb # "user"
    BY <1>1, <1>2, <1>4, <2>2, CallbackFacts, StatusSettles DEF Live
  <2>3. QED
    BY <2>1, <2>2
<1>7. Quiet({t})
  BY <1>1, <1>5 DEF Quiet
<1>8. HandleOK(t)'
  BY <1>4, <1>5 DEF HandleOK, Live
<1>9. CallbackOK(t)'
  BY <1>1, <1>2, <1>4, <1>5 DEF CallbackOK, HeapTracker
<1>10. WaitingOK(t)'
  <2>1. t \notin pending_finalizers
    BY <1>1 DEF IInv, TrackerInv, PendingKinds
  <2>2. t # fin
    BY <1>1, <1>2 DEF HeapTracker, WaitingOK
  <2>3. QED
    BY <1>1, <2>1, <2>2 DEF WaitingOK, Tracker, NULL
<1>11. PhaseOK' /\ (EnvAlive' <=> EnvAlive)
  BY <1>1, <1>5 DEF HeapInv, PhaseOK, EnvAlive, NoReferenceFault
<1>12. EnvAlive \/ StatusOf(trk[t]) # "armed"
  <2>1. ~ EnvAlive => finalizing_reflist = {}
    BY <1>1 DEF HeapInv, PhaseOK, EnvAlive
  <2>2. StatusOf(trk[t]) = "armed" => t \in finalizing_reflist
    BY <1>2 DEF HeapTracker, CallbackOK, StatusOf
  <2>3. QED
    BY <2>1, <2>2
<1>13. \A o \in Object : wrapper'[o] = wrapper[o] /\ wrapper[o] # t
  BY <1>1, GoneNotWrapped DEF ReferenceKinds, Tracker, NULL
<1>14. QED
  BY <1>5, <1>6, <1>7, <1>8, <1>9, <1>10, <1>11, <1>12, <1>13, OneTrackerStep
     DEF HeapTracker

(* napi_wrap sets the private property of an object that exists.           *)
LEMMA WrapHeap ==
    ASSUME IInv, HeapInv, NEW o \in Object, NEW withResult \in BOOLEAN,
           NEW withFinalizer \in BOOLEAN, napi_wrap(o, withResult, withFinalizer)
    PROVE  HeapInv' /\ ContractStep
<1>1. PICK p \in Ownership, k \in ReferenceKinds, c \in {"user", "nullptr"},
           list \in {"reflist", "finalizing_reflist"} :
          /\ New(MakeReference(k, p, 0, o, c), list)
          /\ c = "user" => list # "reflist"
          /\ c # "user" => k = "ReferenceWithData"
  <2>1. PICK p \in Ownership :
            p = IF withResult THEN "kUserland" ELSE "kRuntime"
    BY DEF Ownership
  <2>2. CASE withFinalizer
    BY <2>1, <2>2 DEF napi_wrap, ReferenceKinds
  <2>3. CASE ~ withFinalizer
    BY <2>1, <2>3 DEF napi_wrap, ReferenceKinds
  <2>4. QED
    BY <2>2, <2>3
<1>2. /\ wrapper' = [wrapper EXCEPT ![o] = next] /\ obj[o] = "reachable"
      /\ CheckEnvNotInGC
      /\ UNCHANGED <<obj, gcQueue, pending_finalizers, pc, faults, fin, gcFin>>
  BY DEF napi_wrap, Preamble, queueVars, stackVars
<1>3. EnvAlive /\ pc # "finalizeReflist"
  BY <1>2, AliveUntilDeleted, UserCodePhase DEF HeapInv, CheckEnvNotInGC
<1>4. PICK r : r = MakeReference(k, p, 0, o, c)
  OBVIOUS
<1>5. FreshRecord(r, list) /\ r.value = o
  <2>1. 0 \in 0 .. 1 /\ o \in Object \cup Primitive
    OBVIOUS
  <2>2. FreshRecord(r, list)
    BY <1>1, <1>4, <2>1, FreshReference
  <2>3. r.value = o
    BY <1>4 DEF MakeReference
  <2>4. QED
    BY <2>2, <2>3
<1>6. \A q \in Object : wrapper'[q] = wrapper[q]
                        \/ (wrapper'[q] = next /\ obj'[q] # "collected")
  BY <1>2 DEF IInv, ThreadInv, ThreadTypes
<1>7. QED
  BY <1>1, <1>2, <1>3, <1>4, <1>5, <1>6, NewHeap

(* A TrackedFinalizer has no handle and no count.                          *)
LEMMA FreshTrackedFinalizer ==
    /\ FreshRecord(MakeTrackedFinalizer, "finalizing_reflist")
    /\ MakeTrackedFinalizer.refcount = 0
    /\ StatusOf(MakeTrackedFinalizer) = "armed"
BY MakeTrackedFinalizerFacts DEF FreshRecord, MakeTrackedFinalizer, StatusOf

(* node_api_post_finalizer queues what has no object to wait for.          *)
LEMMA PostFinalizerHeap ==
    ASSUME IInv, HeapInv, node_api_post_finalizer
    PROVE  HeapInv' /\ ContractStep
<1>1. /\ New(MakeTrackedFinalizer, "finalizing_reflist") /\ UserCode
      /\ pending_finalizers' = pending_finalizers \cup {next}
      /\ UNCHANGED <<obj, wrapper, faults, gcQueue, pc, fin, gcFin>>
  BY DEF node_api_post_finalizer, EnqueueFinalizer, heapVars, stackVars
<1>2. EnvAlive /\ pc # "finalizeReflist"
  BY <1>1, AliveUntilDeleted, UserCodePhase DEF HeapInv
<1>3. PICK r : r = MakeTrackedFinalizer
  OBVIOUS
<1>4. /\ FreshRecord(r, "finalizing_reflist") /\ r.refcount = 0
      /\ r.value \notin Object /\ r.persistent = "empty"
      /\ r.kind = "TrackedFinalizer"
  BY <1>3, FreshTrackedFinalizer, MakeTrackedFinalizerFacts,
     ConstantsAssumption
<1>5. QED
  BY <1>1, <1>2, <1>3, <1>4, NewHeap

(* napi_set_instance_data cancels the old finalizer and registers one.     *)
LEMMA SetInstanceHeap ==
    ASSUME IInv, HeapInv, napi_set_instance_data
    PROVE  HeapInv' /\ ContractStep
<1>1. /\ UNCHANGED <<obj, wrapper, gcQueue, fin, gcFin>>
      /\ next <= MaxTracker
  BY DEF napi_set_instance_data, heapVars
<1>2. pc \notin {"finalizeReflist", "deleted", "aborted"} /\ EnvAlive
  BY UserCodePhase, AliveUntilDeleted DEF napi_set_instance_data, HeapInv
<1>3. CASE instance_data # NULL /\ ~ Live(instance_data)
  BY <1>1, <1>2, <1>3, AbortHeap DEF napi_set_instance_data, trackerVars
<1>4. CASE ~ (instance_data # NULL /\ ~ Live(instance_data))
  <2>0. PICK t \in Tracker, old \in Tracker \cup {NULL} :
            t = next /\ old = instance_data
    BY <1>1, NextIsNowhere DEF IInv, TrackerInv
  <2>1. /\ t # fin /\ t # gcFin /\ t \notin gcQueue \cup pending_finalizers
        /\ \A o \in Object : wrapper[o] # t
        /\ StatusOf(trk[t]) = "none"
    BY <1>1, <2>0, NextIsNowhere
  <2>2. old # NULL => /\ old \in Tracker /\ trk[old].kind = "TrackedFinalizer"
                      /\ trk[old].state = "live" /\ old # t
                      /\ trk[old].value = NULL
    <3>1. t >= next => trk[t].state = "unborn"
      BY DEF IInv, TrackerInv, UnbornBeyondNext
    <3>2. trk[t].state = "unborn"
      BY <2>0, <3>1 DEF IInv, TrackerInv, Tracker
    <3>3. QED
      BY <1>4, <2>0, <3>2
         DEF IInv, TrackerInv, InstanceDataKind, Live, TrackerShape
  <2>3. /\ trk'[t] = MakeTrackedFinalizer
        /\ old # NULL => trk'[old] = Destroyed(trk[old])
        /\ \A u \in Tracker \ {t, old} : trk'[u] = trk[u]
        /\ finalizing_reflist' = (finalizing_reflist \ {old}) \cup {t}
        /\ pending_finalizers' = pending_finalizers \ {old}
        /\ UNCHANGED <<pc, faults>>
    BY <1>4, <2>0, <2>2 DEF napi_set_instance_data
  <2>4. Quiet({t, old})
    BY <1>1, <2>3 DEF Quiet
  <2>5. \A u \in Tracker \ {t, old} : HeapTracker(u)'
    BY <2>4, QuietTrackers
  <2>6. HeapTracker(t)'
    <3>1. PICK r : r = MakeTrackedFinalizer
      OBVIOUS
    <3>2. /\ r.refcount = 0 /\ r.persistent = "empty" /\ r.calls = 0
          /\ r.state = "live" /\ r.env
      BY <3>1 DEF MakeTrackedFinalizer
    <3>3. HandleOK(t)' /\ CallbackOK(t)'
      BY <2>3, <3>1, <3>2 DEF HandleOK, CallbackOK
    <3>4. WaitingOK(t)'
      BY <1>1, <2>1, <2>3 DEF WaitingOK
    <3>5. QED
      BY <3>3, <3>4 DEF HeapTracker
  <2>7. ASSUME old # NULL PROVE HeapTracker(old)'
    <3>1. PICK r : r = Destroyed(trk[old])
      OBVIOUS
    <3>2. /\ r.persistent = "empty" /\ r.state = "deleted"
          /\ r.cb = "nullptr" /\ r.kind = "TrackedFinalizer"
          /\ r.calls \in {0, 1} /\ r.env
      BY <2>2, <2>7, <3>1, CallbackFacts, DestroyedFacts, DestroyedKeeps
    <3>3. trk'[old] = r
      BY <2>3, <2>7, <3>1
    <3>4. old \notin gcQueue /\ old # gcFin
      <4>1. HeapTracker(old)
        BY <2>2, <2>7 DEF HeapInv
      <4>2. trk[old].persistent # "weak" \/ trk[old].value \in Object
        BY <4>1 DEF HeapTracker, HandleOK
      <4>3. QED
        BY <2>2, <2>7, <4>1, <4>2, ConstantsAssumption
           DEF HeapTracker, WaitingOK, ReferenceKinds
    <3>5. HandleOK(old)' /\ CallbackOK(old)'
      BY <3>2, <3>3 DEF HandleOK, CallbackOK, Live
    <3>6. WaitingOK(old)'
      BY <1>1, <2>3, <3>2, <3>3, <3>4 DEF WaitingOK, ReferenceKinds
    <3>7. QED
      BY <3>5, <3>6 DEF HeapTracker
  <2>8. \A o \in Object : HeapObject(o)'
    <3>1. \A o \in Object : wrapper[o] # NULL => wrapper[o] \notin {t, old}
      BY <2>1, <2>2, GoneNotWrapped DEF ReferenceKinds
    <3>2. QED
      BY <1>1, <2>4, <3>1, QuietObjects
  <2>9. PhaseOK' /\ EnvAlive'
    BY <1>1, <1>2, <2>3 DEF HeapInv, PhaseOK, EnvAlive, NoReferenceFault
  <2>10. ContractStep
    <3>1. StatusOf(trk'[t]) = "armed"
      BY <2>3, FreshTrackedFinalizer
    <3>2. \A u \in Tracker : u # t /\ u # old =>
              StatusOf(trk'[u]) = StatusOf(trk[u])
      BY <2>3
    <3>3. CASE old # NULL /\ trk[old].cb = "user"
      <4>1. StatusOf(trk[old]) = "armed" /\ StatusOf(trk'[old]) = "cancelled"
        <5>1. /\ trk[old].calls = 0 /\ trk[old] \in TrackerRecord
              /\ trk[old].env
          BY <2>2, <3>3, CallbackFacts
        <5>2. PICK r : r = Destroyed(trk[old])
          OBVIOUS
        <5>3. /\ r.calls = 0 /\ r.cb = "nullptr" /\ r.state = "deleted"
              /\ r.kind = "TrackedFinalizer" /\ trk'[old] = r
          BY <2>2, <2>3, <3>3, <5>1, <5>2, DestroyedFacts, DestroyedKeeps
        <5>4. QED
          BY <3>3, <5>1, <5>3 DEF StatusOf
      <4>2. {old} \in SUBSET Tracker
        BY <2>2, <3>3
      <4>3. QED
        BY <1>2, <2>1, <2>9, <3>1, <3>2, <4>1, <4>2, RegisterStep
    <3>4. CASE old # NULL /\ trk[old].cb # "user"
      <4>1. StatusOf(trk'[old]) = StatusOf(trk[old])
        <5>1. trk[old] \in TrackerRecord
          BY <2>2, <3>4, CallbackFacts
        <5>2. PICK r : r = Destroyed(trk[old])
          OBVIOUS
        <5>3. /\ r.calls = trk[old].calls /\ r.cb = "nullptr"
              /\ r.state = "deleted"
              /\ r.kind = trk[old].kind /\ trk'[old] = r
          BY <2>2, <2>3, <3>4, <5>1, <5>2, DestroyedFacts, DestroyedKeeps
        <5>4. QED
          BY <2>2, <3>4, <5>3 DEF StatusOf
      <4>2. QED
        BY <1>2, <2>1, <2>9, <3>1, <3>2, <4>1, RegisterOnly
    <3>5. CASE old = NULL
      <4>1. \A u \in Tracker : u # old
        BY <3>5 DEF Tracker, NULL
      <4>2. QED
        BY <1>2, <2>1, <2>9, <3>1, <3>2, <4>1, RegisterOnly
    <3>6. QED
      BY <3>3, <3>4, <3>5
  <2>11. QED
    <3>1. \A u \in Tracker : HeapTracker(u)'
      <4>1. SUFFICES ASSUME NEW u \in Tracker PROVE HeapTracker(u)'
        OBVIOUS
      <4>2. CASE u = old
        BY <2>7, <4>2 DEF Tracker, NULL
      <4>3. QED
        BY <2>5, <2>6, <4>2
    <3>2. QED
      BY <2>8, <2>9, <2>10, <3>1 DEF HeapInv
<1>5. QED
  BY <1>3, <1>4

-----------------------------------------------------------------------------
(* The collector.                                                          *)

(* A collection finds no strong handle on its object, owes each weak one a *)
(* callback, and takes the private property with the object.               *)
LEMMA CollectGarbageHeap ==
    ASSUME IInv, HeapInv, NEW o \in Object, CollectGarbage(o)
    PROVE  HeapInv' /\ ContractStep
<1>1. /\ UNCHANGED <<trk, finalizing_reflist, pending_finalizers, pc, fin,
                     gcFin, faults>>
      /\ gcQueue' = {t \in Tracker : trk[t].value = o
                                     /\ trk[t].persistent = "weak"}
      /\ wrapper' = [wrapper EXCEPT ![o] = NULL]
      /\ obj' = [obj EXCEPT ![o] = "collected"]
      /\ gcFin = NULL /\ gcQueue = {}
      /\ \A t \in Tracker : trk[t].value = o => trk[t].persistent # "strong"
  BY DEF CollectGarbage, trackerVars, queueVars, stackVars, InGcFinalizer
<1>2. /\ \A q \in Object : obj'[q] = IF q = o THEN "collected" ELSE obj[q]
      /\ \A q \in Object : wrapper'[q] = IF q = o THEN NULL ELSE wrapper[q]
  BY <1>1 DEF IInv, ThreadInv, ThreadTypes
<1>3. ASSUME NEW u \in Tracker PROVE HeapTracker(u)'
  <2>1. HeapTracker(u) /\ trk'[u] = trk[u] /\ trk[u] \in TrackerRecord
    BY <1>1, CallbackFacts DEF HeapInv
  <2>2. Gone(u)' <=> (Gone(u) \/ trk[u].value = o)
    BY <1>2, <2>1 DEF Gone
  <2>3. trk[u].persistent \in {"empty", "weak", "strong"}
    BY <2>1 DEF TrackerRecord
  <2>4. HandleOK(u)'
    BY <1>1, <2>1, <2>2, <2>3 DEF HeapTracker, HandleOK, Live
  <2>5. CallbackOK(u)'
    BY <1>1, <2>1 DEF HeapTracker, CallbackOK
  <2>6. WaitingOK(u)'
    BY <1>1, <2>1, <2>2 DEF HeapTracker, WaitingOK, Live, Tracker, NULL
  <2>7. QED
    BY <2>4, <2>5, <2>6 DEF HeapTracker
<1>4. \A q \in Object : HeapObject(q)'
  BY <1>1, <1>2 DEF HeapInv, HeapObject, Live
<1>5. PhaseOK'
  BY <1>1 DEF HeapInv, PhaseOK, NoReferenceFault
<1>6. UNCHANGED Contract!contractVars
  BY <1>1 DEF Contract!contractVars, FinalizerStatus
<1>7. QED
  BY <1>3, <1>4, <1>5, <1>6 DEF HeapInv, ContractStep

(* Finalize() on a live tracker: what it does to the record.               *)
LEMMA FinalizedRecord ==
    ASSUME IInv, HeapInv, NEW t \in Tracker, Live(t)
    PROVE  LET r == Finalized(trk[t])
           IN  /\ trk[t].kind # "TrackedStringResource" =>
                      r.cb = "nullptr" /\ r.persistent = "empty"
               /\ r.cb = "nullptr" \/ (r.cb = trk[t].cb /\ ~ r.env)
               /\ r.cb = "user" => r.calls = 0
               /\ ~ r.env => r.kind = "TrackedStringResource"
               /\ r.calls \in {0, 1}
               /\ r.persistent \in {"empty", trk[t].persistent}
               /\ r.state # "unborn" /\ r.kind = trk[t].kind
               /\ r.value = trk[t].value /\ r.refcount = trk[t].refcount
               /\ trk[t].cb = "user" => r.state = "live"
               /\ Settles(trk[t], r)
<1>1. PICK r \in TrackerRecord : r = Finalized(trk[t])
  BY CallbackFacts, FinalizedFacts
<1>2. /\ trk[t].kind # "TrackedStringResource" =>
             r.cb = "nullptr" /\ r.persistent = "empty" /\ r.env = trk[t].env
      /\ trk[t].kind = "TrackedStringResource" =>
             /\ r.cb = trk[t].cb /\ r.persistent = trk[t].persistent
             /\ r.env = FALSE
      /\ r.kind = trk[t].kind /\ r.value = trk[t].value
      /\ r.state # "unborn" /\ (trk[t].cb = "user" => r.state = "live")
      /\ r.refcount = trk[t].refcount
      /\ CallsUser(trk[t]) => r.calls = trk[t].calls + 1
      /\ ~ CallsUser(trk[t]) => r.calls = trk[t].calls
  BY <1>1, CallbackFacts, FinalizedFacts, FinalizedKeeps DEF Live
<1>3. /\ trk[t].cb = "user" => trk[t].calls = 0
      /\ trk[t].calls \in {0, 1} /\ trk[t] \in TrackerRecord
      /\ ~ trk[t].env => trk[t].kind = "TrackedStringResource"
      /\ trk[t].kind \in {"Reference", "ReferenceWithData"} =>
             trk[t].cb = "nullptr"
      /\ trk[t].cb \in {"user", "nullptr"}
  BY CallbackFacts DEF TrackerRecord
<1>4. Settles(trk[t], r)
  <2>1. CASE trk[t].kind = "TrackedStringResource"
    BY <1>2, <1>3, <2>1, StatusSettles DEF Live, CallsUser
  <2>2. CASE trk[t].kind # "TrackedStringResource"
    BY <1>2, <1>3, <2>2, StatusSettles DEF Live, CallsUser
  <2>3. QED
    BY <2>1, <2>2
<1>5. r.calls \in {0, 1} /\ (r.cb = "user" => r.calls = 0)
  BY <1>2, <1>3 DEF CallsUser
<1>6. QED
  BY <1>1, <1>2, <1>3, <1>4, <1>5

(* A weak callback queues its Reference or finalizes it at once; the       *)
(* object is gone, so no private property names the Reference.             *)
LEMMA WeakCallbackHeap ==
    ASSUME IInv, HeapInv, NEW t \in Tracker, WeakCallback(t)
    PROVE  HeapInv' /\ ContractStep
<1>1. /\ t \in gcQueue /\ gcFin = NULL /\ pc # "aborted"
      /\ gcQueue' = gcQueue \ {t}
      /\ UNCHANGED <<obj, wrapper, pc, fin, faults>>
  BY DEF WeakCallback, InGcFinalizer, heapVars
<1>2. HeapTracker(t) /\ Live(t) /\ trk[t] \in TrackerRecord
      /\ trk[t].kind \in ReferenceKinds
  BY <1>1, CallbackFacts DEF HeapInv, IInv, TrackerInv, WeakCallbackTargetsLive
<1>3. /\ Gone(t) /\ trk[t].persistent = "weak" /\ trk[t].refcount = 0
      /\ t # fin /\ t \notin pending_finalizers
  BY <1>1, <1>2 DEF HeapTracker, HandleOK, WaitingOK
<1>4. \A o \in Object : wrapper'[o] = wrapper[o] /\ wrapper[o] # t
  BY <1>1, <1>3, GoneNotWrapped DEF Tracker, NULL
<1>5. EnvAlive /\ EnvAlive' /\ pc # "finalizeReflist"
  <2>1. pc = "run" \/ fin # NULL
    BY <1>1 DEF IInv, ThreadInv, CollectorState
  <2>2. QED
    BY <1>1, <2>1 DEF HeapInv, PhaseOK, EnvAlive
<1>6. CASE trk[t].kind = "ReferenceWithFinalizer" /\ ~ Experimental
  <2>1. PICK r : r = WeakCallbackReset(trk[t])
    OBVIOUS
  <2>2. /\ trk' = [trk EXCEPT ![t] = r]
        /\ pending_finalizers' = pending_finalizers \cup {t}
        /\ UNCHANGED <<finalizing_reflist, gcFin>>
    BY <1>6, <2>1 DEF WeakCallback, EnqueueFinalizer
  <2>3. /\ r \in TrackerRecord /\ r.state = "live" /\ r.kind = trk[t].kind
        /\ r.value = trk[t].value /\ r.cb = trk[t].cb
        /\ r.persistent = "empty" /\ r.refcount = 0 /\ r.calls = trk[t].calls
        /\ r.env = trk[t].env
    BY <1>2, <1>3, <2>1 DEF WeakCallbackReset, TrackerRecord, Live
  <2>4. trk'[t] = r /\ \A u \in Tracker : u # t => trk'[u] = trk[u]
    BY <2>2 DEF IInv, TrackerInv
  <2>5. Gone(t)'
    BY <1>1, <1>3, <2>3, <2>4 DEF Gone
  <2>6. Quiet({t})
    BY <1>1, <2>2, <2>4 DEF Quiet
  <2>7. HandleOK(t)'
    BY <2>3, <2>4 DEF HandleOK
  <2>8. CallbackOK(t)'
    BY <1>2, <2>2, <2>3, <2>4 DEF HeapTracker, CallbackOK
  <2>9. WaitingOK(t)'
    BY <1>1, <1>3, <2>2, <2>3, <2>4, <2>5 DEF WaitingOK, Tracker, NULL
  <2>10. Settles(trk[t], r)
    BY <1>2, <2>3, CallbackFacts, StatusSettles DEF Live
  <2>11. PhaseOK'
    BY <1>1, <2>2 DEF HeapInv, PhaseOK, NoReferenceFault
  <2>12. QED
    BY <1>4, <1>5, <2>4, <2>6, <2>7, <2>8, <2>9, <2>10, <2>11, OneTrackerStep
       DEF HeapTracker
<1>7. CASE ~ (trk[t].kind = "ReferenceWithFinalizer" /\ ~ Experimental)
  <2>1. PICK r : r = Finalized(trk[t])
    OBVIOUS
  <2>2. /\ trk' = [trk EXCEPT ![t] = r]
        /\ finalizing_reflist' = finalizing_reflist \ {t}
        /\ gcFin' = IF trk[t].cb = "user" THEN t ELSE NULL
        /\ UNCHANGED pending_finalizers
    BY <1>7, <2>1 DEF WeakCallback, queueVars, Unlink
  <2>3. /\ r.cb = "nullptr" /\ r.persistent = "empty"
        /\ r.state # "unborn" /\ r.kind = trk[t].kind
        /\ r.value = trk[t].value /\ r.refcount = trk[t].refcount
        /\ trk[t].cb = "user" => r.state = "live"
        /\ r.calls \in {0, 1}
        /\ ~ r.env => r.kind = "TrackedStringResource"
        /\ Settles(trk[t], r)
    BY <1>2, <2>1, FinalizedRecord DEF ReferenceKinds
  <2>4. trk'[t] = r /\ \A u \in Tracker : u # t => trk'[u] = trk[u]
    BY <2>2 DEF IInv, TrackerInv
  <2>5. Gone(t)'
    BY <1>1, <1>3, <2>3, <2>4 DEF Gone
  <2>6. Quiet({t})
    BY <1>1, <2>2, <2>4 DEF Quiet, Tracker, NULL
  <2>7. HandleOK(t)' /\ CallbackOK(t)'
    BY <1>3, <2>3, <2>4 DEF HandleOK, CallbackOK
  <2>8. WaitingOK(t)'
    BY <1>1, <1>2, <1>3, <2>2, <2>3, <2>4, <2>5
       DEF WaitingOK, Live, Tracker, NULL
  <2>9. PhaseOK'
    BY <1>1, <1>5, <2>2 DEF HeapInv, PhaseOK, NoReferenceFault
  <2>10. QED
    BY <1>4, <1>5, <2>3, <2>4, <2>6, <2>7, <2>8, <2>9, OneTrackerStep
       DEF HeapTracker
<1>8. QED
  BY <1>6, <1>7

-----------------------------------------------------------------------------
(* Running finalizers.                                                     *)

(* One turn of a loop: outside of teardown it is on a tracker of the       *)
(* queue, whose object is gone, and the loop over reflist calls nobody.    *)
LEMMA FinalizeStepHeap ==
    ASSUME IInv, HeapInv, NEW t \in Tracker, Live(t), fin = NULL,
           pc \in Teardown \cup {"drain"},
           pc = "drain" => t \in pending_finalizers,
           pc = "finalizeReflist" => trk[t].cb # "user",
           trk' = [trk EXCEPT ![t] = Finalized(@)], Unlink(t),
           fin' = IF CallsUser(trk[t]) THEN t ELSE NULL,
           pending_finalizers' \subseteq pending_finalizers,
           UNCHANGED <<obj, wrapper, gcQueue, pc, gcFin, faults>>
    PROVE  HeapInv' /\ ContractStep
<1>1. PICK r : r = Finalized(trk[t])
  OBVIOUS
<1>2. /\ trk[t].kind # "TrackedStringResource" =>
             r.cb = "nullptr" /\ r.persistent = "empty"
      /\ r.cb = "nullptr" \/ (r.cb = trk[t].cb /\ ~ r.env)
      /\ r.cb = "user" => r.calls = 0
      /\ ~ r.env => r.kind = "TrackedStringResource"
      /\ r.calls \in {0, 1}
      /\ r.persistent \in {"empty", trk[t].persistent}
      /\ r.state # "unborn" /\ r.kind = trk[t].kind
      /\ r.value = trk[t].value /\ r.refcount = trk[t].refcount
      /\ trk[t].cb = "user" => r.state = "live"
      /\ Settles(trk[t], r)
  BY <1>1, FinalizedRecord
<1>3. /\ trk'[t] = r /\ \A u \in Tracker : u # t => trk'[u] = trk[u]
      /\ finalizing_reflist' = finalizing_reflist \ {t}
  BY <1>1 DEF IInv, TrackerInv, Unlink
<1>4. gcQueue = {} /\ gcFin = NULL
  BY CollectorIdle DEF Teardown
<1>5. HeapTracker(t) /\ (Gone(t)' <=> Gone(t))
  BY <1>2, <1>3 DEF HeapInv, Gone
<1>6. /\ pc = "drain" => trk[t].refcount = 0
      /\ pc = "drain" /\ trk[t].kind # "TrackedFinalizer" => Gone(t)
  BY <1>5 DEF HeapTracker, WaitingOK
<1>7. Quiet({t})
  BY <1>3 DEF Quiet, Tracker, NULL
<1>8. HandleOK(t)'
  BY <1>2, <1>3, <1>5, <1>6 DEF HeapTracker, HandleOK, Teardown
<1>9. CallbackOK(t)'
  BY <1>2, <1>3 DEF CallbackOK
<1>10. WaitingOK(t)'
  <2>1. t \in pending_finalizers =>
            /\ trk[t].refcount = 0 /\ trk[t].persistent = "empty"
            /\ trk[t].kind # "TrackedFinalizer" => Gone(t)
    BY <1>5 DEF HeapTracker, WaitingOK
  <2>2. t \in pending_finalizers' => t \in pending_finalizers
    OBVIOUS
  <2>3. t # gcFin' /\ t \notin gcQueue'
    BY <1>4 DEF Tracker, NULL
  <2>4. t = fin' => /\ trk[t].cb = "user"
                    /\ trk[t].kind # "TrackedStringResource"
    BY DEF Tracker, NULL, CallsUser
  <2>5. trk[t].kind \in ReferenceKinds => trk[t].kind # "TrackedFinalizer"
    BY DEF ReferenceKinds
  <2>6. QED
    BY <1>2, <1>3, <1>5, <1>6, <2>1, <2>2, <2>3, <2>4, <2>5
       DEF WaitingOK, Live
<1>11. PhaseOK' /\ EnvAlive /\ EnvAlive'
  BY <1>3 DEF HeapInv, PhaseOK, EnvAlive, NoReferenceFault, Teardown, CallsUser
<1>12. ASSUME pc' \in {"run", "drain"}, NEW o \in Object, wrapper'[o] = t
       PROVE  FALSE
  <2>1. wrapper[o] = t /\ t # NULL /\ pc = "drain"
    BY <1>12 DEF Teardown, Tracker, NULL
  <2>2. QED
    BY <1>6, <2>1, GoneNotWrapped DEF ReferenceKinds
<1>13. QED
  BY <1>2, <1>3, <1>7, <1>8, <1>9, <1>10, <1>11, <1>12, OneTrackerStep
     DEF HeapTracker

(* The draining loop, in the immediate or in DeleteMe.                     *)
LEMMA DrainHeap ==
    ASSUME IInv, HeapInv, NEW t \in Tracker, DrainFinalizerQueue(t)
    PROVE  HeapInv' /\ ContractStep
<1>1. Live(t)
  BY DEF IInv, TrackerInv, NoDanglingTracker, DrainFinalizerQueue
<1>2. QED
  BY <1>1, FinalizeStepHeap DEF DrainFinalizerQueue, Teardown, heapVars

(* The loops of DeleteMe.                                                  *)
LEMMA DeleteMeHeap ==
    ASSUME IInv, HeapInv, DeleteMeFinalizing \/ DeleteMeReflist
    PROVE  HeapInv' /\ ContractStep
<1>1. PICK list \in {reflist, finalizing_reflist} :
          /\ FinalizeFront(list)
          /\ \/ pc = "finalizeFinalizing"
             \/ pc = "finalizeReflist" /\ list = reflist
  BY DEF DeleteMeFinalizing, DeleteMeReflist
<1>2. PICK t \in list :
        /\ fin = NULL
        /\ trk' = [trk EXCEPT ![t] = Finalized(@)]
        /\ Unlink(t)
        /\ fin' = IF CallsUser(trk[t]) THEN t ELSE NULL
        /\ pending_finalizers' \subseteq pending_finalizers
        /\ UNCHANGED <<obj, wrapper, gcQueue, pc, gcFin, faults>>
  BY <1>1 DEF FinalizeFront, heapVars
<1>3. t \in Tracker /\ Live(t)
  BY <1>1, <1>2 DEF IInv, TrackerInv, NoDanglingTracker
<1>4. pc = "finalizeReflist" => trk[t].cb # "user"
  BY <1>1, <1>3 DEF IInv, TrackerInv, ReflistKinds, TrackerShape
<1>5. pc \in Teardown /\ pc # "drain"
  BY <1>1 DEF Teardown
<1>6. QED
  BY <1>2, <1>3, <1>4, <1>5, FinalizeStepHeap

(* A user finalizer returns: a kRuntime Reference is still there to be     *)
(* deleted, and no object carries it.                                      *)
LEMMA FinalizerReturnedHeap ==
    ASSUME IInv, HeapInv, NEW t \in Tracker, FinalizerReturned(t),
           t \in {fin, gcFin}, t \notin gcQueue, pc \notin {"deleted", "aborted"},
           t # fin', t # gcFin', fin' \in {fin, NULL}, gcFin' \in {gcFin, NULL},
           UNCHANGED <<obj, wrapper, gcQueue>>
    PROVE  HeapInv' /\ ContractStep
<1>1. HeapTracker(t)
  BY DEF HeapInv
<1>2. /\ trk[t].kind \in ReferenceKinds /\ trk[t].ownership = "kRuntime" =>
             Live(t)
      /\ trk[t].kind # "TrackedStringResource"
  BY <1>1 DEF HeapTracker, WaitingOK, ReferenceKinds
<1>3. EnvAlive
  BY AliveUntilDeleted DEF HeapInv
<1>4. ASSUME pc \in {"run", "drain"}, NEW o \in Object PROVE wrapper[o] # t
  <2>1. SUFFICES ASSUME wrapper[o] = t PROVE FALSE
    OBVIOUS
  <2>2. ~ Gone(t) /\ trk[t].kind \in ReferenceKinds
    BY <2>1, GoneNotWrapped DEF Tracker, NULL
  <2>3. t = fin => pc = "drain"
    BY <1>4 DEF HeapInv, PhaseOK, Tracker, NULL
  <2>4. QED
    BY <1>1, <2>2, <2>3 DEF HeapTracker, WaitingOK
<1>5. CASE trk[t].ownership # "kUserland" /\ Live(t)
  <2>1. Delete(t) /\ UNCHANGED <<pc, faults>>
    BY <1>5 DEF FinalizerReturned
  <2>2. QED
    BY <1>2, <1>3, <1>4, <1>5, <2>1, DeleteHeap
<1>6. CASE ~ (trk[t].ownership # "kUserland" /\ Live(t))
  <2>1. /\ UNCHANGED <<trk, finalizing_reflist, pending_finalizers>>
        /\ \/ UNCHANGED <<pc, faults>>
           \/ /\ pc' = "aborted" /\ faults' = faults \cup {trk[t].kind}
              /\ trk[t].ownership # "kUserland"
    BY <1>6 DEF FinalizerReturned
  <2>2. trk[t].kind \in Kinds /\ trk[t].ownership \in Ownership
    BY CallbackFacts DEF TrackerRecord
  <2>3. \/ UNCHANGED <<pc, faults>>
        \/ pc' = "aborted" /\ faults' = faults \cup {"TrackedFinalizer"}
    BY <1>2, <1>6, <2>1, <2>2 DEF Kinds, Ownership
  <2>4. PhaseOK' /\ (EnvAlive' <=> EnvAlive)
    BY <1>3, <2>1, <2>3
       DEF HeapInv, PhaseOK, EnvAlive, NoReferenceFault, ReferenceKinds
  <2>5. Quiet({})
    BY <2>1, <2>3 DEF Quiet, Tracker, NULL
  <2>6. QED
    BY <2>1, <2>4, <2>5, NoTrackerStep
<1>7. QED
  BY <1>5, <1>6

(* A finalizer returned to the draining loop or to DeleteMe.               *)
LEMMA CallFinalizerReturnHeap ==
    ASSUME IInv, HeapInv, CallFinalizerReturn
    PROVE  HeapInv' /\ ContractStep
<1>1. PICK t \in Tracker : t = fin
  BY DEF CallFinalizerReturn, IInv, ThreadInv, ThreadTypes
<1>2. /\ gcQueue = {} /\ gcFin = NULL /\ fin # NULL
      /\ FinalizerReturned(t) /\ fin' = NULL
      /\ UNCHANGED <<obj, wrapper, gcQueue, gcFin>>
  BY <1>1 DEF CallFinalizerReturn, InGcFinalizer, heapVars
<1>3. pc \notin {"deleted", "aborted"}
  BY <1>2 DEF CallFinalizerReturn, HeapInv, PhaseOK
<1>4. QED
  BY <1>1, <1>2, <1>3, FinalizerReturnedHeap DEF Tracker, NULL

(* A finalizer returned to the collector.                                  *)
LEMMA GcFinalizerReturnHeap ==
    ASSUME IInv, HeapInv, GcFinalizerReturn
    PROVE  HeapInv' /\ ContractStep
<1>1. PICK t \in Tracker : t = gcFin
  BY DEF GcFinalizerReturn, InGcFinalizer, IInv, ThreadInv, ThreadTypes
<1>2. /\ gcFin # NULL /\ FinalizerReturned(t) /\ gcFin' = NULL
      /\ UNCHANGED <<obj, wrapper, gcQueue, fin>>
  BY <1>1 DEF GcFinalizerReturn, InGcFinalizer, heapVars
<1>3. t \notin gcQueue /\ t # fin
  BY <1>1 DEF IInv, ThreadInv, CollectorState, HeapInv, HeapTracker, WaitingOK
<1>4. pc \notin {"deleted", "aborted"}
  BY <1>2 DEF GcFinalizerReturn, HeapInv, PhaseOK, IInv, ThreadInv,
              CollectorState
<1>5. QED
  BY <1>1, <1>2, <1>3, <1>4, FinalizerReturnedHeap DEF Tracker, NULL

-----------------------------------------------------------------------------
(* A new env has an empty heap.                                            *)
LEMMA InitHeap == Init => HeapInv
<1> SUFFICES ASSUME Init PROVE HeapInv
  OBVIOUS
<1>1. ASSUME NEW t \in Tracker PROVE HeapTracker(t)
  <2>1. trk[t] = Unborn /\ t # NULL
    BY DEF Init, Tracker, NULL
  <2>2. HandleOK(t) /\ CallbackOK(t)
    BY <2>1 DEF HandleOK, CallbackOK, Unborn, Live
  <2>3. WaitingOK(t)
    BY <2>1 DEF Init, WaitingOK
  <2>4. QED
    BY <2>2, <2>3 DEF HeapTracker
<1>2. \A o \in Object : HeapObject(o)
  BY DEF Init, HeapObject
<1>3. PhaseOK
  BY DEF Init, PhaseOK, NoReferenceFault
<1>4. QED
  BY <1>1, <1>2, <1>3 DEF HeapInv

(* Every step keeps the heap and is a step of the contract, or none.       *)
LEMMA NextHeap == IInv /\ HeapInv /\ [Next]_vars => HeapInv' /\ ContractStep
<1> SUFFICES ASSUME IInv, HeapInv, [Next]_vars PROVE HeapInv' /\ ContractStep
  OBVIOUS
<1>1. CASE ApiCall
  <2>1. CASE \E o \in Object : JsCreateObject(o) \/ JsDropObject(o)
    BY <2>1, HeapCallsHeap
  <2>2. CASE \/ \E v \in Object \cup Primitive, n \in 0 .. 1 :
                    napi_create_reference(v, n)
             \/ \E o \in Object, own \in Ownership : napi_add_finalizer(o, own)
             \/ \E o \in Object : napi_create_external(o)
    BY <2>2, CreateHeap
  <2>3. CASE \E o \in Object, withResult, withFinalizer \in BOOLEAN :
                 napi_wrap(o, withResult, withFinalizer)
    BY <2>3, WrapHeap
  <2>4. CASE \E o \in Object : napi_unwrap(o) \/ napi_remove_wrap(o)
    BY <2>4, UnwrapHeap, RemoveWrapHeap
  <2>5. CASE \E t \in Tracker :
                 napi_delete_reference(t) \/ napi_get_reference_value(t)
    BY <2>5, DeleteReferenceHeap, GetReferenceValueHeap
  <2>6. CASE \E t \in Tracker :
                 napi_reference_ref(t) \/ napi_reference_unref(t)
    BY <2>6, CountHeap
  <2>7. CASE node_api_post_finalizer
    BY <2>7, PostFinalizerHeap
  <2>8. CASE napi_set_instance_data
    BY <2>8, SetInstanceHeap
  <2>9. CASE napi_get_instance_data \/ CheckGCAccessFatal
    BY <2>9, ReadsHeap
  <2>10. CASE \E c \in {"user", "nullptr"} :
                  node_api_create_external_string(c)
    BY <2>10, CreateStringHeap
  <2>11. QED
    BY <1>1, <2>1, <2>2, <2>3, <2>4, <2>5, <2>6, <2>7, <2>8, <2>9, <2>10
       DEF ApiCall
<1>2. CASE Runtime
  BY <1>2, WeakCallbackHeap, DrainHeap, LoopEndHeap, CallFinalizerReturnHeap,
     GcFinalizerReturnHeap, UnrefEnvHeap, DeleteMeHeap, DeleteMeEndHeap
     DEF Runtime
<1>3. CASE \E o \in Object : CollectGarbage(o)
  BY <1>3, CollectGarbageHeap
<1>31. CASE \E t \in Tracker : StringResourceDestroyed(t)
  BY <1>31, StringDestroyedHeap
<1>4. CASE CallFinalizerThrow
  BY <1>4, ReadsHeap
<1>5. CASE DrainDeletedEnv
  BY <1>5, DrainDeletedHeap
<1>6. CASE OwnerUnref
  BY <1>6, UnrefEnvHeap
<1>7. CASE UNCHANGED vars
  <2>1. UNCHANGED <<trk, finalizing_reflist, pending_finalizers, obj, wrapper,
                    gcQueue, pc, fin, gcFin, faults>>
    BY <1>7 DEF vars, trackerVars, heapVars, queueVars, stackVars
  <2>2. Quiet({}) /\ PhaseOK' /\ (EnvAlive' <=> EnvAlive)
    BY <2>1 DEF Quiet, HeapInv, PhaseOK, EnvAlive, NoReferenceFault
  <2>3. QED
    BY <2>1, <2>2, NoTrackerStep
<1>8. QED
  BY <1>1, <1>2, <1>3, <1>31, <1>4, <1>5, <1>6, <1>7 DEF Next

(* Both layers of the invariant hold in every reachable state.             *)
LEMMA HeapInvariance == Spec => [](IInv /\ HeapInv)
<1>1. IInv /\ HeapInv /\ [Next]_vars => HeapInv'
  BY NextHeap
<1>2. QED
  BY <1>1, InitIInv, NextIInv, InitHeap, PTL DEF Spec

(* No Reference is deleted twice and none is read after its deletion, by   *)
(* napi_unwrap or by a finalizer that returns.                             *)
THEOREM NoReferenceFaultHolds == Spec => []NoReferenceFault
<1>1. HeapInv => NoReferenceFault
  BY DEF HeapInv, PhaseOK
<1>2. QED
  BY <1>1, HeapInvariance, PTL

(* A counted reference pins its object until teardown, and no handle names *)
(* a collected object outside of the collection that clears it.            *)
THEOREM ReferencesHoldAlways == Spec => []ReferencesHold
<1>1. HeapInv => ReferencesHold
  <2> SUFFICES ASSUME HeapInv PROVE ReferencesHold
    OBVIOUS
  <2>1. ASSUME NEW t \in Tracker
        PROVE  /\ Live(t) /\ trk[t].refcount > 0 /\ pc \in {"run", "drain"} =>
                      /\ trk[t].persistent = "strong" /\ ~ Gone(t)
               /\ trk[t].persistent # "empty" /\ Gone(t) => t \in gcQueue
    <3>1. HeapTracker(t)
      BY DEF HeapInv
    <3>2. QED
      BY <3>1 DEF HeapTracker, HandleOK, WaitingOK
  <2>2. CountedReferencePins
    BY <2>1 DEF CountedReferencePins, Gone
  <2>3. HandlesNameExistingObjects
    BY <2>1 DEF HandlesNameExistingObjects, Gone
  <2>4. QED
    BY <2>2, <2>3 DEF ReferencesHold
<1>2. QED
  BY <1>1, HeapInvariance, PTL

(* The env keeps the contract with the author of a finalizer: none is      *)
(* called twice or after it was cancelled, and DeleteMe does not finish    *)
(* before every one of them is called, cancelled or detached.              *)
THEOREM KeepsFinalizerContractHolds == Spec => KeepsFinalizerContract
<1>1. Init => Contract!ContractInit
  <2>1. Init => [t \in Tracker |-> FinalizerStatus(t)] = [t \in Tracker |-> "none"]
    BY DEF Init, FinalizerStatus, Unborn
  <2>2. QED
    BY <2>1 DEF Init, Contract!ContractInit
<1>2. IInv /\ HeapInv /\ [Next]_vars =>
          HeapInv' /\ [Contract!ContractNext]_(Contract!contractVars)
  BY NextHeap DEF ContractStep
<1>3. QED
  BY <1>1, <1>2, InitIInv, NextIInv, InitHeap, PTL
     DEF Spec, KeepsFinalizerContract, Contract!ContractSpec
=============================================================================
