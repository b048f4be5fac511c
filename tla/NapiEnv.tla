------------------------------ MODULE NapiEnv ------------------------------
(***************************************************************************)
(* References, wraps and finalizers of one Node-API environment.           *)
(*                                                                         *)
(* Source: node-api/js_native_api_v8.{h,cc} (RefTracker, napi_env__,       *)
(* Finalizer, TrackedFinalizer, Reference and its two subclasses, and the  *)
(* napi_* entry points that create, use and delete them) and the           *)
(* NodeApiEnv overrides in node-api/v8_api.cpp (the finalizer queue, its   *)
(* immediate task and the teardown).                                       *)
(*                                                                         *)
(* All of this runs on the JS thread.  What interleaves is user code (the  *)
(* addon and its finalizers), the garbage collector, the host's task       *)
(* runner and the owner that releases the environment.  A C++ object that  *)
(* derives from RefTracker is a "tracker".  Trackers are numbered in the   *)
(* order they are created; RefTracker::Link puts a new tracker in front of *)
(* its list and is only called on creation, so a list is the set of its    *)
(* members and its front is the largest number.                            *)
(***************************************************************************)
EXTENDS Integers, FiniteSets

CONSTANTS
    Object,       \* JavaScript objects, the values that can be held weakly
    Primitive,    \* JavaScript values that cannot
    MaxTracker,   \* bound: number of trackers ever created
    MaxRefcount,  \* bound: largest refcount a reference reaches
    Experimental  \* module_api_version == NAPI_VERSION_EXPERIMENTAL

NULL == 0

ASSUME ConstantsAssumption ==
    /\ MaxTracker \in Nat \ {0}
    /\ MaxRefcount \in Nat \ {0}
    /\ Experimental \in BOOLEAN
    /\ Object \cap Primitive = {}
    /\ NULL \notin Object \cup Primitive

VARIABLES
    trk,                 \* the trackers
    next,                \* number of the next tracker to be created
    reflist,             \* napi_env__::reflist
    finalizing_reflist,  \* napi_env__::finalizing_reflist
    pending_finalizers,  \* napi_env__::pending_finalizers
    instance_data,       \* napi_env__::instance_data
    obj,                 \* V8 heap: what became of each object
    wrapper,             \* the private property NAPI_PRIVATE_KEY(wrapper)
    gcQueue,             \* weak callbacks the running collection still owes
    refs,                \* napi_env__::refs
    owned,               \* the owner of the env still holds its reference
    scheduled,           \* NodeApiEnv::m_isFinalizationScheduled
    tasks,               \* immediates in the host's task runner
    pc,                  \* what the JS thread is doing with the env
    fin,                 \* tracker whose user finalizer is on the stack
    gcFin,               \* same, for a finalizer called from inside the GC
    inTask,              \* DeleteMe was called by the immediate's Unref()
    faults               \* freed memory that was used, by kind

trackerVars == <<trk, next, reflist, finalizing_reflist>>
heapVars    == <<obj, wrapper>>
queueVars   == <<pending_finalizers, refs, scheduled, tasks>>
stackVars   == <<pc, fin, gcFin, inTask>>
vars == <<trackerVars, instance_data, heapVars, gcQueue, queueVars, owned,
          stackVars, faults>>

-----------------------------------------------------------------------------
Tracker        == 1 .. MaxTracker
ReferenceKinds == {"Reference", "ReferenceWithData", "ReferenceWithFinalizer"}
Kinds          == ReferenceKinds \cup {"TrackedFinalizer",
                                        "TrackedStringResource"}
Ownership      == {"kRuntime", "kUserland"}
Teardown       == {"teardownDrain", "finalizeFinalizing", "finalizeReflist"}

\* Data members of a tracker.  "calls" counts the invocations of the user's
\* callback and is a history variable; cb is finalize_callback_, and env says
\* that the Finalizer's env_ is not null.
TrackerRecord ==
    [state : {"unborn", "live", "deleted"}, kind : Kinds,
     ownership : Ownership, refcount : 0 .. MaxRefcount,
     persistent : {"empty", "weak", "strong"},
     value : Object \cup Primitive \cup {NULL},
     cb : {"user", "nullptr"}, env : BOOLEAN, calls : Nat]

Unborn == [state |-> "unborn", kind |-> "Reference", ownership |-> "kRuntime",
           refcount |-> 0, persistent |-> "empty", value |-> NULL,
           cb |-> "nullptr", env |-> TRUE, calls |-> 0]

Live(t) == trk[t].state = "live"

\* m_isDestructing, which can_call_into_js() negates.
Destructing == pc \in Teardown \cup {"deleted"}

-----------------------------------------------------------------------------
(* Operations on a tracker.                                                *)

CanBeHeldWeakly(v) == v \in Object

\* Reference::SetWeak: what becomes of persistent_.
SetWeak(v) == IF CanBeHeldWeakly(v) THEN "weak" ELSE "empty"

\* The constructors of Reference and its subclasses.
MakeReference(k, own, count, v, callback) ==
    [state |-> "live", kind |-> k, ownership |-> own, refcount |-> count,
     persistent |-> IF count = 0 THEN SetWeak(v) ELSE "strong",
     value |-> v, cb |-> callback, env |-> TRUE, calls |-> 0]

\* A TrackedFinalizer deletes itself after it ran, like a kRuntime reference.
MakeTrackedFinalizer ==
    [state |-> "live", kind |-> "TrackedFinalizer", ownership |-> "kRuntime",
     refcount |-> 0, persistent |-> "empty", value |-> NULL,
     cb |-> "user", env |-> TRUE, calls |-> 0]

\* The resource behind an external string belongs to V8: nobody but the
\* string's end deletes it.
MakeTrackedStringResource(callback) ==
    [state |-> "live", kind |-> "TrackedStringResource",
     ownership |-> "kUserland", refcount |-> 0, persistent |-> "empty",
     value |-> NULL, cb |-> callback, env |-> TRUE, calls |-> 0]

\* Reference::Ref and Reference::Unref, when persistent_ is not empty.
Ref_Mutant(r) == [r EXCEPT !.refcount = @ + 1]
Ref(r) == [r EXCEPT !.refcount = @ + 1, !.persistent = "strong"]
Unref(r) == [r EXCEPT !.refcount = @ - 1,
                      !.persistent = IF r.refcount = 1 THEN SetWeak(r.value)
                                                       ELSE @]

\* What WeakCallback does to persistent_ before it queues the finalizer.
WeakCallbackReset(r) == [r EXCEPT !.persistent = "empty"]

\* The memory of a tracker after its destructor.
Destroyed(r) == [r EXCEPT !.state = "deleted", !.persistent = "empty",
                          !.cb = "nullptr"]

\* Finalizer::CallFinalizer resets the callback before it calls it, with the
\* env or, after ResetEnv, with nullptr.
CallFinalizer(r) ==
    IF r.cb = "user" THEN [r EXCEPT !.cb = "nullptr", !.calls = @ + 1] ELSE r

\* Finalize() of this tracker calls the user; that of a string's resource only
\* lets go of the env.
CallsUser(r) == r.cb = "user" /\ r.kind # "TrackedStringResource"

\* Finalize() up to the call of the user's callback.  A tracker without a
\* callback is finished by this step: kRuntime trackers delete themselves.
Finalized_Mutant(r) ==
    IF r.cb = "user"
    THEN [r EXCEPT !.persistent = "empty", !.calls = @ + 1,
                   !.cb = IF r.kind = "TrackedStringResource" THEN @
                                                              ELSE "nullptr"]
    ELSE IF r.ownership = "kRuntime" THEN Destroyed(r)
    ELSE [r EXCEPT !.persistent = "empty"]
Finalized(r) ==
    IF r.kind = "TrackedStringResource" THEN [r EXCEPT !.env = FALSE]
    ELSE IF r.cb = "user" THEN CallFinalizer([r EXCEPT !.persistent = "empty"])
    ELSE IF r.ownership = "kRuntime" THEN Destroyed(r)
    ELSE [r EXCEPT !.persistent = "empty"]

Unlink(t) ==
    /\ reflist' = reflist \ {t}
    /\ finalizing_reflist' = finalizing_reflist \ {t}

\* The destructors' DequeueFinalizer; a plain Reference is never queued.
DequeueFinalizer_Mutant(t) == UNCHANGED pending_finalizers
DequeueFinalizer(t) == pending_finalizers' = pending_finalizers \ {t}

\* ~Reference, ~ReferenceWithFinalizer, ~TrackedFinalizer.
Delete(t) ==
    /\ trk' = [trk EXCEPT ![t] = Destroyed(@)]
    /\ Unlink(t)
    /\ DequeueFinalizer(t)

\* NodeApiEnv::EnqueueFinalizer: the first finalizer of a batch posts the
\* immediate and takes a reference on the env for it.
EnqueueFinalizer_Mutant(t) ==
    /\ pending_finalizers' = pending_finalizers \cup {t}
    /\ scheduled' = TRUE
    /\ tasks' = IF scheduled THEN tasks ELSE tasks + 1
    /\ UNCHANGED refs
EnqueueFinalizer(t) ==
    /\ pending_finalizers' = pending_finalizers \cup {t}
    /\ IF scheduled \/ Destructing
       THEN UNCHANGED <<refs, scheduled, tasks>>
       ELSE /\ scheduled' = TRUE
            /\ refs' = refs + 1
            /\ tasks' = tasks + 1

-----------------------------------------------------------------------------
(* Who may call what.  User code runs when the thread is in the addon (pc  *)
(* "run", until the owner gives the env up) or in a finalizer; while a     *)
(* collection owes weak callbacks only the finalizers it calls run.        *)

InGcFinalizer == gcFin # NULL

UserCode ==
    /\ pc \notin {"deleted", "aborted"}
    /\ \/ InGcFinalizer
       \/ gcQueue = {} /\ (fin # NULL \/ (pc = "run" /\ owned))

\* napi_env__::CheckGCAccess lets the call through.
GCAccessAllowed_Mutant == TRUE
GCAccessAllowed == ~ (Experimental /\ InGcFinalizer)

\* CHECK_ENV_NOT_IN_GC, the guard of the calls that omit NAPI_PREAMBLE.
CheckEnvNotInGC == UserCode /\ GCAccessAllowed

\* NAPI_PREAMBLE: also needs can_call_into_js().  A call that is refused
\* changes no state; the pending-exception case is not distinguished.
Preamble_Mutant == CheckEnvNotInGC
Preamble == CheckEnvNotInGC /\ ~ Destructing

\* Link a new tracker in front of one of the two lists.
New(r, list) ==
    /\ next <= MaxTracker
    /\ next' = next + 1
    /\ trk' = [trk EXCEPT ![next] = r]
    /\ reflist' = reflist \cup (IF list = "reflist" THEN {next} ELSE {})
    /\ finalizing_reflist' =
           finalizing_reflist \cup (IF list = "reflist" THEN {} ELSE {next})

\* A napi_ref the addon may pass to an API call: one it was given and has not
\* deleted.
Held(t) == Live(t) /\ trk[t].kind \in ReferenceKinds
                   /\ trk[t].ownership = "kUserland"

-----------------------------------------------------------------------------
(* The JavaScript heap, as the addon's JavaScript code drives it.          *)

JsCreateObject(o) ==
    /\ CheckEnvNotInGC
    /\ obj[o] = "unborn"
    /\ obj' = [obj EXCEPT ![o] = "reachable"]
    /\ UNCHANGED <<trackerVars, instance_data, wrapper, gcQueue, queueVars,
                   owned, stackVars, faults>>

JsDropObject(o) ==
    /\ UserCode /\ ~ InGcFinalizer
    /\ obj[o] = "reachable"
    /\ obj' = [obj EXCEPT ![o] = "unreachable"]
    /\ UNCHANGED <<trackerVars, instance_data, wrapper, gcQueue, queueVars,
                   owned, stackVars, faults>>

-----------------------------------------------------------------------------
(* Node-API calls.                                                         *)

napi_create_reference(v, count) ==
    /\ CheckEnvNotInGC
    /\ IF v \in Object THEN obj[v] = "reachable" ELSE Experimental
    /\ New(MakeReference("Reference", "kUserland", count, v, "nullptr"), "reflist")
    /\ UNCHANGED <<instance_data, heapVars, gcQueue, queueVars, owned,
                   stackVars, faults>>

\* Wrap(): with a result, with a finalizer only, with neither.
napi_wrap(o, withResult, withFinalizer) ==
    /\ Preamble
    /\ obj[o] = "reachable"
    /\ wrapper[o] = NULL
    /\ withResult => withFinalizer
    /\ LET own == IF withResult THEN "kUserland" ELSE "kRuntime"
       IN  IF withFinalizer
           THEN New(MakeReference("ReferenceWithFinalizer", own, 0, o, "user"),
                    "finalizing_reflist")
           ELSE New(MakeReference("ReferenceWithData", own, 0, o, "nullptr"),
                    "reflist")
    /\ wrapper' = [wrapper EXCEPT ![o] = next]
    /\ UNCHANGED <<instance_data, obj, gcQueue, queueVars, owned, stackVars,
                   faults>>

\* Unwrap(KeepWrap) dereferences the Reference in the private property.
napi_unwrap(o) ==
    LET t == wrapper[o] IN
    /\ Preamble
    /\ obj[o] = "reachable"
    /\ t # NULL
    /\ faults' = IF Live(t) THEN faults ELSE faults \cup {trk[t].kind}
    /\ pc' = IF Live(t) THEN pc ELSE "aborted"
    /\ UNCHANGED <<trackerVars, instance_data, heapVars, gcQueue, queueVars,
                   owned, fin, gcFin, inTask>>

\* Unwrap(RemoveWrap).
napi_remove_wrap(o) ==
    LET t == wrapper[o] IN
    /\ Preamble
    /\ obj[o] = "reachable"
    /\ t # NULL
    /\ wrapper' = [wrapper EXCEPT ![o] = NULL]
    /\ IF trk[t].ownership = "kUserland"
       THEN /\ trk' = [trk EXCEPT ![t].cb = "nullptr"]
            /\ UNCHANGED <<reflist, finalizing_reflist, pending_finalizers>>
       ELSE Delete(t)
    /\ UNCHANGED <<next, instance_data, obj, gcQueue, refs, scheduled, tasks,
                   owned, stackVars, faults>>

napi_add_finalizer(o, own) ==
    /\ CheckEnvNotInGC
    /\ obj[o] = "reachable"
    /\ New(MakeReference("ReferenceWithFinalizer", own, 0, o, "user"),
           "finalizing_reflist")
    /\ UNCHANGED <<instance_data, heapVars, gcQueue, queueVars, owned,
                   stackVars, faults>>

\* An external is a new object; with a finalizer it gets a kRuntime reference.
napi_create_external(o) ==
    /\ Preamble
    /\ obj[o] = "unborn"
    /\ obj' = [obj EXCEPT ![o] = "reachable"]
    /\ New(MakeReference("ReferenceWithFinalizer", "kRuntime", 0, o, "user"),
           "finalizing_reflist")
    /\ UNCHANGED <<instance_data, wrapper, gcQueue, queueVars, owned,
                   stackVars, faults>>

\* The addon keeps the rule stated in Wrap(): the reference napi_wrap returned
\* is not deleted while the object still carries it and its finalizer has not
\* been invoked.
napi_delete_reference(t) ==
    /\ CheckEnvNotInGC
    /\ Held(t)
    /\ trk[t].calls > 0 \/ \A o \in Object : wrapper[o] # t
    /\ Delete(t)
    /\ UNCHANGED <<next, instance_data, heapVars, gcQueue, refs, scheduled,
                   tasks, owned, stackVars, faults>>

\* Ref() and Unref() do nothing when the handle has been cleared, and the two
\* calls still succeed; unref fails only when the count is zero.
napi_reference_unref_status(t) ==
    IF trk[t].refcount = 0 THEN "napi_generic_failure" ELSE "napi_ok"

napi_reference_ref(t) ==
    /\ CheckEnvNotInGC
    /\ Held(t)
    /\ trk[t].persistent # "empty"
    /\ trk[t].refcount < MaxRefcount
    /\ trk' = [trk EXCEPT ![t] = Ref(@)]
    /\ UNCHANGED <<next, reflist, finalizing_reflist, instance_data, heapVars,
                   gcQueue, queueVars, owned, stackVars, faults>>

napi_reference_unref(t) ==
    /\ CheckEnvNotInGC
    /\ Held(t)
    /\ trk[t].persistent # "empty"
    /\ napi_reference_unref_status(t) = "napi_ok"
    /\ trk' = [trk EXCEPT ![t] = Unref(@)]
    /\ UNCHANGED <<next, reflist, finalizing_reflist, instance_data, heapVars,
                   gcQueue, queueVars, owned, stackVars, faults>>

\* The handle it returns makes the object reachable again.
napi_get_reference_value(t) ==
    /\ CheckEnvNotInGC
    /\ Held(t)
    /\ trk[t].persistent # "empty"
    /\ trk[t].value \in Object
    /\ obj' = [obj EXCEPT ![trk[t].value] = "reachable"]
    /\ UNCHANGED <<trackerVars, instance_data, wrapper, gcQueue, queueVars,
                   owned, stackVars, faults>>

\* An external string keeps the addon's characters (the library is built
\* without V8's sandbox): its resource is linked as a tracker.
node_api_create_external_string(callback) ==
    /\ CheckEnvNotInGC
    /\ New(MakeTrackedStringResource(callback),
           IF callback = "user" THEN "finalizing_reflist" ELSE "reflist")
    /\ UNCHANGED <<instance_data, heapVars, gcQueue, queueVars, owned,
                   stackVars, faults>>

\* Callable from a finalizer inside the GC, too.
node_api_post_finalizer ==
    /\ UserCode
    /\ New(MakeTrackedFinalizer, "finalizing_reflist")
    /\ EnqueueFinalizer(next)
    /\ UNCHANGED <<instance_data, heapVars, gcQueue, owned, stackVars, faults>>

\* Deletes the previous TrackedFinalizer without calling it.  Once teardown
\* has finalized and freed it the pointer dangles.
napi_set_instance_data ==
    /\ UserCode
    /\ next <= MaxTracker
    /\ IF instance_data # NULL /\ ~ Live(instance_data)
       THEN /\ faults' = faults \cup {"TrackedFinalizer"}
            /\ pc' = "aborted"
            /\ UNCHANGED <<trackerVars, instance_data, pending_finalizers>>
       ELSE /\ next' = next + 1
            /\ trk' = [t \in Tracker |->
                         IF t = next THEN MakeTrackedFinalizer
                         ELSE IF t = instance_data THEN Destroyed(trk[t])
                         ELSE trk[t]]
            /\ reflist' = reflist
            /\ finalizing_reflist' =
                   (finalizing_reflist \ {instance_data}) \cup {next}
            /\ pending_finalizers' = pending_finalizers \ {instance_data}
            /\ instance_data' = next
            /\ UNCHANGED <<pc, faults>>
    /\ UNCHANGED <<heapVars, gcQueue, refs, scheduled, tasks, owned, fin,
                   gcFin, inTask>>

\* Reads idata->data().
napi_get_instance_data ==
    LET freed == instance_data # NULL /\ ~ Live(instance_data) IN
    /\ UserCode
    /\ faults' = IF freed THEN faults \cup {"instance_data"} ELSE faults
    /\ pc' = IF freed THEN "aborted" ELSE pc
    /\ UNCHANGED <<trackerVars, instance_data, heapVars, gcQueue, queueVars,
                   owned, fin, gcFin, inTask>>

\* CheckGCAccess ends the process when a finalizer called by the GC makes a
\* call that may affect the GC.
CheckGCAccessFatal ==
    /\ UserCode
    /\ ~ GCAccessAllowed
    /\ pc' = "aborted"
    /\ UNCHANGED <<trackerVars, instance_data, heapVars, gcQueue, queueVars,
                   owned, fin, gcFin, inTask, faults>>

-----------------------------------------------------------------------------
(* The garbage collector.  V8 is external: an object nothing reaches and   *)
(* no strong handle holds is collected, and the weak callback of each weak *)
(* handle on it runs before any other code of the thread.                  *)

CollectGarbage(o) ==
    /\ pc = "run" \/ fin # NULL
    /\ pc # "aborted"
    /\ gcQueue = {} /\ ~ InGcFinalizer
    /\ obj[o] = "unreachable"
    /\ \A t \in Tracker :
           trk[t].value = o => trk[t].persistent # "strong"
    /\ obj' = [obj EXCEPT ![o] = "collected"]
    /\ wrapper' = [wrapper EXCEPT ![o] = NULL]
    /\ gcQueue' = {t \in Tracker : trk[t].value = o
                                   /\ trk[t].persistent = "weak"}
    /\ UNCHANGED <<trackerVars, instance_data, queueVars, owned, stackVars,
                   faults>>

\* Reference::WeakCallback and InvokeFinalizerFromGC.  A plain reference is
\* finalized at once; one with a finalizer is queued, or finalized at once in
\* an experimental env.
WeakCallback(t) ==
    /\ t \in gcQueue
    /\ ~ InGcFinalizer
    /\ pc # "aborted"
    /\ gcQueue' = gcQueue \ {t}
    /\ IF trk[t].kind = "ReferenceWithFinalizer" /\ ~ Experimental
       THEN /\ trk' = [trk EXCEPT ![t] = WeakCallbackReset(@)]
            /\ EnqueueFinalizer(t)
            /\ UNCHANGED <<reflist, finalizing_reflist, gcFin>>
       ELSE /\ trk' = [trk EXCEPT ![t] = Finalized(@)]
            /\ Unlink(t)
            /\ gcFin' = IF trk[t].cb = "user" THEN t ELSE NULL
            /\ UNCHANGED queueVars
    /\ UNCHANGED <<next, instance_data, heapVars, owned, pc, fin, inTask,
                   faults>>

\* V8 drops an external string, in a collection or, when it is empty, as soon
\* as it is made, and deletes its resource; the env may have gone before.  The
\* callback is a node_api_nogc_finalize, which frees the characters.
StringResourceDestroyed(t) ==
    /\ pc \in {"run", "deleted"} \/ fin # NULL
    /\ pc # "aborted"
    /\ gcQueue = {} /\ ~ InGcFinalizer
    /\ Live(t) /\ trk[t].kind = "TrackedStringResource"
    /\ trk' = [trk EXCEPT ![t] = Destroyed(CallFinalizer(@))]
    /\ Unlink(t)
    /\ UNCHANGED <<next, instance_data, heapVars, gcQueue, queueVars, owned,
                   stackVars, faults>>

-----------------------------------------------------------------------------
(* Running finalizers.                                                     *)

\* One turn of the loop of DrainFinalizerQueue, in the immediate or in
\* DeleteMe: any member of the unordered set, taken out before it runs.
DrainFinalizerQueue(t) ==
    /\ pc \in {"drain", "teardownDrain"}
    /\ fin = NULL
    /\ t \in pending_finalizers
    /\ pending_finalizers' = pending_finalizers \ {t}
    /\ trk' = [trk EXCEPT ![t] = Finalized(@)]
    /\ Unlink(t)
    /\ fin' = IF CallsUser(trk[t]) THEN t ELSE NULL
    /\ UNCHANGED <<next, instance_data, heapVars, gcQueue, refs, scheduled,
                   tasks, owned, pc, gcFin, inTask, faults>>

\* The loop ends: the immediate returns, DeleteMe goes on.
DrainFinalizerQueueEnd ==
    /\ pc \in {"drain", "teardownDrain"}
    /\ fin = NULL
    /\ pending_finalizers = {}
    /\ pc' = IF pc = "drain" THEN "run" ELSE "finalizeFinalizing"
    /\ UNCHANGED <<trackerVars, instance_data, heapVars, gcQueue, queueVars,
                   owned, fin, gcFin, inTask, faults>>

\* The user's finalizer returned: Finalize() deletes a kRuntime tracker.  If
\* the callback replaced the instance data it belonged to, the tracker has
\* been deleted already.
FinalizerReturned(t) ==
    IF trk[t].ownership = "kUserland"
    THEN UNCHANGED <<trk, reflist, finalizing_reflist, pending_finalizers, pc,
                     faults>>
    ELSE IF Live(t)
    THEN Delete(t) /\ UNCHANGED <<pc, faults>>
    ELSE /\ faults' = faults \cup {trk[t].kind}
         /\ pc' = "aborted"
         /\ UNCHANGED <<trk, reflist, finalizing_reflist, pending_finalizers>>

CallFinalizerReturn ==
    /\ fin # NULL
    /\ gcQueue = {} /\ ~ InGcFinalizer
    /\ pc # "aborted"
    /\ FinalizerReturned(fin)
    /\ fin' = NULL
    /\ UNCHANGED <<next, instance_data, heapVars, gcQueue, refs, scheduled,
                   tasks, owned, gcFin, inTask>>

\* The callback threw: TriggerFatalException, unless the env is terminating.
CallFinalizerThrow ==
    /\ fin # NULL
    /\ gcQueue = {} /\ ~ InGcFinalizer
    /\ pc = "drain"
    /\ pc' = "aborted"
    /\ UNCHANGED <<trackerVars, instance_data, heapVars, gcQueue, queueVars,
                   owned, fin, gcFin, inTask, faults>>

\* A finalizer that the GC called directly (experimental env) returned.
GcFinalizerReturn ==
    /\ InGcFinalizer
    /\ pc # "aborted"
    /\ FinalizerReturned(gcFin)
    /\ gcFin' = NULL
    /\ UNCHANGED <<next, instance_data, heapVars, gcQueue, refs, scheduled,
                   tasks, owned, fin, inTask>>

-----------------------------------------------------------------------------
(* The life of the env: its owner, the immediate, DeleteMe.                *)

Idle == pc = "run" /\ gcQueue = {} /\ ~ InGcFinalizer

\* napi_env__::Unref, by the owner: RuntimeWrapper's destructor for the root
\* env, removeModuleEnv for a module's.
OwnerUnref ==
    /\ Idle
    /\ owned
    /\ owned' = FALSE
    /\ refs' = refs - 1
    /\ pc' = IF refs = 1 THEN "teardownDrain" ELSE pc
    /\ UNCHANGED <<trackerVars, instance_data, heapVars, gcQueue,
                   pending_finalizers, scheduled, tasks, fin, gcFin, inTask,
                   faults>>

\* The immediate: it clears the flag, drops its reference, and then drains the
\* queue, whether or not Unref() deleted the env.
RunImmediate_KeepsFlag ==
    /\ Idle
    /\ tasks > 0
    /\ tasks' = tasks - 1
    /\ refs' = refs - 1
    /\ pc' = IF refs = 1 THEN "teardownDrain" ELSE "drain"
    /\ inTask' = (refs = 1)
    /\ UNCHANGED <<trackerVars, instance_data, heapVars, gcQueue, scheduled,
                   pending_finalizers, owned, fin, gcFin, faults>>
RunImmediate_NoUnref ==
    /\ Idle
    /\ tasks > 0
    /\ tasks' = tasks - 1
    /\ scheduled' = FALSE
    /\ pc' = "drain"
    /\ UNCHANGED <<trackerVars, instance_data, heapVars, gcQueue, refs, inTask,
                   pending_finalizers, owned, fin, gcFin, faults>>
RunImmediate ==
    /\ Idle
    /\ tasks > 0
    /\ tasks' = tasks - 1
    /\ scheduled' = FALSE
    /\ refs' = refs - 1
    /\ pc' = IF refs = 1 THEN "teardownDrain" ELSE "drain"
    /\ inTask' = (refs = 1)
    /\ UNCHANGED <<trackerVars, instance_data, heapVars, gcQueue,
                   pending_finalizers, owned, fin, gcFin, faults>>

\* One turn of FinalizeAll(list): the front of the list.
FinalizeFront(list) ==
    \E t \in list :
        /\ \A u \in list : u <= t
        /\ fin = NULL
        /\ trk' = [trk EXCEPT ![t] = Finalized(@)]
        /\ Unlink(t)
        /\ fin' = IF CallsUser(trk[t]) THEN t ELSE NULL
        /\ pending_finalizers' =
               IF trk[t].cb = "user" \/ trk[t].ownership = "kUserland"
               THEN pending_finalizers ELSE pending_finalizers \ {t}
        /\ UNCHANGED <<next, instance_data, heapVars, gcQueue, refs,
                       scheduled, tasks, owned, pc, gcFin, inTask, faults>>

\* napi_env__::DeleteMe: both lists, and then `delete this`.
DeleteMeFinalizing ==
    /\ pc = "finalizeFinalizing"
    /\ FinalizeFront(finalizing_reflist)

DeleteMeFinalizingEnd_Mutant ==
    /\ pc = "finalizeFinalizing"
    /\ fin = NULL
    /\ pc' = "finalizeReflist"
    /\ UNCHANGED <<trackerVars, instance_data, heapVars, gcQueue, queueVars,
                   owned, fin, gcFin, inTask, faults>>
DeleteMeFinalizingEnd ==
    /\ pc = "finalizeFinalizing"
    /\ fin = NULL
    /\ finalizing_reflist = {}
    /\ pc' = "finalizeReflist"
    /\ UNCHANGED <<trackerVars, instance_data, heapVars, gcQueue, queueVars,
                   owned, fin, gcFin, inTask, faults>>

DeleteMeReflist ==
    /\ pc = "finalizeReflist"
    /\ FinalizeFront(reflist)

DeleteMeEnd ==
    /\ pc = "finalizeReflist"
    /\ fin = NULL
    /\ reflist = {}
    /\ pc' = "deleted"
    /\ UNCHANGED <<trackerVars, instance_data, heapVars, gcQueue, queueVars,
                   owned, fin, gcFin, inTask, faults>>

\* Unref() deleted the env under the immediate, which goes on to read its
\* pending_finalizers.
DrainDeletedEnv ==
    /\ pc = "deleted"
    /\ inTask
    /\ faults' = faults \cup {"env"}
    /\ pc' = "aborted"
    /\ UNCHANGED <<trackerVars, instance_data, heapVars, gcQueue, queueVars,
                   owned, fin, gcFin, inTask>>
-----------------------------------------------------------------------------
Init ==
    /\ trk = [t \in Tracker |-> Unborn]
    /\ next = 1
    /\ reflist = {} /\ finalizing_reflist = {} /\ pending_finalizers = {}
    /\ instance_data = NULL
    /\ obj = [o \in Object |-> "unborn"]
    /\ wrapper = [o \in Object |-> NULL]
    /\ gcQueue = {}
    /\ refs = 1 /\ owned = TRUE /\ scheduled = FALSE /\ tasks = 0
    /\ pc = "run" /\ fin = NULL /\ gcFin = NULL /\ inTask = FALSE
    /\ faults = {}

ApiCall ==
    \/ \E o \in Object : JsCreateObject(o)
    \/ \E o \in Object : JsDropObject(o)
    \/ \E v \in Object \cup Primitive, n \in 0 .. 1 :
           napi_create_reference(v, n)
    \/ \E o \in Object, withResult, withFinalizer \in BOOLEAN :
           napi_wrap(o, withResult, withFinalizer)
    \/ \E o \in Object : napi_unwrap(o)
    \/ \E o \in Object : napi_remove_wrap(o)
    \/ \E o \in Object, own \in Ownership : napi_add_finalizer(o, own)
    \/ \E o \in Object : napi_create_external(o)
    \/ \E callback \in {"user", "nullptr"} :
           node_api_create_external_string(callback)
    \/ \E t \in Tracker : napi_delete_reference(t)
    \/ \E t \in Tracker : napi_reference_ref(t)
    \/ \E t \in Tracker : napi_reference_unref(t)
    \/ \E t \in Tracker : napi_get_reference_value(t)
    \/ node_api_post_finalizer
    \/ napi_set_instance_data
    \/ napi_get_instance_data
    \/ CheckGCAccessFatal

Runtime ==
    \/ \E t \in Tracker : WeakCallback(t)
    \/ \E t \in Tracker : DrainFinalizerQueue(t)
    \/ DrainFinalizerQueueEnd
    \/ CallFinalizerReturn
    \/ GcFinalizerReturn
    \/ RunImmediate
    \/ DeleteMeFinalizing
    \/ DeleteMeFinalizingEnd
    \/ DeleteMeReflist
    \/ DeleteMeEnd

Next ==
    \/ ApiCall
    \/ Runtime
    \/ \E o \in Object : CollectGarbage(o)
    \/ \E t \in Tracker : StringResourceDestroyed(t)
    \/ CallFinalizerThrow
    \/ OwnerUnref
    \/ DrainDeletedEnv

Spec == Init /\ [][Next]_vars

\* The host runs posted tasks, V8 completes a collection it started, and user
\* finalizers return.
FairSpec == Spec /\ WF_vars(Runtime)

-----------------------------------------------------------------------------
(* Properties.                                                             *)

(* Every field of the env and of its trackers stays in its range: the      *)
(* refcount, unsigned in the code, does not go below zero, nor does the    *)
(* number of references on the env.                                        *)
TypeOK ==
    /\ trk \in [Tracker -> TrackerRecord]
    /\ next \in 1 .. MaxTracker + 1
    /\ reflist \subseteq Tracker
    /\ finalizing_reflist \subseteq Tracker
    /\ pending_finalizers \subseteq Tracker
    /\ instance_data \in Tracker \cup {NULL}
    /\ obj \in [Object -> {"unborn", "reachable", "unreachable", "collected"}]
    /\ wrapper \in [Object -> Tracker \cup {NULL}]
    /\ gcQueue \subseteq Tracker
    /\ refs \in Nat
    /\ owned \in BOOLEAN
    /\ scheduled \in BOOLEAN
    /\ tasks \in Nat
    /\ pc \in Teardown \cup {"run", "drain", "deleted", "aborted"}
    /\ fin \in Tracker \cup {NULL}
    /\ gcFin \in Tracker \cup {NULL}
    /\ inTask \in BOOLEAN
    /\ faults \subseteq Kinds \cup {"instance_data", "env"}

(* The two reference lists and the finalizer queue never point at a freed  *)
(* tracker, however deletions by the addon, weak callbacks, the immediate  *)
(* and teardown interleave: every destructor unlinks and dequeues.         *)
NoDanglingTracker ==
    \A t \in reflist \cup finalizing_reflist \cup pending_finalizers : Live(t)

(* While a collection still owes a weak callback its Reference exists: a   *)
(* finalizer called by the GC cannot delete it, because CheckGCAccess ends *)
(* the process first.                                                      *)
WeakCallbackTargetsLive == \A t \in gcQueue : Live(t)

(* No Reference is deleted twice and napi_unwrap never reads a deleted     *)
(* one, also when teardown has finalized the wrap of an object that is     *)
(* still alive: NAPI_PREAMBLE refuses the call then.                       *)
NoReferenceFault == faults \cap ReferenceKinds = {}

(* A reference with a positive count pins its object (the comment on       *)
(* napi_reference_ref): outside of teardown its handle is strong and the   *)
(* object has not been collected.                                          *)
CountedReferencePins ==
    \A t \in Tracker :
        Live(t) /\ trk[t].refcount > 0 /\ pc \in {"run", "drain"} =>
            /\ trk[t].persistent = "strong"
            /\ trk[t].value \in Object => obj[trk[t].value] # "collected"

(* napi_get_reference_value never hands out a collected object: a handle   *)
(* that is not empty names an object that exists, unless its weak callback *)
(* is about to run.                                                        *)
HandlesNameExistingObjects ==
    \A t \in Tracker :
        trk[t].persistent # "empty" /\ trk[t].value \in Object
        /\ obj[trk[t].value] = "collected" => t \in gcQueue

(* What a reference is for (Reference, js_native_api_v8.cc:683-790): while *)
(* its count is positive the object is not collected, and at any time its  *)
(* handle names an object that exists or is cleared.                       *)
ReferencesHold ==
    /\ CountedReferencePins
    /\ HandlesNameExistingObjects

(* A queued finalizer is never forgotten: outside of the draining loops    *)
(* and of teardown, a non-empty queue has its immediate in the task        *)
(* runner, and the immediate holds a reference on the env.                 *)
QueueHasImmediate ==
    pc = "run" /\ pending_finalizers # {} =>
        /\ scheduled /\ tasks = 1
        /\ refs = tasks + (IF owned THEN 1 ELSE 0)

\* The abstract status of a tracker's finalizer.  No step of the contract leads
\* to the status of one that was called twice.
FinalizerStatus(t) ==
    LET r == trk[t] IN
    IF r.calls > 0 THEN IF r.calls = 1 THEN "called" ELSE "called again"
    ELSE IF r.cb = "user" THEN IF r.env THEN "armed" ELSE "detached"
    ELSE IF r.state # "unborn"
            /\ r.kind \in {"ReferenceWithFinalizer", "TrackedFinalizer"}
    THEN "cancelled" ELSE "none"

Contract == INSTANCE FinalizerContract
                WITH status <- [t \in Tracker |-> FinalizerStatus(t)],
                     alive <- ~ (pc = "deleted" \/ "env" \in faults)

(* The env keeps the contract: no finalizer is called twice, or called     *)
(* after it was cancelled, and DeleteMe does not finish before every one   *)
(* of them has been called, cancelled or, for an external string that V8   *)
(* still has, detached from the env; that one may be called later.         *)
KeepsFinalizerContract == Contract!ContractSpec

(* A finalizer that entered the queue leaves it (it ran, or its tracker    *)
(* was deleted) unless the process or the env ends.                        *)
QueuedFinalizerServed ==
    \A t \in Tracker :
        t \in pending_finalizers ~>
            (t \notin pending_finalizers \/ pc \in {"deleted", "aborted"})

(* After its owner released it the env is deleted, even when finalizers    *)
(* are queued at that moment.                                              *)
ReleasedEnvDeleted == ~ owned ~> pc \in {"deleted", "aborted"}

(* A finalizer may read the instance data, as TestFinalizer of the         *)
(* test_instance_data addon does: it never reads freed memory.             *)
InstanceDataReadable == "instance_data" \notin faults

(* The env is not used after DeleteMe freed it ("Get the field before this *)
(* instance is deleted"); the immediate drains the queue only while it is  *)
(* safe to.                                                                *)
EnvNotUsedAfterDelete == "env" \notin faults
=============================================================================
