---------------------------- MODULE RuntimeEnvs ----------------------------
(***************************************************************************)
(* The C API around a runtime: the root environment and the module         *)
(* environments, the finalizers they put off to the task runner, the       *)
(* teardown that deletes them all, the environment scopes of a thread and  *)
(* the last unhandled promise rejection.                                   *)
(*                                                                         *)
(* Source: node-api/v8_api.cpp (V8RuntimeEnv, NodeApiIsolateLocker,        *)
(* NodeApiEnv, V8TaskRunner, ConfigWrapper, RuntimeWrapper, the JSR_API    *)
(* functions), napi_env__ in node-api/js_native_api_v8.h and the promise   *)
(* callback of V8JsiRuntime.cpp.                                           *)
(*                                                                         *)
(* What one environment does with its references is in NapiEnv; here an    *)
(* environment has a number of pending finalizers and the interest is in   *)
(* several environments and runtimes.  One thread runs everything.  The    *)
(* deletions are nested calls, kept in calls, because the finalizers they  *)
(* run are code of the application.                                        *)
(***************************************************************************)
EXTENDS Naturals, Sequences, FiniteSets, SequencesExt

CONSTANTS
    Runtime,      \* the V8RuntimeEnv instances
    Env,          \* the NodeApiEnv instances
    Promise,      \* the promises JavaScript rejects
    None,         \* no runtime, environment or promise
    MaxFinalizer, \* bound: finalizers that are ever enqueued
    MaxScope      \* bound: open environment scopes

ASSUME NoneAssumption == None \notin Runtime \cup Env \cup Promise
ASSUME BoundAssumption == MaxFinalizer \in Nat /\ MaxScope \in Nat

VARIABLES
    process,    \* "running", or why the process ended
    config,     \* ConfigWrapper: is there a task runner
    rt,         \* per runtime: V8RuntimeEnv and its jsr_runtime
    list,       \* m_moduleEnvList
    env,        \* the environments
    tasks,      \* external: the immediates in the queue of the task runner
    calls,      \* the deletions and immediates in progress
    enqueued,   \* how many finalizers were enqueued
    freedUse,   \* environments an immediate went on to use after their delete
    lockers,    \* the NodeApiIsolateLockers behind tls_current_, it is the last
    handles,    \* the jsr_napi_env_scopes the application has to close
    promise,    \* external: the promises
    last        \* last_unhandled_promise_

envVars   == <<rt, list, env, tasks, calls, enqueued, freedUse>>
scopeVars == <<lockers, handles>>
rejVars   == <<promise, last>>
vars == <<process, config, envVars, scopeVars, rejVars>>

NoEnv == [phase |-> "none", rt |-> None, refs |-> 0, scheduled |-> FALSE,
          destructing |-> FALSE, pending |-> 0, owned |-> FALSE,
          late |-> FALSE]

Init ==
    /\ process = "running"
    /\ config = FALSE
    /\ rt = [r \in Runtime |-> [phase |-> "none", wrapper |-> FALSE,
                                root |-> None, runner |-> FALSE]]
    /\ list = [r \in Runtime |-> <<>>]
    /\ env = [e \in Env |-> NoEnv]
    /\ tasks = <<>>
    /\ calls = <<>>
    /\ enqueued = 0
    /\ freedUse = {}
    /\ lockers = <<>>
    /\ handles = <<>>
    /\ promise = [q \in Promise |-> [rt |-> None, handled |-> FALSE]]
    /\ last = [r \in Runtime |-> None]

\* The application runs, outside the calls of the API that call it back.
HostTurn == process = "running" /\ calls = <<>>

Live(e) == env[e].phase = "live"

LiveRuntime == {r \in Runtime : rt[r].phase = "live"}

-----------------------------------------------------------------------------
(* Configuration and creation.                                             *)

\* jsr_config_set_task_runner.
SetTaskRunner ==
    /\ HostTurn
    /\ ~config
    /\ config' = TRUE
    /\ UNCHANGED <<process, envVars, scopeVars, rejVars>>

NewEnv(r, late) == [NoEnv EXCEPT !.phase = "live", !.rt = r, !.refs = 1,
                                 !.owned = TRUE, !.late = late]

\* The runtime takes the task runner of the configuration into its IsolateData,
\* and only one that makes the isolate of the thread has an isolate_data_.
TakesRunner == config /\ LiveRuntime = {}

\* jsr_create_runtime.
CreateRuntime(r, e) ==
    /\ HostTurn
    /\ rt[r].phase = "none"
    /\ env[e].phase = "none"
    /\ rt' = [rt EXCEPT ![r] = [phase |-> "live", wrapper |-> TRUE, root |-> e,
                                runner |-> TakesRunner]]
    /\ env' = [env EXCEPT ![e] = NewEnv(r, FALSE)]
    /\ list' = [list EXCEPT ![r] = <<e>>]
    /\ UNCHANGED <<process, config, tasks, calls, enqueued, freedUse,
                   scopeVars, rejVars>>

\* V8RuntimeEnv::createNodeApi: jsr_create_node_api_env.
CreateNodeApi(r, e) ==
    /\ HostTurn
    /\ rt[r].wrapper
    /\ env[e].phase = "none"
    /\ env' = [env EXCEPT ![e] = NewEnv(r, FALSE)]
    /\ list' = [list EXCEPT ![r] = Append(@, e)]
    /\ UNCHANGED <<process, config, rt, tasks, calls, enqueued, freedUse,
                   scopeVars, rejVars>>

-----------------------------------------------------------------------------
(* Finalizers and the immediates that run them.                            *)

\* V8TaskRunner::postTask.
PostTask(e) == Append(tasks, e)

\* EnqueueFinalizer schedules one immediate per environment, and none for an
\* environment that is being deleted.
MustSchedule(e) == ~env[e].scheduled /\ ~env[e].destructing

\* EnqueueFinalizer, on the environments en.  SetImmediate needs isolate_data_
\* and its task runner.
Enqueue(en, e) ==
    /\ enqueued < MaxFinalizer
    /\ enqueued' = enqueued + 1
    /\ IF ~MustSchedule(e)
       THEN /\ env' = [en EXCEPT ![e].pending = @ + 1]
            /\ UNCHANGED <<process, tasks>>
       ELSE IF rt[env[e].rt].runner
       THEN /\ env' = [en EXCEPT ![e].pending = @ + 1,
                                 ![e].scheduled = TRUE,
                                 ![e].refs = @ + 1]
            /\ tasks' = PostTask(e)
            /\ UNCHANGED process
       ELSE /\ process' = "null"
            /\ env' = en
            /\ UNCHANGED tasks

\* The collector, or the application, enqueues a finalizer.
EnqueueFinalizer(e) ==
    /\ HostTurn
    /\ Live(e)
    /\ rt[env[e].rt].phase = "live"
    /\ Enqueue(env, e)
    /\ UNCHANGED <<config, rt, list, calls, freedUse, scopeVars, rejVars>>

Call(k, e, s, rest) == [kind |-> k, env |-> e, step |-> s, rest |-> rest]

Top == calls[Len(calls)]

SetStep(s) == [calls EXCEPT ![Len(calls)].step = s]

Unref_Mutant(en, e, cs) ==
    /\ env' = [en EXCEPT ![e].refs = @ - 1]
    /\ calls' = cs
    /\ UNCHANGED process

\* Unref: the last reference calls DeleteMe, on top of the calls cs.
\* DeleteMe first uses m_runtime.
Unref(en, e, cs) ==
    IF en[e].refs > 1
    THEN /\ env' = [en EXCEPT ![e].refs = @ - 1]
         /\ calls' = cs
         /\ UNCHANGED process
    ELSE IF rt[en[e].rt].phase = "deleted"
    THEN /\ process' = "runtime"
         /\ env' = en
         /\ calls' = cs
    ELSE /\ env' = [en EXCEPT ![e].refs = @ - 1, ![e].destructing = TRUE]
         /\ calls' = Append(cs, Call("delete", e, "remove", <<>>))
         /\ UNCHANGED process

Unscheduled(e) == [env EXCEPT ![e].scheduled = FALSE]

\* The immediate: it lets go of its reference, then drains the queue.
RunTask ==
    /\ HostTurn
    /\ tasks # <<>>
    /\ LET e == Head(tasks)
       IN  Unref(Unscheduled(e), e, <<Call("task", e, "drain", <<>>)>>)
    /\ tasks' = Tail(tasks)
    /\ UNCHANGED <<config, rt, list, enqueued, freedUse, scopeVars, rejVars>>

Draining(e) ==
    /\ process = "running"
    /\ calls # <<>>
    /\ Top.step = "drain"
    /\ Top.env = e

\* DrainFinalizerQueue takes a finalizer out and runs it.
Taken(e) == [env EXCEPT ![e].pending = @ - 1]

RunFinalizer(e) ==
    /\ Draining(e)
    /\ Live(e) /\ env[e].pending > 0
    /\ env' = Taken(e)
    /\ UNCHANGED <<process, config, rt, list, tasks, calls, enqueued,
                   freedUse, scopeVars, rejVars>>

\* The finalizer deletes a reference whose finalizer is enqueued in turn.
FinalizerEnqueues(e, f) ==
    /\ Draining(e)
    /\ Live(e) /\ env[e].pending > 0
    /\ Live(f) /\ env[f].rt = env[e].rt
    /\ Enqueue(Taken(e), f)
    /\ UNCHANGED <<config, rt, list, calls, freedUse, scopeVars, rejVars>>

\* The finalizer creates an environment.
FinalizerCreates(e, f) ==
    /\ Draining(e)
    /\ Live(e) /\ env[e].pending > 0
    /\ env[f].phase = "none"
    /\ LET r == env[e].rt
       IN  /\ env' = [Taken(e) EXCEPT ![f] = NewEnv(r, ~rt[r].wrapper)]
           /\ list' = [list EXCEPT ![r] = Append(@, f)]
    /\ UNCHANGED <<process, config, rt, tasks, calls, enqueued, freedUse,
                   scopeVars, rejVars>>

\* CallFinalizer: an exception the finalizer leaves is fatal.  One that runs
\* for an environment being deleted cannot throw: can_call_into_js is false.
FinalizerThrows(e) ==
    /\ Draining(e)
    /\ Live(e) /\ env[e].pending > 0
    /\ ~env[e].destructing
    /\ env' = Taken(e)
    /\ process' = "exit"
    /\ UNCHANGED <<config, rt, list, tasks, calls, enqueued, freedUse,
                   scopeVars, rejVars>>

\* The immediate has drained the queue, or finds that the reference it let
\* go of was the last: it reads the queue of a deleted environment.
EndTask(e) ==
    /\ Draining(e)
    /\ Top.kind = "task"
    /\ ~Live(e) \/ env[e].pending = 0
    /\ calls' = Front(calls)
    /\ freedUse' = IF Live(e) THEN freedUse ELSE freedUse \cup {e}
    /\ UNCHANGED <<process, config, rt, list, env, tasks, enqueued, scopeVars,
                   rejVars>>

-----------------------------------------------------------------------------
(* The end of a runtime.                                                   *)

\* jsr_delete_runtime.  The application has closed its scopes of the runtime
\* and uses no environment of it any more.
DeleteRuntime(r) ==
    /\ HostTurn
    /\ rt[r].wrapper
    /\ \A i \in 1..Len(lockers) : lockers[i].rt # r
    /\ rt' = [rt EXCEPT ![r].wrapper = FALSE]
    /\ LET e == rt[r].root
       IN  Unref([env EXCEPT ![e].owned = FALSE], e, <<>>)
    /\ UNCHANGED <<config, list, tasks, enqueued, freedUse, scopeVars,
                   rejVars>>

\* std::find and erase.
Erased(r, e) == [list EXCEPT ![r] = RemoveFirst(@, e)]

\* The environments the root lets go of: a copy of the list, since each that
\* is deleted takes itself out of it.
Snapshot_Mutant(r, e) == <<>>

Snapshot(r, e) ==
    IF rt[r].root = e THEN RemoveFirst(list[r], e) ELSE <<>>

\* removeModuleEnv.
RemoveModuleEnv(e) ==
    /\ process = "running"
    /\ calls # <<>>
    /\ Top.step = "remove" /\ Top.env = e
    /\ LET r == env[e].rt
       IN  /\ list' = Erased(r, e)
           /\ calls' = [calls EXCEPT ![Len(calls)] =
                          Call("delete", e, "unref", Snapshot(r, e))]
    /\ UNCHANGED <<process, config, rt, env, tasks, enqueued, freedUse,
                   scopeVars, rejVars>>

\* The loop of removeModuleEnv.
UnrefModuleEnv ==
    /\ process = "running"
    /\ calls # <<>>
    /\ Top.step = "unref" /\ Top.rest # <<>>
    /\ LET m == Head(Top.rest)
       IN  Unref([env EXCEPT ![m].owned = FALSE], m,
                 [calls EXCEPT ![Len(calls)].rest = Tail(@)])
    /\ UNCHANGED <<config, rt, list, tasks, enqueued, freedUse, scopeVars,
                   rejVars>>

EndUnref ==
    /\ process = "running"
    /\ calls # <<>>
    /\ Top.step = "unref" /\ Top.rest = <<>>
    /\ calls' = SetStep("drain")
    /\ UNCHANGED <<process, config, rt, list, env, tasks, enqueued, freedUse,
                   scopeVars, rejVars>>

\* The end of NodeApiEnv::DeleteMe: the root takes the runtime with it.
EndDelete(e) ==
    /\ Draining(e)
    /\ Top.kind = "delete"
    /\ env[e].pending = 0
    /\ calls' = Front(calls)
    /\ env' = [env EXCEPT ![e].phase = "deleted"]
    /\ LET r == env[e].rt
       IN  IF rt[r].root = e
           THEN /\ rt' = [rt EXCEPT ![r].phase = "deleted"]
                /\ last' = [last EXCEPT ![r] = None]
           ELSE UNCHANGED <<rt, last>>
    /\ UNCHANGED <<process, config, list, tasks, enqueued, freedUse, scopeVars,
                   promise>>

-----------------------------------------------------------------------------
(* Environment scopes: jsr_open_napi_env_scope, jsr_close_napi_env_scope.  *)

Current == lockers[Len(lockers)]

HasCurrentRuntime(r) == IF lockers = <<>> THEN FALSE ELSE Current.rt = r

\* openEnvScope adds a reference to the current locker, or puts a new one
\* before it.  The scope is the address of the current locker.
OpenEnvScope(r) ==
    /\ HostTurn
    /\ rt[r].wrapper
    /\ Len(handles) < MaxScope
    /\ IF HasCurrentRuntime(r)
       THEN /\ lockers' = [lockers EXCEPT ![Len(lockers)].refs = @ + 1]
            /\ handles' = Append(handles, Len(lockers))
       ELSE /\ lockers' = Append(lockers, [rt |-> r, refs |-> 1])
            /\ handles' = Append(handles, Len(lockers) + 1)
    /\ UNCHANGED <<process, config, envVars, rejVars>>

\* NodeApiIsolateLocker::Release.
Release == IF Current.refs = 1 THEN Front(lockers)
           ELSE [lockers EXCEPT ![Len(lockers)].refs = @ - 1]

\* closeEnvScope, for any scope the application has.  It fails for a scope
\* that is not the current one, and the application still has that scope.
CloseEnvScope(k) ==
    /\ HostTurn
    /\ handles[k] = Len(lockers)
    /\ lockers' = Release
    /\ handles' = RemoveAt(handles, k)
    /\ UNCHANGED <<process, config, envVars, rejVars>>

-----------------------------------------------------------------------------
(* Unhandled promise rejections.                                           *)

\* PromiseRejectCallback and SetUnhandledPromise: only the last is kept.
RejectPromise(r, q) ==
    /\ HostTurn
    /\ rt[r].wrapper
    /\ promise[q].rt = None
    /\ promise' = [promise EXCEPT ![q] = [rt |-> r, handled |-> FALSE]]
    /\ last' = [last EXCEPT ![r] = q]
    /\ UNCHANGED <<process, config, envVars, scopeVars>>

\* RemoveUnhandledPromise.
LastWithout_Mutant(r, q) == last

LastWithout(r, q) == [last EXCEPT ![r] = IF @ = q THEN None ELSE @]

\* PromiseRejectCallback, for a handler that is added after the rejection.
HandlePromise(r, q) ==
    /\ HostTurn
    /\ rt[r].wrapper
    /\ promise[q].rt = r /\ ~promise[q].handled
    /\ promise' = [promise EXCEPT ![q].handled = TRUE]
    /\ last' = LastWithout(r, q)
    /\ UNCHANGED <<process, config, envVars, scopeVars>>

\* getAndClearLastUnhandledPromiseRejection reads the rejection it gets
\* whether there is one or not.
GetAndClearLastRejection(r) ==
    /\ HostTurn
    /\ rt[r].wrapper
    /\ last' = [last EXCEPT ![r] = None]
    /\ process' = IF last[r] = None THEN "null" ELSE process
    /\ UNCHANGED <<config, envVars, scopeVars, promise>>

-----------------------------------------------------------------------------
EnvStep(e) ==
    \/ \E r \in Runtime : CreateRuntime(r, e) \/ CreateNodeApi(r, e)
    \/ EnqueueFinalizer(e)
    \/ RunFinalizer(e)
    \/ FinalizerThrows(e)
    \/ \E f \in Env : FinalizerEnqueues(e, f) \/ FinalizerCreates(e, f)
    \/ EndTask(e)
    \/ RemoveModuleEnv(e)
    \/ EndDelete(e)

RuntimeStep(r) ==
    \/ DeleteRuntime(r)
    \/ OpenEnvScope(r)
    \/ \E q \in Promise : RejectPromise(r, q) \/ HandlePromise(r, q)
    \/ GetAndClearLastRejection(r)

Next ==
    \/ SetTaskRunner
    \/ RunTask
    \/ UnrefModuleEnv
    \/ EndUnref
    \/ \E e \in Env : EnvStep(e)
    \/ \E r \in Runtime : RuntimeStep(r)
    \/ \E k \in 1..Len(handles) : CloseEnvScope(k)

Spec == Init /\ [][Next]_vars

\* A call of the API goes on, and the task runner runs what was posted to it.
InCall ==
    \/ UnrefModuleEnv
    \/ EndUnref
    \/ \E e \in Env : \/ RunFinalizer(e) \/ EndTask(e)
                      \/ RemoveModuleEnv(e) \/ EndDelete(e)

FairSpec == Spec /\ WF_vars(InCall) /\ WF_vars(RunTask)

-----------------------------------------------------------------------------
(***************************************************************************)
(* Properties.                                                             *)
(***************************************************************************)

(* Every variable has a value the code gives it; in particular no counter  *)
(* of references goes below zero or beyond the owner and the immediate.    *)
TypeOK ==
    /\ process \in {"running", "null", "runtime", "exit"}
    /\ \A r \in Runtime :
         /\ rt[r].phase \in {"none", "live", "deleted"}
         /\ list[r] \in Seq(Env)
         /\ last[r] \in Promise \cup {None}
    /\ \A e \in Env :
         /\ env[e].phase \in {"none", "live", "deleted"}
         /\ env[e].refs \in 0..2
         /\ env[e].pending \in 0..MaxFinalizer
    /\ tasks \in Seq(Env)
    /\ \A i \in 1..Len(calls) : calls[i].rest \in Seq(Env)
    /\ \A i \in 1..Len(lockers) : lockers[i].refs \in 1..MaxScope

(* A reference to an environment is that of its owner or that of the one   *)
(* immediate in the task runner's queue: the reference count is what they  *)
(* make together, so DeleteMe runs when both are gone, and only then.      *)
RefsAreOwnerAndImmediate ==
    process = "running" =>
        \A e \in Env :
            LET posted == Cardinality({i \in 1..Len(tasks) : tasks[i] = e})
            IN  /\ posted = IF env[e].scheduled THEN 1 ELSE 0
                /\ env[e].refs = posted + (IF env[e].owned THEN 1 ELSE 0)

(* The list of a live runtime names live environments only, and so does    *)
(* the copy the root goes through while finalizers run between its steps.  *)
ListedEnvsAreLive ==
    /\ \A r \in LiveRuntime :
         \A i \in 1..Len(list[r]) : Live(list[r][i])
    /\ \A k \in 1..Len(calls) :
         \A i \in 1..Len(calls[k].rest) : Live(calls[k].rest[i])

(* The teardown of the root lets go of every environment: one that the     *)
(* runtime leaves behind either waits for its immediate, or was created by *)
(* a finalizer of the teardown itself.                                     *)
OnlyScheduledEnvsAreLeft ==
    process = "running" =>
        \A e \in Env :
            Live(e) /\ rt[env[e].rt].phase = "deleted" =>
                env[e].scheduled \/ env[e].late

(* The queued finalizers of an environment that nobody deletes have an     *)
(* immediate that will run them, or are being run.                         *)
PendingHasImmediate ==
    process = "running" =>
        \A e \in Env :
            Live(e) /\ env[e].pending > 0 /\ ~env[e].destructing =>
                \/ \E i \in 1..Len(tasks) : tasks[i] = e
                \/ \E i \in 1..Len(calls) : calls[i].env = e

(* Every open scope is a reference to a locker that is still there, each   *)
(* locker has a scope, and two lockers in a row are for two runtimes.      *)
ScopesHoldLockers ==
    /\ \A k \in 1..Len(handles) : handles[k] \in 1..Len(lockers)
    /\ \A i \in 1..Len(lockers) :
         /\ lockers[i].refs =
              Cardinality({k \in 1..Len(handles) : handles[k] = i})
         /\ i > 1 => lockers[i].rt # lockers[i - 1].rt

(* Runtimes and environments come and go in any order and the books are    *)
(* kept: the references of an env are those of its owner and of its        *)
(* immediate, the lists name live envs, what a deleted runtime leaves      *)
(* behind waits for its immediate or was made during the teardown, queued  *)
(* finalizers have an immediate, and open scopes hold their lockers.       *)
EnvsAreAccountedFor ==
    /\ TypeOK
    /\ RefsAreOwnerAndImmediate
    /\ ListedEnvsAreLive
    /\ OnlyScheduledEnvsAreLeft
    /\ PendingHasImmediate
    /\ ScopesHoldLockers

(* The last unhandled rejection of a runtime is of a promise of its own    *)
(* that has no handler: one that is added later withdraws it.              *)
LastRejectionIsUnhandled ==
    \A r \in Runtime :
        last[r] # None =>
            promise[last[r]].rt = r /\ ~promise[last[r]].handled

(* jsr_delete_runtime deletes the runtime in the end, also when the root   *)
(* environment has to wait for its immediate.                              *)
DeletedRuntimeGoes ==
    \A r \in Runtime :
        (rt[r].phase = "live" /\ ~rt[r].wrapper) ~>
            (rt[r].phase = "deleted" \/ process # "running")

=============================================================================
