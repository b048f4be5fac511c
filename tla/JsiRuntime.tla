----------------------------- MODULE JsiRuntime -----------------------------
(***************************************************************************)
(* The V8 runtimes of one thread: the platform, the isolate they share,    *)
(* their contexts, the host objects and functions they lend to JavaScript  *)
(* and the microtasks JavaScript leaves behind.                            *)
(*                                                                         *)
(* Source: V8JsiRuntime.cpp, V8JsiRuntime_impl.h (V8Runtime,               *)
(* V8PlatformHolder, HostObjectLifetimeTracker, HostObjectProxy,           *)
(* HostFunctionProxy) and IsolateData.h.                                   *)
(*                                                                         *)
(* The thread runs C++ and JavaScript in turn: stack holds the calls of    *)
(* the runtime into JavaScript, the calls of JavaScript into the host, the *)
(* microtask checkpoints and the microtasks they run.  What C++ and        *)
(* JavaScript do between two such calls is any sequence of the operations  *)
(* below.  The garbage collector may run at any time.  Values, scripts and *)
(* the threads that enableMultiThread allows are left out.  V8 itself is   *)
(* external: which objects it may collect and when it runs microtasks.     *)
(***************************************************************************)
EXTENDS Naturals, Sequences, FiniteSets, SequencesExt

CONSTANTS
    Runtime,    \* the V8Runtime instances
    Proxy,      \* host objects, host functions and native states
    App,        \* the application, as the holder of a jsi::Pointer
    None,       \* no runtime or proxy
    MaxDepth,   \* bound: entries of stack
    MaxMicro    \* bound: queued microtasks

ASSUME NoneAssumption == None \notin Runtime \cup Proxy
ASSUME AppAssumption == App \notin Proxy
ASSUME FiniteAssumption == IsFiniteSet(Runtime)

VARIABLES
    process,    \* "running", or why the process ended
    platform,   \* is_initialized_s_ and is_disposed_s_
    usage,      \* tls_isolate_usage_counter_
    isolate,    \* the number and state of the current isolate
    rt,         \* per runtime: its phase, isolate_ and allocator
    list,       \* host_object_lifetime_tracker_list_
    px,         \* the proxies, and the JavaScript objects they are behind
    agent,      \* ISOLATE_INSPECTOR_SLOT, inspector_agent_ and its contexts
    stack,      \* the calls in progress, the innermost last
    exc,        \* the exception on its way: "none", "js" or "cpp"
    micro       \* external: the microtask queue, with each task's context

isoVars  == <<platform, usage, isolate, rt, agent>>
hostVars == <<list, px>>
runVars  == <<stack, exc, micro>>
jsiVars == <<process, isoVars, hostVars, runVars>>

Kind == {"plain", "object", "function", "state"}

Ending == {"platform", "runtime", "tracker", "null", "terminate"}

NoObject == [kind |-> "plain", rt |-> None, live |-> FALSE, heap |-> FALSE,
             held |-> {}, weak |-> FALSE, releases |-> 0]

JsiInit ==
    /\ process = "running"
    /\ platform = "none"
    /\ usage = 0
    /\ isolate = [no |-> 0, live |-> FALSE, explicit |-> FALSE]
    /\ rt = [r \in Runtime |-> [phase |-> "none", isolate |-> 0,
                                allocator |-> FALSE]]
    /\ list = [r \in Runtime |-> <<>>]
    /\ px = [p \in Proxy |-> NoObject]
    /\ agent = [slot |-> 0, holders |-> {}, contexts |-> {}]
    /\ stack = <<>>
    /\ exc = "none"
    /\ micro = <<>>

-----------------------------------------------------------------------------
(* Whose turn it is.                                                       *)

Phase(f) == {r \in Runtime : rt[r].phase = f}

InUse == Phase("live") \cup Phase("closing")

Top == stack[Len(stack)]

HostOnTop == IF stack = <<>> THEN TRUE ELSE Top.kind = "host"

\* C++ of the application or of a host object or function runs.
HostTurn ==
    /\ process = "running"
    /\ Phase("closing") = {}
    /\ exc = "none"
    /\ HostOnTop

\* The calls of the runtime into JavaScript: setValueAtIndexImpl and
\* setPrototypeOf ignore the Maybe that V8 returns, the others look at it.
Operation == {"js", "ignores"}

\* JavaScript of r's context runs.
JSOnTop(r) ==
    /\ process = "running"
    /\ stack # <<>>
    /\ Top.kind \in Operation \cup {"task"}
    /\ Top.rt = r

JSTurn(r) == JSOnTop(r) /\ exc = "none"

Frame(k, r, p, e) == [kind |-> k, rt |-> r, proxy |-> p, saved |-> e]

OnStack(r) == \E i \in 1..Len(stack) : stack[i].rt = r

Draining == \E i \in 1..Len(stack) : stack[i].kind = "drain"

-----------------------------------------------------------------------------
(* Runtimes, the isolate and the platform.                                 *)

\* The largest value of tls_isolate_usage_counter_, a uint16_t: bound, the
\* application has no more runtimes than that on a thread at a time.
MaxUsage == 65535

\* tls_isolate_usage_counter_++.
Counted == usage + 1

\* initializeV8: V8 starts once per process, and does not start again.
InitializePlatform == IF platform = "none" THEN "live" ELSE platform

\* CreateNewIsolate: the runtime makes an isolate, with an allocator of its
\* own.  A runtime that finds the counter above zero takes the one that is
\* there.
CreateNewIsolate == usage = 0

IsolateNumber == IF CreateNewIsolate THEN isolate.no + 1 ELSE isolate.no

\* The constructor.  The runtime makes the agent of the isolate, or shares
\* the one it finds in the slot, and adds its context.
CreateRuntime(r, explicit) ==
    /\ HostTurn
    /\ rt[r].phase = "none"
    /\ usage < MaxUsage
    /\ platform' = InitializePlatform
    /\ IF platform = "disposed"
       THEN /\ process' = "platform"
            /\ UNCHANGED <<usage, isolate, rt, agent>>
       ELSE /\ usage' = Counted
            /\ isolate' = [no |-> IsolateNumber, live |-> TRUE,
                           explicit |-> \/ explicit
                                        \/ ~CreateNewIsolate /\ isolate.explicit]
            /\ rt' = [rt EXCEPT ![r] = [phase |-> "live",
                                        isolate |-> IsolateNumber,
                                        allocator |-> CreateNewIsolate]]
            /\ agent' = [slot |-> IsolateNumber,
                         holders |-> agent.holders \cup {r},
                         contexts |-> agent.contexts \cup {r}]
            /\ UNCHANGED process
    /\ UNCHANGED <<hostVars, runVars>>

\* disposePlatform.  V8 wants every isolate to be gone.
DisposePlatform ==
    /\ HostTurn
    /\ platform = "live"
    /\ ~isolate.live
    /\ platform' = "disposed"
    /\ UNCHANGED <<process, usage, isolate, rt, agent, hostVars, runVars>>

\* removeContext.
ContextsWithout(r) == agent.contexts \ {r}

\* ~V8Runtime up to the loop over the trackers.  The application calls it on
\* the thread of the runtime, outside every call of it, when it holds no
\* pointer of the runtime any more: only host objects may.
DestroyRuntime(r) ==
    /\ HostTurn
    /\ rt[r].phase = "live"
    /\ ~OnStack(r)
    /\ \A p \in Proxy : px[p].rt = r => App \notin px[p].held
    /\ agent' = [agent EXCEPT !.contexts = ContextsWithout(r)]
    /\ rt' = [rt EXCEPT ![r].phase = "closing"]
    /\ UNCHANGED <<process, platform, usage, isolate, hostVars, runVars>>

\* IHostProxy::destroy and the tracker's Reset: the host object or function
\* goes, and with it the pointers it held.
Released(p) ==
    [x \in Proxy |->
        [px[x] EXCEPT !.held = @ \ {p},
                      !.weak = @ /\ x # p,
                      !.releases = IF x = p THEN @ + 1 ELSE @]]

\* isReset_.
IsReset_Mutant(p) == FALSE

IsReset(p) == px[p].releases > 0

\* ResetHostObject(false) for the next tracker: list is what the loop has left
\* to do, the trackers it has done are as good as gone.
ResetHostObject(r) ==
    /\ process = "running"
    /\ rt[r].phase = "closing"
    /\ list[r] # <<>>
    /\ list' = [list EXCEPT ![r] = Tail(@)]
    /\ px' = IF IsReset(Head(list[r])) THEN px ELSE Released(Head(list[r]))
    /\ UNCHANGED <<process, isoVars, runVars>>

\* The loop has come to the end of the list.
TrackersReset_Mutant(r) == TRUE

TrackersReset(r) == list[r] = <<>>

\* delete create_params_.array_buffer_allocator, by the runtime that disposed
\* of the isolate and for the allocator of its own, if it made one.
KeepsAllocator(r) == usage # 1 /\ rt[r].allocator

\* What is left when V8 has disposed of the isolate: no object and no weak
\* handle.  It calls no weak callback.
Disposed(p) == [px[p] EXCEPT !.live = FALSE, !.heap = FALSE, !.weak = FALSE]

\* The rest of ~V8Runtime.
FinishDestroy(r) ==
    /\ process = "running"
    /\ rt[r].phase = "closing"
    /\ TrackersReset(r)
    /\ list' = [list EXCEPT ![r] = <<>>]
    /\ usage' = usage - 1
    /\ rt' = [rt EXCEPT ![r].phase = "dead",
                        ![r].allocator = KeepsAllocator(r)]
    /\ IF usage = 1
       THEN /\ isolate' = [isolate EXCEPT !.live = FALSE]
            /\ agent' = [agent EXCEPT !.slot = 0, !.holders = @ \ {r}]
            /\ px' = [p \in Proxy |-> Disposed(p)]
            /\ micro' = <<>>
       ELSE /\ agent' = [agent EXCEPT !.holders = @ \ {r}]
            /\ UNCHANGED <<isolate, px, micro>>
    /\ UNCHANGED <<process, platform, stack, exc>>

-----------------------------------------------------------------------------
(* Host objects, host functions and native state.                          *)

\* A new JavaScript value with a pointer for the caller, and with the weak
\* handle of its tracker if there is a proxy behind it.
NewObject(p, r, k) ==
    [kind |-> k, rt |-> r, live |-> TRUE, heap |-> FALSE, held |-> {App},
     weak |-> k # "plain", releases |-> 0]

\* A value the runtime makes or returns gets a V8PointerValue.
MakePointer(r, p) ==
    /\ HostTurn
    /\ rt[r].phase = "live"
    /\ px[p].rt = None
    /\ px' = [px EXCEPT ![p] = NewObject(p, r, "plain")]
    /\ UNCHANGED <<process, isoVars, list, runVars>>

\* V8 could not make the string, object or function.
CreationFails(r) ==
    /\ HostTurn
    /\ rt[r].phase = "live"
    /\ exc' = "cpp"
    /\ UNCHANGED <<process, isoVars, hostVars, stack, micro>>

\* createPropNameIDFromAscii, FromUtf8, FromUtf16, FromString and FromSymbol.
CreatePropNameIDFrom(r, p) == MakePointer(r, p)

\* createStringFromAscii, FromUtf8 and FromUtf16.
CreateString(r, p) == MakePointer(r, p)

\* createValue, for what a property, a call or a script results in.
CreateValue(r, p) == MakePointer(r, p)

\* AddHostObjectLifetimeTracker.  The list only grows.
Tracked(r, p) == [list EXCEPT ![r] = Append(@, p)]

\* createObject(hostobject).
CreateHostObject(r, p) ==
    /\ HostTurn
    /\ rt[r].phase = "live"
    /\ px[p].rt = None
    /\ px' = [px EXCEPT ![p] = NewObject(p, r, "object")]
    /\ list' = Tracked(r, p)
    /\ UNCHANGED <<process, isoVars, runVars>>

\* isHostObject of r: the object has the internal field of a host object and
\* a tracker of r has its proxy.
IsHostObject(r, p) == px[p].kind = "object" /\ Contains(list[r], p)

\* getHostObject gives the host object that the proxy has not let go of.
HasHostObject(p) == px[p].releases = 0

CreateFunctionFromHostFunction(r, p) ==
    /\ HostTurn
    /\ rt[r].phase = "live"
    /\ px[p].rt = None
    /\ px' = [px EXCEPT ![p] = NewObject(p, r, "function")]
    /\ list' = Tracked(r, p)
    /\ UNCHANGED <<process, isoVars, runVars>>

\* setNativeState: an object gets a holder with a weak handle that no list
\* knows of.  nativeStateKey() is in isolate_data_, which only the runtime
\* that made the isolate has.
SetNativeState(p) ==
    /\ HostTurn
    /\ App \in px[p].held /\ px[p].kind = "plain"
    /\ IF rt[px[p].rt].allocator
       THEN /\ px' = [px EXCEPT ![p].kind = "state", ![p].weak = TRUE]
            /\ UNCHANGED process
       ELSE /\ process' = "null"
            /\ UNCHANGED px
    /\ UNCHANGED <<isoVars, list, runVars>>

\* A host object or function keeps a clone of a pointer.
KeepPointer(q, p) ==
    /\ HostTurn
    /\ px[q].kind \in {"object", "function"} /\ ~IsReset(q)
    /\ App \in px[p].held
    /\ px' = [px EXCEPT ![p].held = @ \cup {q}]
    /\ UNCHANGED <<process, isoVars, list, runVars>>

\* V8PointerValue::invalidate.
Invalidate(p) ==
    /\ HostTurn
    /\ App \in px[p].held
    /\ px' = [px EXCEPT ![p].held = @ \ {App}]
    /\ UNCHANGED <<process, isoVars, list, runVars>>

\* lockWeakObject, of a WeakObject made while the object was held: the object
\* may be there although nothing else leads to it.
LockWeakObject(p) ==
    /\ HostTurn
    /\ px[p].live
    /\ rt[px[p].rt].phase = "live"
    /\ px' = [px EXCEPT ![p].held = @ \cup {App}]
    /\ UNCHANGED <<process, isoVars, list, runVars>>

\* JavaScript stores the object it was given where its global object leads,
\* or forgets it.
StoreObject(p, b) ==
    /\ JSTurn(px[p].rt)
    /\ px[p].live
    /\ b => px[p].held # {}
    /\ px[p].heap # b
    /\ px' = [px EXCEPT ![p].heap = b]
    /\ UNCHANGED <<process, isoVars, list, runVars>>

\* A context lives as long as a runtime, a call or a microtask needs it.
ContextLives(r) ==
    \/ rt[r].phase = "live"
    \/ OnStack(r)
    \/ r \in Range(micro)

Rooted(p) ==
    \/ px[p].held # {}
    \/ px[p].heap /\ ContextLives(px[p].rt)
    \/ \E i \in 1..Len(stack) : stack[i].proxy = p

\* V8 collects an object nothing leads to and calls Destroyed, or the
\* callback of NativeStateHolder, with the address the weak handle has.
CollectGarbage(p) ==
    /\ process = "running"
    /\ px[p].live
    /\ ~Rooted(p)
    /\ IF px[p].weak /\ px[p].kind # "state" /\ ~Contains(list[px[p].rt], p)
       THEN /\ process' = "tracker"
            /\ UNCHANGED px
       ELSE /\ px' = [IF px[p].weak THEN Released(p) ELSE px
                         EXCEPT ![p].live = FALSE, ![p].heap = FALSE]
            /\ UNCHANGED process
    /\ UNCHANGED <<isoVars, list, runVars>>

-----------------------------------------------------------------------------
(* Calls between C++ and JavaScript, and their exceptions.                 *)

CallJS(r, k) ==
    /\ HostTurn
    /\ rt[r].phase = "live"
    /\ Len(stack) < MaxDepth
    /\ stack' = Append(stack, Frame(k, r, None, "none"))
    /\ UNCHANGED <<process, isoVars, hostVars, exc, micro>>

\* JavaScript enters the proxy behind an object it has.  Every callback uses
\* the runtime_ of the proxy as it is, whether the runtime is there or not.
EnterHost(p) ==
    /\ JSTurn(px[p].rt)
    /\ px[p].live /\ px[p].heap
    /\ Len(stack) < MaxDepth
    /\ IF rt[px[p].rt].phase = "dead"
       THEN /\ process' = "runtime"
            /\ UNCHANGED stack
       ELSE /\ stack' = Append(stack, Frame("host", None, p, "none"))
            /\ UNCHANGED process
    /\ UNCHANGED <<isoVars, hostVars, exc, micro>>

\* HostObjectProxy::Get, GetIndexed, Set, SetIndexed and Enumerator.
AccessHostObject(p) == px[p].kind = "object" /\ EnterHost(p)

\* HostFunctionCallback.
CallHostFunction(p) == px[p].kind = "function" /\ EnterHost(p)

\* The outermost call has ended: with the automatic policy V8 runs the
\* microtasks before the operation of the runtime goes on with e.
Leave(e) ==
    IF Len(stack) = 1 /\ ~isolate.explicit /\ micro # <<>>
    THEN /\ stack' = <<Frame("drain", Top.rt, None, e)>>
         /\ exc' = "none"
    ELSE /\ stack' = Front(stack)
         /\ exc' = e

ReturnFromJS ==
    /\ \E r \in Runtime : JSTurn(r)
    /\ IF Top.kind = "task"
       THEN stack' = Front(stack) /\ UNCHANGED exc
       ELSE Leave("none")
    /\ UNCHANGED <<process, isoVars, hostVars, micro>>

ThrowInJS ==
    /\ \E r \in Runtime : JSTurn(r)
    /\ exc' = "js"
    /\ UNCHANGED <<process, isoVars, hostVars, stack, micro>>

CatchInJS ==
    /\ \E r \in Runtime : JSOnTop(r)
    /\ exc = "js"
    /\ exc' = "none"
    /\ UNCHANGED <<process, isoVars, hostVars, stack, micro>>

\* An operation of the runtime has a TryCatch and throws what ReportException
\* makes of the exception (call, callAsConstructor, the evaluations), or
\* throws a JSError of its own (the properties by PropNameID).
ReportException_Mutant == "none"

ReportException == "cpp"

UnwindJS ==
    /\ \E r \in Runtime : JSOnTop(r)
    /\ exc = "js"
    /\ Top.kind = "js"
    /\ Leave(ReportException)
    /\ UNCHANGED <<process, isoVars, hostVars, micro>>

\* setValueAtIndexImpl and setPrototypeOf go on as if the value had been set.
\* What V8 has left of the exception may meet the JavaScript below when the
\* host returns to it, which throws it then (ThrowInJS).
SwallowException ==
    /\ \E r \in Runtime : JSOnTop(r)
    /\ exc = "js"
    /\ Top.kind = "ignores"
    /\ Leave("none")
    /\ UNCHANGED <<process, isoVars, hostVars, micro>>

\* getProperty by String, getValueAtIndex and getPropertyNames take the
\* result with ToLocalChecked: V8 ends the process when there is none.
ToLocalChecked ==
    /\ \E r \in Runtime : JSOnTop(r)
    /\ exc = "js"
    /\ Top.kind = "js"
    /\ process' = "terminate"
    /\ UNCHANGED <<isoVars, hostVars, runVars>>

\* V8 reports what a microtask throws and goes on.
UnwindTask ==
    /\ \E r \in Runtime : JSOnTop(r)
    /\ exc = "js"
    /\ Top.kind = "task"
    /\ stack' = Front(stack)
    /\ exc' = "none"
    /\ UNCHANGED <<process, isoVars, hostVars, micro>>

ReturnFromHost ==
    /\ HostTurn
    /\ stack # <<>>
    /\ stack' = Front(stack)
    /\ UNCHANGED <<process, isoVars, hostVars, exc, micro>>

ThrowInHost ==
    /\ HostTurn
    /\ stack # <<>>
    /\ exc' = "cpp"
    /\ UNCHANGED <<process, isoVars, hostVars, stack, micro>>

CatchInHost ==
    /\ process = "running"
    /\ exc = "cpp"
    /\ exc' = "none"
    /\ UNCHANGED <<process, isoVars, hostVars, stack, micro>>

\* The catch clauses of a callback throw a JavaScript exception.
ThrowToJS(k) ==
    /\ process = "running"
    /\ exc = "cpp"
    /\ stack # <<>>
    /\ px[Top.proxy].kind = k
    /\ stack' = Front(stack)
    /\ exc' = "js"
    /\ UNCHANGED <<process, isoVars, hostVars, micro>>

\* GetInternal and SetInternal.
UnwindAccessor == ThrowToJS("object")

\* HostFunctionProxy::call.
UnwindFunction == ThrowToJS("function")

\* Enumerator has no catch clause: the exception meets the frames of V8.
UnwindEnumerator ==
    /\ process = "running"
    /\ exc = "cpp"
    /\ stack # <<>>
    /\ px[Top.proxy].kind = "object"
    /\ process' = "terminate"
    /\ UNCHANGED <<isoVars, hostVars, runVars>>

-----------------------------------------------------------------------------
(* Microtasks.                                                             *)

\* queueMicrotask, or a promise reaction of JavaScript.
QueueMicrotask(r) ==
    /\ JSTurn(r) \/ (HostTurn /\ rt[r].phase = "live")
    /\ Len(micro) < MaxMicro
    /\ micro' = Append(micro, r)
    /\ UNCHANGED <<process, isoVars, hostVars, stack, exc>>

\* drainMicrotasks.  V8 starts no checkpoint inside another one.
DrainMicrotasks(r) ==
    /\ HostTurn
    /\ rt[r].phase = "live"
    /\ isolate.explicit /\ ~Draining
    /\ Len(stack) < MaxDepth
    /\ stack' = Append(stack, Frame("drain", r, None, "none"))
    /\ UNCHANGED <<process, isoVars, hostVars, exc, micro>>

RunMicrotask ==
    /\ process = "running"
    /\ stack # <<>>
    /\ Top.kind = "drain"
    /\ micro # <<>>
    /\ micro' = Tail(micro)
    /\ stack' = Append(stack, Frame("task", Head(micro), None, "none"))
    /\ UNCHANGED <<process, isoVars, hostVars, exc>>

EndCheckpoint ==
    /\ process = "running"
    /\ stack # <<>>
    /\ Top.kind = "drain"
    /\ micro = <<>>
    /\ stack' = Front(stack)
    /\ exc' = Top.saved
    /\ UNCHANGED <<process, isoVars, hostVars, micro>>

-----------------------------------------------------------------------------
RuntimeStep(r) ==
    \/ \E explicit \in BOOLEAN : CreateRuntime(r, explicit)
    \/ DestroyRuntime(r)
    \/ ResetHostObject(r)
    \/ FinishDestroy(r)
    \/ CreationFails(r)
    \/ \E k \in Operation : CallJS(r, k)
    \/ QueueMicrotask(r)
    \/ DrainMicrotasks(r)

ProxyStep(p) ==
    \/ \E r \in Runtime : \/ CreateHostObject(r, p)
                          \/ CreateFunctionFromHostFunction(r, p)
                          \/ CreatePropNameIDFrom(r, p)
                          \/ CreateString(r, p)
                          \/ CreateValue(r, p)
    \/ SetNativeState(p)
    \/ LockWeakObject(p)
    \/ \E q \in Proxy : KeepPointer(q, p)
    \/ Invalidate(p)
    \/ \E b \in BOOLEAN : StoreObject(p, b)
    \/ CollectGarbage(p)
    \/ AccessHostObject(p) \/ CallHostFunction(p)

JsiNext ==
    \/ DisposePlatform
    \/ \E r \in Runtime : RuntimeStep(r)
    \/ \E p \in Proxy : ProxyStep(p)
    \/ ReturnFromJS \/ ThrowInJS \/ CatchInJS \/ UnwindJS \/ UnwindTask
    \/ ReturnFromHost \/ ThrowInHost \/ CatchInHost
    \/ UnwindAccessor \/ UnwindFunction
    \/ SwallowException \/ ToLocalChecked \/ UnwindEnumerator
    \/ RunMicrotask \/ EndCheckpoint

JsiSpec == JsiInit /\ [][JsiNext]_jsiVars

-----------------------------------------------------------------------------
(***************************************************************************)
(* Properties.                                                             *)
(***************************************************************************)

(* Every variable of the runtimes, their proxies and the stack has a value *)
(* the code gives it.                                                      *)
JsiTypeOK ==
    /\ process \in Ending \cup {"running"}
    /\ platform \in {"none", "live", "disposed"}
    /\ usage \in 0..Cardinality(Runtime)
    /\ isolate.no \in 0..Cardinality(Runtime)
    /\ \A r \in Runtime :
         /\ rt[r].phase \in {"none", "live", "closing", "dead"}
         /\ list[r] \in Seq(Proxy)
    /\ \A p \in Proxy :
         /\ px[p].kind \in Kind
         /\ px[p].rt \in Runtime \cup {None}
         /\ px[p].held \subseteq Proxy \cup {App}
    /\ agent.holders \cup agent.contexts \subseteq Runtime
    /\ exc \in {"none", "js", "cpp"}
    /\ Range(micro) \subseteq Runtime

(* A weak handle V8 may call back has its tracker: whatever the order of   *)
(* collections and of the teardown that frees the list, Destroyed never    *)
(* gets the address of a freed HostObjectLifetimeTracker.                  *)
WeakHandleHasTracker ==
    /\ process # "tracker"
    /\ \A p \in Proxy :
         px[p].weak /\ px[p].kind # "state" => Contains(list[px[p].rt], p)

(* The host object or function behind a proxy is released once, by the     *)
(* collector or by the destructor of the runtime, although the list keeps  *)
(* the trackers of the objects V8 has collected.                           *)
HostReleasedOnce == \A p \in Proxy : px[p].releases <= 1

(* isHostObject tells the host objects: it is true of those of the runtime *)
(* that is asked, as long as JavaScript or a pointer leads to them, and    *)
(* getHostObject has a host object for whatever it is true of, also when   *)
(* the object is one of a runtime of the thread that is gone.              *)
HostObjectIsKnown ==
    \A r \in Phase("live"), p \in Proxy :
        px[p].live =>
            /\ px[p].rt = r /\ px[p].kind = "object" => IsHostObject(r, p)
            /\ IsHostObject(r, p) => HasHostObject(p)

(* What ~V8Runtime promises: when it is done, every host object and host   *)
(* function of the runtime is released.                                    *)
DeadRuntimeReleasesHosts ==
    \A p \in Proxy :
        px[p].kind \in {"object", "function"} =>
            (rt[px[p].rt].phase = "dead" => px[p].releases = 1)

(* A host object or function is released once, by the collector or by the  *)
(* destructor of its runtime, and always by the latter; a weak handle V8   *)
(* may call back has its tracker; and isHostObject knows the host objects  *)
(* of its runtime (HostObjectLifetimeTracker, V8JsiRuntime_impl.h:203).    *)
HostsReleasedOnce ==
    /\ JsiTypeOK
    /\ WeakHandleHasTracker
    /\ HostReleasedOnce
    /\ DeadRuntimeReleasesHosts
    /\ HostObjectIsKnown

(* No pointer outlives the isolate: the host objects of a runtime let go   *)
(* of the pointers they keep before Isolate::Dispose, also when they keep  *)
(* pointers of another runtime of the thread.                              *)
PointersGoBeforeIsolate == ~isolate.live => \A p \in Proxy : px[p].held = {}

(* The thread has an isolate exactly while a runtime uses it, each of them *)
(* uses that one, and the array buffer allocator it was made with is still *)
(* there, although the runtime that made it may go first.                  *)
IsolateServesItsRuntimes ==
    /\ isolate.live <=> InUse # {}
    /\ \A r \in InUse : rt[r].isolate = isolate.no
    /\ isolate.live =>
         \E r \in Runtime : rt[r].isolate = isolate.no /\ rt[r].allocator

(* ISOLATE_INSPECTOR_SLOT is a plain address: the agent behind it has an   *)
(* owner, and its contexts are those of the runtimes that can run scripts. *)
AgentFollowsRuntimes ==
    /\ agent.slot # 0 => agent.holders = InUse /\ agent.holders # {}
    /\ agent.contexts = Phase("live")

(* The isolate of the thread, its allocator and the agent in its slot are  *)
(* there while a runtime uses them, whichever runtime made them and        *)
(* whichever goes first, and no pointer outlives the isolate               *)
(* (V8Runtime::~V8Runtime, V8JsiRuntime.cpp:447).                          *)
IsolateOutlivesItsUsers ==
    /\ PointersGoBeforeIsolate
    /\ IsolateServesItsRuntimes
    /\ AgentFollowsRuntimes

(* An exception changes its form where it crosses between JavaScript and   *)
(* C++, also over the microtasks V8 runs before the operation goes on, and *)
(* ends only where someone catches it, with the microtask that threw it,   *)
(* or in setValueAtIndexImpl and setPrototypeOf (V8JsiRuntime.cpp:1254,    *)
(* 1435): no callback of a proxy and no other operation swallows it.       *)
ExceptionCrosses ==
    [][ exc # "none" /\ process' = "running" /\ stack' # stack =>
          \/ exc' # "none" /\ exc' # exc
          \/ Top.kind \in {"task", "ignores"} /\ exc = "js"
          \/ /\ stack' # <<>>
             /\ stack'[Len(stack')].kind = "drain"
             /\ stack'[Len(stack')].saved \in {"js", "cpp"} \ {exc} ]_jsiVars

(* What jsi.h:1863 says of JSError: the operation of the runtime that a    *)
(* JavaScript exception ends throws a C++ exception, at once or after the  *)
(* microtasks.  setValueAtIndexImpl and setPrototypeOf throw nothing.      *)
JSErrorIsThrown ==
    [][ /\ stack # <<>> /\ Top.kind \in Operation
        /\ exc = "js"
        /\ stack' # stack
        => \/ exc' = "cpp"
           \/ stack' # <<>> /\ stack'[Len(stack')].saved = "cpp" ]_jsiVars

=============================================================================
