# A TLA+ specification of v8-jsi

v8-jsi packages the V8 engine behind two interfaces: Facebook's JSI (C++) and
Node-API (C, with the extra `jsr_*` functions of `js_runtime_api.h`). It adds an
inspector server so that a browser or an editor can debug the JavaScript.
The modules in this directory model the parts of it that keep state over time,
check them with TLC on small instances, and prove the central invariants with
TLAPS for every value of the constants. `PROJECT.json` lists components, runs,
mutants, hazards and theorems, and maps each definition to the source
lines it models. Paths below are relative to the repository's own `src/`.

## 1. Inventory

| Component | State | Operations | What is hard |
|---|---|---|---|
| Node-API references and finalizers (`node-api/js_native_api_v8.{h,cc}`, `NodeApiEnv` in `node-api/v8_api.cpp`) | two intrusive lists of trackers, the finalizer queue, instance data, the env's reference count, the scheduled flag | create, wrap, unwrap, ref, unref, delete, add/post finalizer, instance data; weak callbacks; the immediate; `DeleteMe` | user finalizers call back into the API in the middle of a drain, a collection or teardown; trackers delete themselves |
| Node-API calls (`js_native_api_v8.{h,cc}`) | last error, pending exception, open handle scopes, deferreds | every other call, callbacks, scopes | module, API and script nest; one pending exception for all frames; statuses that say what happened |
| C API runtime (`node-api/v8_api.cpp`) | list of environments, root env, isolate lockers, task runner | create/remove env, env scopes, immediates, deletion of the runtime | order of destruction; tasks that outlive their env; finalizers that create and delete envs meanwhile |
| Scripts (`V8JsiRuntime.cpp`, `v8_api.cpp`, `public/ScriptStore.h`) | buffers, external strings of V8, prepared scripts, the store | evaluate, prepare, run prepared, store, restart | stale caches, buffers with several owners, failing compilations |
| JSI runtime (`V8JsiRuntime.cpp`, `V8JsiRuntime_impl.h`, `IsolateData.h`) | platform, shared isolate and its user count, inspector slot, host object trackers, microtasks | construction, destruction, calls both ways, collection, microtasks | destruction order, collector inside the destructor, exceptions that cross languages |
| Unhandled rejections (`V8JsiRuntime.cpp`) | last unhandled promise | reject, handle later, query | order of reject and handle events |
| JSI over Node-API (`node-api-jsi/`) | pointer values with a count, scopes, pending deletions; the error that is built | clone, release (any thread), scopes; operations, host functions, errors | release on other threads; building an error runs script that fails |
| Inspector agent (`inspector/inspector_agent.cpp`) | session state, message queues, flags of the nested loop and of startup | `PostIncomingMessage` (I/O thread), `DispatchMessages` (JS thread), pause loop, `waitForDebugger`, `Stop` | two threads and two mutexes, reentrance, lost wake-ups, assertions on the state |
| TCP connection (`inspector/inspector_tcp.cpp`) | output queue, `writing_`, the buffer in flight, pending read | `write_async`, `do_write`, completion handlers, read loop, `close` | two writers and asynchronous completions; failed and aborted operations; the "magic" empty message |
| Socket server and protocol handlers (`inspector/inspector_socket_server.cpp`, `inspector_socket.cpp`) | servers by port, their threads, sessions, targets, the handler of a connection | `Start`, `Stop`, `Accept`, upgrade, frames, `OnEof`, HTTP requests | unsynchronised maps, objects that delete themselves in callbacks, frames split over reads |
| Conversions (`V8JsiRuntime.cpp`, `NodeApiJsiRuntime.cpp`, `jsi/jsi.cpp`, `inspector_utils.{h,cpp}`, `inspector_socket.cpp`) | none | BigInt text, array indices, UTF-8/16, frame lengths, SHA-1 padding, base64, hosts | boundaries of the forms |

How they interact. The JS thread runs JavaScript, addons, finalizers and the
tasks the host's task runner gives it. A `NodeApiEnv` posts its finalizer drain
through that task runner (`SetImmediate`), and the agent posts
`DispatchOnInspectorBackendTask` through it. One server thread per port runs
asio handlers; these call the agent (`StartSession`, `MessageReceived`,
`EndSession` all become `PostIncomingMessage`). In the other direction the JS
thread calls `InspectorSocketServer::Send`, and from there `write_async`.
`NodeApiJsiRuntime` is a client of the Node-API and of the C API; the C API is a
client of `V8Runtime`.

What makes each part correct, in one line: no pointer to freed memory and every
finalizer settled exactly once (references); an exception is in one place and a
status can be believed (calls); counts, lists and immediates agree until the
last env is gone (C API); the code that runs is that of the text, and the text
outlives it (scripts); host objects released once, isolate last (JSI runtime); a
live pointer finds its value, a dead one is deleted once, errors are never lost
(JSI over Node-API); messages processed in order, none forgotten, the agent's
view of its session true (agent); one owner of the buffer, FIFO delivery
(TCP); a target hears of a session in order, agents share servers (server).

## 2. Modules

| Module | Role |
|---|---|
| `NapiEnv` | references, finalizer queue and life of one environment |
| `FinalizerContract` | abstract: a finalizer is armed, then called once or cancelled; the env ends when all are settled; one that is detached from the env may be called later, once |
| `NapiEnvProofs` | theorems about `NapiEnv` |
| `NapiCalls` | the call protocol: statuses, pending exception, scopes, deferreds |
| `RuntimeEnvs` | several runtimes and environments, their teardown, env scopes, unhandled rejections |
| `ScriptStore` | scripts, their buffers, prepared scripts and the store over restarts |
| `JsiRuntime` | the runtimes of a thread, the isolate they share, host objects, calls and microtasks |
| `NodeApiPointers` | pointer values of JSI over Node-API, with other threads |
| `NodeApiJsi` | calls and errors of JSI over Node-API |
| `Conversions`, `Codecs` | pure algorithms on numbers and on texts |
| `InspectorAgent` | one debugging target: I/O thread, JS thread, sessions |
| `InspectorServer` | several agents, servers and clients; HTTP and WebSocket |
| `TcpConnection` | one connection: two writers, sends, reads, close |
| `MessageChannel` | abstract: a FIFO channel; implemented by `InspectorAgent` (posted → delivered) and by `TcpConnection` (queued → on the wire) |
| `NapiCallsProofs`, `InspectorAgentProofs`, `ScriptStoreProofs`, `RuntimeEnvsProofs`, `NodeApiJsiProofs` | theorems about the module in the name |
| `InspectorServerProofs` | theorems about `TcpConnection` and `InspectorServer` |
| `JsiProofs` | theorems about `NodeApiPointers` and `JsiRuntime` |
| `MC...` | instances for TLC, one per module above; `MCNodeApiJsi` also has the conversions |

Definitions named `..._Mutant` (or `..._KeepsFlag` and the like) are broken
variants of the definition that follows them. No specification uses them; they
show, one per property, that the property notices such a bug.

Where the code reaches undefined behaviour or ends the process, a model records
how in a variable (`faults`, `failure`, `process`, `fault`; in `NodeApiJsi` the part
`"crashed"` of a callback) and takes no
further step; the properties say what holds up to there.

### 2.1 NapiEnv

A C++ object derived from `RefTracker` is a record in `trk`, numbered in order
of creation. `Link` always puts a new tracker in front of its list, so a list is
the set of its members and its front is the largest number (`FinalizeFront`).
Freed memory stays in `trk` as `state = "deleted"`; a use of it adds its kind to
`faults` and stops the model (`pc = "aborted"`), since behaviour is undefined
from there.

All code runs on one thread. `pc` says what that thread does with the env:
`"run"` (addon or idle), `"drain"` (the immediate), the three phases of
`DeleteMe`, `"deleted"`. `fin` and `gcFin` name the tracker whose user finalizer
is on the stack, outside and inside a collection. While a finalizer is on the
stack every API call its guards allow may happen, which is how the real callback
behaves. `Preamble` and `CheckEnvNotInGC` are the code's guards
`NAPI_PREAMBLE` and `CHECK_ENV_NOT_IN_GC`.

The GC and JavaScript are external: an object that nothing reaches and no strong
handle holds may be collected, and its weak callbacks run before any other code
of the thread (V8's first-pass callbacks). `Primitive` stands for values that
cannot be held weakly, which only experimental envs may reference.

An external string is a tracker too (`TrackedStringResource`). V8 destroys it when
it drops the string, before or after the env: the destructor then calls the
callback (a `node_api_nogc_finalize`, which cannot call back, so that this is one
step), while teardown only detaches it (`env` becomes FALSE for `env_ == nullptr`),
and its callback is called without an env later. V8 is built without the sandbox
(`scripts/build.ps1:54`), so the external strings are not copied.

Assumption about addons: the reference `napi_wrap` returned is deleted only
after its finalizer was invoked or the wrap removed. The source states this rule
in `Wrap()`.

### 2.2 InspectorAgent

`stack` is the JS thread's stack of the agent's functions, so that reentrance of
`DispatchMessages` and nested message loops are what they are in the code. The
I/O thread takes `PostIncomingMessage` in three steps (append under `state_m`,
post the task and request the interrupt, notify), and the wait on the condition
variable in two (test, block), because the notification does not take the
waiter's mutex. Messages are the two tags and the three protocol messages the
code, or V8's pause, tells apart. `CHECK_EQ` and a null `session_` set `failure`.

`StopConnected` has the two outcomes of `Write` of the empty message: the
connection is closed on the JS thread, or later on the I/O thread.

### 2.3 TcpConnection

`write_async` and `do_write` are split where the mutex is released: push
(`WriteAsync`), claim (`DoWriteLocked`), send (`DoWriteSend`, or `DoWriteMagic`
for the empty message). `inFlight` are asynchronous sends whose handler has not
run. What the kernel transmits is the content of `messageToWrite` at that
moment, not what it was when the send started; that is what makes
`BufferHasOneSend` matter. `failure` is `"aborted"` for `std::abort()` and
`"freed"` for a use of the freed `TcpHolder` or connection.

### 2.4 NapiCalls

`stack` has the frames module callback, script, and so on. An API call is a
record of what decides its control flow: does it start with `NAPI_PREAMBLE`,
which statuses its argument checks have, can a conversion of an argument throw,
can it run JavaScript, and how it ends (`napi_clear_last_error` or
`GET_RETURN_STATUS`). Some thirty such records stand for all calls; the actions
are one per outcome (refused, invalid, quiet success, script entered, script
failed, thrown on purpose) plus those of scopes, deferreds, callbacks and
finalizers. `ConcludeDeferred` is several steps: `Resolve` reads `then` of the value,
whose getter is a script that may throw or call the module, and the deferred is
deleted after it. What the module can see of the end is the status and whether a new
exception is pending; a callback inside the conclusion can pass the same deferred
again, and then it is deleted twice (`"freed twice"`, which `StatusTells` sets apart).
Where an exception is (`fate`) and in which frame it became pending
(`raised`) are history variables.

### 2.5 RuntimeEnvs

`NapiEnv` has one environment in detail; here an environment is a count of
pending finalizers, and there are several of them and several runtimes. The
nested calls of teardown are in `calls`, since finalizers run between their
steps: the root walks a copy of the list (`Snapshot`), each module env is
released, drained and erased. `tasks` is the task runner's queue, `lockers` and
`handles` are the env scopes of the thread, `last` is the last unhandled rejection.

### 2.6 ScriptStore

All scripts have one URL and one length, which leaves V8's own check of a cache
nothing to tell them apart by; what does is the signature (hash and version).
`buf` has the owners of a buffer (host, prepared script, V8's external string),
`writes` what the host was given and has not written yet, and `Restart` brings
another process, possibly with another V8, that finds the store as it was.

### 2.7 JsiRuntime

The runtimes of one thread share an isolate that `usage` counts. Construction and
destruction are split where other code can run: a reset tracker releases a host
object, which releases pointers. `stack` has the calls in progress in both
directions and the microtask checkpoints, `exc` the exception on its way. The
operations `setValueAtIndexImpl` and `setPrototypeOf` are frames of the kind
`"ignores"`: they drop the result of V8 and the exception with it. The
collector may run at any time, inside the destructor too.

### 2.8 NodeApiPointers and NodeApiJsi

In `NodeApiPointers` only the count and the pending deletions are shared between
threads, so a step of the JS thread is what it does between two accesses to
them; `decRefCount` and the insertion into the pool are two steps of any thread.
`pointerKind` decides how `createNodeApiRef` works: the reference to a primitive is
one to an object that has it as a property, and setting that property fails while an
exception is pending. `throwing` says that one is: a callback threw, and its pointer
scope is swept after `napi_throw`. `failure` records how the process ended:
`"reference"` for that `CHECK_NAPI_ELSE_CRASH`, `"value"` for the check that `value_`
is not null, `"freed"` for what `deleteStackValue` does after `delete this` (it reads
and writes the freed instance, which may have no effect or any).

In `NodeApiJsi` an error is built in stages (`message`, `stack`, ...), each of which
reads a property and may run script, a host function and operations again. A
callback is in its `part`: code of the host (`"host"`), code of the host and accesses
to the target of a proxy, which may run script (`"trap"`), or neither (`"plain"`);
then it is `"leaving"`, with its scope still to be swept although the exception is
already pending, or has `"crashed"`. The constructor of `JsiValueViewArgs` is
`noexcept`, so an argument of a type it does not know ends the process: with the
default `JSI_VERSION` of 20 (`jsi/jsi.h:31`) there is none, below 8 a BigInt is one.

### 2.9 InspectorServer

Agents, each on the thread of its runtime, start and stop in the steps of
`AgentImpl::Start` and `Stop`; every server has an I/O thread whose handlers are
split where the JS thread can interfere. A client sends requests and frames in
halves and a read gets any beginning of what was sent, or fails (`ReadEof`, and
`ReadBroken` for the errors that are neither the end nor an abort, after which nobody
reads and nobody is told). Agents start and stop in any interleaving. `raced` records
that one was between `getServer` and `AddTarget` while another one was between the
`HasTargets` that found no target and `removeServer`; `cut` that a read ended within a
frame. Both lead to losses in the code, so the two properties they concern are
stated up to there.

### 2.10 Conversions and Codecs

Operators and their reference definitions: `bigintToString` (both copies),
`toArrayIndex`, frame lengths; `utf16toUTF8`, `decodeUTF8`, SHA-1 padding, base64,
`IsAllowedHost`. Widths are constants (half words of 16 values, indices up to 256),
texts are made of the units at the boundaries of the forms. The compression
function of SHA-1 is left out: a digest is the sequence of its blocks.

## 3. Runs

Deadlock is checked in `jsi_calls`, where the end of the process is a step of its own
(`ProcessEnded`). The other runs say `CHECK_DEADLOCK FALSE`, because what
they model really stops: the env or the runtime is deleted, the agent or the server
stops, the process ends.

| Run | Bounds | Distinct states | Properties |
|---|---|---|---|
| `napi_legacy` | 1 object, 3 trackers, refcount ≤ 2 | 835 000 | `NoDanglingTracker`, `NoReferenceFault`, `ReferencesHold`, `QueueHasImmediate`, `KeepsFinalizerContract` (refinement), `QueuedFinalizerServed`, `ReleasedEnvDeleted` |
| `napi_experimental` | the same and 1 primitive | 1 277 000 | `WeakCallbackTargetsLive`, `KeepsFinalizerContract` |
| `napi_calls` | 4 frames, 2 exceptions, 2 scopes, 1 deferred | 1 169 000 | `PendingExceptionIsSound`, `StatusTells`, `ScopeCheckHolds`, `OkMeansNoException` |
| `runtime_envs` | 2 runtimes, 3 envs, 2 finalizers, 3 scopes, 1 promise | 423 000 | `EnvsAreAccountedFor`, `LastRejectionIsUnhandled`, `DeletedRuntimeGoes` |
| `scripts` | 3 texts (1 not ASCII, 1 that does not compile), 2 versions, 1 restart, 2 nested runs | 1 700 000 | `CodeIsOfItsSource`, `BuffersOutliveUse` |
| `jsi_runtime` | 2 runtimes, 2 proxies, 3 nested calls, 1 microtask | 3 962 000 | `HostsReleasedOnce`, `IsolateOutlivesItsUsers`, `ExceptionCrosses` |
| `jsi_pointers` | 2 pointers, 1 thread beside the JS thread, 3 scopes, count ≤ 2 | 769 000 | `PointerKeepsValue`, `HandleInOpenScope`, `DeletedOnce`, `ReleasedIsDeleted` |
| `jsi_calls` | 7 frames, 2 exceptions, 2 URLs | 884 000 | `NoPendingExceptionInHost`, `StackIsSound`, `NoExceptionIsLost`, `ConversionsHold` |
| `inspector_agent` | 2 sessions in turn, 3 messages, pauses, with and without `waitForDebugger` | 401 000 | `QueuedMessageHasTask`, `SessionIsReal`, `DeliversInOrder` (refinement), `PostedIsDispatched` |
| `inspector_server` | 2 agents, 2 servers, 2 clients, 2 requests or frames | 2 342 000 | `SessionsAreTold` |
| `server_sharing` | 3 agents, 3 servers, 1 client, 1 request or frame | 405 000 | `ServersAreShared`, `StoppedThreadEnds` |
| `tcp_write` | 5 messages, two writers | 10 700 | `BufferHasOneSend`, `NoStrandedMessage`, `WritesInOrder` (refinement), `QueuedIsSent` |

Ten further configurations refute something the repository says; they are the subject
of a section below and no runs of `PROJECT.json`.

Several properties are conjunctions of named parts, each stated and commented in
its module, so that a counterexample can be narrowed down by naming a part as
the invariant:

| Property | Parts |
|---|---|
| `ReferencesHold` | a counted reference pins its object; a handle names an existing object |
| `PendingExceptionIsSound` | no script while an exception is pending; it belongs to the innermost native frame; exceptions are neither lost nor duplicated |
| `StatusTells` | a failure is the recorded last error; the status of concluding a deferred, with the exception that may come with it, tells whether it is gone |
| `EnvsAreAccountedFor` | references are those of owner and immediate; lists name live envs; what a runtime leaves behind has an immediate or is newer; queued finalizers have an immediate; scopes hold lockers |
| `CodeIsOfItsSource`, `BuffersOutliveUse` | what runs, what is stored; the text outlives V8's string, and goes with its last owner, once |
| `HostsReleasedOnce`, `IsolateOutlivesItsUsers` | trackers of weak handles, single release, release by the destructor, `isHostObject`; pointers before isolate, isolate while in use, agent in the slot |
| `DeletedOnce` | deletion by the last owner; one way to it; pending deletions outlive what can reach them |
| `StackIsSound` | one error at a time; flag, URL and scopes follow the C++ stack |
| `ConversionsHold` | four of `Conversions` (text of a BigInt of one word, array indices, the order of own keys, frame lengths) and five of `Codecs` |
| `SessionIsReal` | connected exactly with a session; one that ended has its disconnect on the way; the `CHECK_EQ` of the disconnect |
| `SessionsAreTold`, `ServersAreShared` | start, messages, end in order; texts as sent; no freed handler; listed with the registered server; one listener |

Each conjunction of state predicates also has the module's type invariant, except
where TLAPS proves it.

Why the bounds are enough. Three trackers on one object give every pair of
interacting trackers (wrap, plain reference, second finalizer, instance data,
posted finalizer) and a third that is created or deleted in between; a refcount
of 2 separates "first" from "any" `Ref`. An instance with two interchangeable
objects (6.3 million states) found nothing more and is not kept. Four frames are
callback, script, callback, script: an exception can pass a callback that has one
of its own below it. Three envs are a root, a module env and one that a finalizer
of the teardown makes. Two runtimes and two proxies let either runtime go first
with a pointer of one held by a host object of the other. Two pointers and one
worker give a release between any two steps of closing a scope, and a second
one while the pool is emptied. Seven frames reach an operation that fails below a
host function that a getter calls while an error is built. Two sessions
reach every handover from one frontend to the next, and three messages beside
the tags are more than one batch of `DispatchMessages`. Two agents and two
servers let an agent find a server that is being stopped; three agents and three
servers let one start while a second stops and a third goes on. Five messages let each
writer queue behind a send in flight twice and leave one for the empty message.

### Where the code disagrees with its comments and assertions

Each of the following configurations has one property, which states what a comment,
an assertion or a header of the repository says, and TLC finds it violated (`tlc
-config pointer_freed.cfg MCNodeApiPointers`, and so on). Bounds are those of the
module's run, or smaller. Up to such a step the properties of the table above
hold; where the code leaves both a harmless and a failing outcome possible, the model
has both.

| Configuration | Property | What the repository says, and what happens |
|---|---|---|
| `pointer_reference.cfg` | `NodeApiPointers!ScopeEndCreatesRef` | "we ensure that it has an associated `napi_ref` or we create one" (`NodeApiJsiRuntime.cpp:722`): a host callback keeps a string, symbol or BigInt and throws: its scope ends with the exception pending, and `createNodeApiRef` ends the process |
| `pointer_freed.cfg` | `NodeApiPointers!OwnerLeavesDeleted` | an owner sets its field to null if it "cannot delete the instance" (`NodeApiJsiRuntime.cpp:717`): `deleteStackValue` uses the instance after `delete this` |
| `jsi_error.cfg` | `JsiRuntime!JSErrorIsThrown` | a JSError "will be thrown by API functions whenever a JS operation causes an exception" (`jsi.h:1863`): `setValueAtIndex` and `setPrototypeOf` swallow the exception of a setter or a proxy |
| `bigint_text.cfg` | `MCNodeApiJsi!BigIntTextHolds` | "this BigInt converted to a String in base radix" (`jsi.h:896`): the text of a BigInt of more than one word is not the number: the quotient is stored one half word too high and the remainder is kept between digits |
| `thrown_value.cfg` | `NodeApiJsi!ThrownValueReachesHost` | `jsi.h:1863` again: an object with a message and no string as its stack reaches the host as a `JSINativeException`: `rewriteErrorMessage` tests the type of the message twice |
| `agent_connect.cfg` | `InspectorAgent!ConnectChecked` | the `CHECK_EQ` of `inspector_agent.cpp:629`: a connect of a second frontend on the same target violates `CHECK_EQ(kAccepting, state_)`; so does one that is queued when `Stop` runs |
| `agent_resume.cfg` | `InspectorAgent!ResumesWithFrontend` | "Resuming after frontend attached." (`inspector_agent.cpp:464`): a frontend that sends a message and detaches in the same batch lets `waitForDebugger` go on with a null session |
| `agent_stop.cfg` | `InspectorAgent!StopReturns` | the empty message "triggers the close callback" (`inspector_agent.cpp:475`): the disconnect's notification is lost and `Stop` never returns (under `FairSpec`) |
| `magic_abort.cfg` | `TcpConnection!MagicKeepsProcess` | it is handled "by closing the tcp connection" (`inspector_agent.cpp:474`): closing the socket aborts the pending read, whose handler ends the process |
| `magic_stays.cfg` | `TcpConnection!MagicEndsSession` | the same comment: after a failed send the empty message stays in the queue (under `FairSpec`) |

Two definitions of `NapiEnv` are refuted as well, when made the INVARIANT of
`napi_legacy.cfg` by hand. No text of the repository claims them in so many words, so
they have no configuration: `InstanceDataReadable` (a finalizer reads the instance
data after teardown freed it, as the finalizer of the `test_instance_data` addon may) and
`EnvNotUsedAfterDelete` (the immediate's `Unref()` deletes the env, and its next
statement drains it).

Others were met while modelling and have no definition of their own:

* `napi_reference_ref` returns `napi_ok` with the count 0 when the handle has been
  cleared; its comment promises an error (`js_native_api_v8.cc:2765`).
* A callback inside the conclusion of a deferred that passes the same deferred
  deletes it twice (`js_native_api_v8.cc:328`).
* `hostObjectOwnKeysTrap` tells keys apart by their instance, so that a symbol, or a
  name cloned from a `PropNameIDView`, may be given twice.
* `StringViewToUtf8` takes V8's one-byte strings, which are Latin-1, for UTF-8
  (`inspector_agent.cpp:47`).
* A cache that V8 rejects is never replaced in the store (`V8JsiRuntime.cpp:626`).
* Pointer values released after the runtime is deleted stay in the pool for ever:
  each holds a reference to the pending deletions it waits in
  (`NodeApiJsiRuntime.cpp:1194`).

Further hazards the models reach and stop at, beside those in `PROJECT.json`: a
replaced instance data deletes itself twice (`js_native_api_v8.cc:3484`); a task,
an interrupt or a message for a runtime that is gone (`inspector_agent.cpp:172`, `590`);
an empty message after the session ended (`inspector_tcp.cpp:133`); `delegate_`
reset under a handler, a target removed between two uses, the session map used
while it is destroyed (`inspector_socket_server.cpp:375`, `227`, `204`); a null
`isolate_data_` in the runtimes that did not make the isolate
(`V8JsiRuntime_impl.h:130`); microtasks of a dead runtime (`V8JsiRuntime.cpp:528`); an
exception of `getPropertyNames` (`V8JsiRuntime_impl.h:383`).

### Fairness

* `NapiEnv!FairSpec`: weak fairness of `Runtime`, that is: the task runner runs
  what was posted, V8 finishes a collection it began, finalizers return. Nothing
  is assumed of the addon, the collector's start, or the owner.
* `RuntimeEnvs!FairSpec`: weak fairness of the steps of a call in progress and of
  the task runner. Finalizers may enqueue others, up to the bound.
* `NodeApiPointers!Spec`: the host calls the runtime again when no scope is open,
  the steps of closing a scope go on, every scope is closed although others are
  opened inside it (strong fairness, per depth: a call returns), and a thread
  inside `decRefCount` finishes it. No release is assumed.
* `InspectorAgent!FairSpec`: both threads go on; scripts return; the task runner
  gets to a posted task although the host may keep running scripts (strong
  fairness of `RunTask`: it is enabled again and again, between scripts); the
  I/O thread gets to a close it was asked for between other handlers (strong
  fairness). No frontend is assumed to send or to resume anything. Two ways to wait
  for ever are real, and `PostedIsDispatched` sets them apart: a wake-up is lost in the
  wait of a pause or of `waitForDebugger`, and a pause in a script that a message
  evaluates, since `DispatchMessages` is not entered a second time.
* `InspectorServer!Spec`: the thread of a server is scheduled; nothing is assumed
  of agents and clients.
* `TcpConnection!FairSpec`: threads inside `write_async` go on, the kernel
  completes or fails an accepted send, and asio runs a ready handler although
  reads keep coming (strong fairness). Neither peers nor errors are fair.

## 4. Proofs

`tlapm` checks all of it; the proofs rest on the named assumptions
`...Assumption` of the modules, which TLC evaluates in the runs: bounds are
naturals; the model values that stand for "none" are not members of the sets they
extend; objects and primitives, and the kinds of owners of a buffer, are disjoint;
the runtimes of a thread are finitely many.
`MaxCountAssumption` lets a pointer's count reach 2, which the code's unbounded
counter does: with a bound of 1 no pointer could be cloned.

Each proof module has the same plan. `IInv` is the inductive invariant, a
conjunction of named parts; one lemma per action shows that the parts survive it;
`InitIInv` and `NextIInv` collect them, `Invariance` is their temporal
consequence, and each theorem follows from it. `IInv` was also checked as an
invariant of the module's run before it was proved.

**NapiEnvProofs**: `TypeCorrect`, `NoDanglingTrackerHolds`,
`WeakCallbackTargetsLiveHolds`, `QueueHasImmediateHolds`, `NoReferenceFaultHolds`,
`ReferencesHoldAlways` and `KeepsFinalizerContractHolds`, the refinement of
`FinalizerContract`, for any set of objects, any number of trackers and references
and both API versions. None of the invariants is inductive alone. `NoDanglingTracker` needs to know which
tracker is in which list (`ReflistKinds`), that trackers not yet created are
nowhere (`UnbornBeyondNext`), what a live or a deleted record looks like
(`TrackerShape`), that only trackers with a finalizer are queued
(`PendingKinds`) and that instance data is a `TrackedFinalizer`
(`InstanceDataKind`). `WeakCallbackTargetsLive` also needs what else can be
active while a collection owes callbacks (`CollectorState`). `QueueHasImmediate`
needs that the env's reference count is the owner's reference plus one per
immediate (`RefsBalance`). The inductive invariant `IInv` is the conjunction,
in two halves: `TrackerInv` about trackers and `ThreadInv` about the thread. It
is proved with one lemma per group of actions.

The last three theorems need a second layer, `HeapInv`, proved inductive on top of
`IInv` and checked by TLC for one and two objects before. It says of every tracker
that its handle is strong while the count is positive and that a handle on a
collected object is one the collector is about to clear (`HandleOK`); that a
callback which is still there was not called and is in the list teardown finalizes
first (`CallbackOK`); and that whoever waits for the collector, in the queue, or for
a finalizer on the stack has a dead object and, if it is a `kRuntime` Reference, is
still there to be deleted (`WaitingOK`). Of every object it says that its private
property goes with it and names, until teardown, a live Reference whose finalizer
was not called (`HeapObject`). The argument turns on two facts: a collected object
never comes back, because no call that reads a handle gets through while a
collection owes callbacks; and an object that the addon can reach is therefore not
the object of a Reference that is about to be freed, so that neither `napi_unwrap`
nor `napi_remove_wrap` meets a freed one. Each action lemma also shows that the step
is a `Register`, `Call`, `Cancel`, `Detach` or `End` of the contract, or none. A second
call would have the status `"called again"`, which no step of the contract leads to;
that none happens is `CallbackOK`. `End` is one because a finalizer still armed would
be in `finalizing_reflist`, which is empty by then. What
is said of `faults` is about References; the other uses of freed memory it records
are real (section 3).

**InspectorServerProofs**, about `TcpConnection`: `TypeCorrect`,
`BufferHasOneSendHolds`, `NoStrandedMessageHolds`, and `WritesInOrderHolds`, the
refinement of `MessageChannel`. The inductive invariant adds to the properties that
a send in flight, or a thread that owns the buffer, implies `writing_`
(`WritingGuards`); this is why a writer that sees the flag may leave its message
to somebody else. That somebody exists needs the converse as long as no send has
failed: the flag stands for a thread that owns the buffer or for a send whose handler
will go on (`WriterExists`), and a failed send shows in `broken` or in the closed
socket (`FailuresShow`). After a failed send messages are stranded, and the property
says nothing (`magic_stays.cfg` shows it).
The refinement needs in addition `OrderInv`: with `Taken` the
number of messages taken out of the queue, the message that a thread or a send
holds is number `Taken`, and the wire holds all before it, in order.

About `InspectorServer`, for any number of agents, servers, sessions and frames:
`ServersAreSharedHolds` and `SessionsAreToldHolds`. The invariant `SrvInv` has two
halves. `ShareInv` is about Start and Stop: what a server may be in each of its
states (`ServerOK`), that an agent between the two has a server that was not deleted
(`AgentOK`), that a stopped server has its delegate only while the agent that stopped
it has yet to reset it (`DelegateOK`), and, until the race, `Shared`: the registered
server is the one that runs and the one all agents up to their `RemoveTarget` use, it
lists the agents that accept, and once an agent found it without targets nobody uses
it and nothing else is registered. Agents may start and stop at the same time; that
the race is the only interleaving to be excluded is what the proof shows.
`FlowInv` is about what clients
send. A handler on the I/O thread has the connection to itself, and the upgrade is
the last event of the read it came in, since llhttp stops there (`HandlerOK`); that
is why the loop never goes on in the handler the upgrade destroyed. The halves of
frames are numbered: those on the wire are the end of what was sent (`WireOK`), those
a read took come right before them (`DataOK`), and twice the messages told is the
number of halves handled, but for a close frame, which is the last (`ProgressOK`,
`CloseIsLast`). A read that ends at an even number of halves leaves whole frames, so
only a session in `cut` can be misread. `ConOK` and `BracketOK` relate what a target
was told to the state of the connection. `TcpConnection` uses other names for its
specification (`TcpSpec`, `TcpTypeOK`) so that one module can extend both.

**NapiCallsProofs**: `PendingExceptionIsSoundHolds`, `StatusTellsHolds`,
`ScopeCheckHoldsAlways`, and the action property `OkMeansNoExceptionHolds`, for
stacks and scopes of any depth. Beside the properties, the invariant says that
native frames and scripts alternate on the stack, a native frame above the bottom
standing on a script (`StackInv`), that the env's counter agrees with V8's scopes
(`ScopeInv`), and that an exception which is being thrown belongs to a script
(`ThrownInScript`); and that a deferred which the module still has, or is concluding,
was not deleted, whatever scripts and callbacks ran inside the conclusion
(`StatusInv`): a return uncovers the frame below, so what the properties say
of the top must be known of all of them.

**JsiProofs**, about `NodeApiPointers`: `PointerKeepsValueHolds`, `HandleInOpenScopeHolds` and
`DeletedOnceHolds`, for any number of pointers and worker threads. The counts do
not suffice: the argument is who is responsible for a pointer whose count is
zero. Exactly one of these holds of it: a thread is between its decrement and its
insertion into the pool, the pool has it, or its entry of `stackValues_` has
been marked for deletion (`OneWayToDeletion`). `PointerInv` says what keeps an
instance in each of its states, and `PendingCount` that the pending deletions are
counted by the runtime and by every instance. Scopes nest: the marks of open
scopes ascend along `stackValues_`, and the handles in it are of scopes in
ascending order (`ScopeInv`). The two steps the code fails at are steps of the model:
the theorems say what holds until one of them ended the process, and that the third
check, of `value_`, never fails.

About `JsiRuntime`, for any number of runtimes, isolates, host objects and nested
calls: `HostsReleasedOnceHolds`, `IsolateOutlivesItsUsersHolds`, and the action
property `ExceptionCrossesHolds`. The invariant `JsiInv` has three parts. `IsoInv`:
the counter is the number of runtimes that use the isolate, an isolate has a number
no earlier one had (`IsolateCounted`), and the agent is held by exactly those
runtimes (`AgentHeld`). `HostInv`, of every proxy: its tracker is in the list of its
runtime until the loop of the destructor came to it, and from then on it was released
(`TrackedUntilReset`); a weak handle belongs to what was not released
(`WeakNotReleased`), so that neither the collector nor the destructor releases what
the other did; and who holds a pointer is the application, of a live runtime only, or
a host object that was not released (`HoldersThere`). When the last runtime has gone,
every list is empty, every host object is released and nobody is left to hold a
pointer: that is why none outlives the isolate. `RunInv`: C++ and JavaScript alternate
on the stack, a microtask stands on its checkpoint (`Nested`), and a C++ exception is
only in C++ (`ExceptionInPlace`), so that each return of an exception is one of the
crossings the property lists, the two operations that swallow it among them.

**InspectorAgentProofs**: `QueuedMessageHasTaskHolds`, `SessionIsRealHolds`, and
`DeliversInOrderHolds`, the refinement of `MessageChannel`. The first part of the
invariant is what may be on the JS thread's stack (`StackInv`): `DispatchMessages`
is there once exactly when `dispatching_messages_` is set, and the nested loop at
most once. Then, per session (`SessionInv`): what waits of it, in the batch
taken and in the queue, is in the order connect, messages, disconnect, and fits
how far the server and the agent are with it. This is why the `CHECK_EQ` of the
disconnect holds and that of a connect does not have to (section 3). The
refinement is then one equation, what was posted is what was delivered followed
by what waits.

**ScriptStoreProofs**: `CodeIsOfItsSourceHolds` and `BuffersOutliveUseHolds`. A
buffer's data is given back exactly when it has no owner (`BufferInv`), a string of
V8 on a buffer is one of its owners and has its text (`StringInv`), and so has a
prepared script (`PreparedInv`). What is stored, and what the host has yet to write,
fits its signature and ran to its end (`StoreInv`), also after a restart with
another version, since the version is part of the signature.

**RuntimeEnvsProofs**: `EnvsAreAccountedForHolds` and
`LastRejectionIsUnhandledHolds`, for any number of runtimes, environments,
finalizers and scopes. The counts follow from what each environment keeps
(`EnvOK`: it is being deleted exactly when its references are gone) and from the
queue of the task runner, which has an environment at most once (`TaskInv`). The
lists are the hard part, because finalizers run between the steps of a teardown
and may create environments, enqueue finalizers and end other deletions. `ListOK`
says that an environment is in the list of its runtime until its own deletion takes
it out, and that the runtime lets go of a module environment only after the root
took itself out; `CallOK` that the copy the root walks has live, owned environments
of its runtime; `CoverOK` that it has all of them but those created in the teardown;
`NestOK` that the deletion of a root is never inside another deletion, which is why
nothing is being deleted any more when the runtime goes. `LeftOK` and `DeletingOK`
say what may then be left. The scopes are counted on both sides (`ScopeInv`).

**NodeApiJsiProofs**: `NoPendingExceptionInHostHolds`, `StackIsSoundHolds`, and the
action property `NoExceptionIsLostHolds`, for stacks of any depth and any
exceptions and URLs. An operation that ends uncovers what is below it, so `StackInv`
says of the whole stack which frame may stand on which (`FramesNest`: an error is
built on a failed operation, a getter runs on an error in a stage that reads or
writes a property, and so on), that one error is built (`OneBuild`), and that the
`AutoRestore` of every operation has saved the URL of what is below (`SavedURLs`).
`Follow` relates the four fields of the runtime to the stack; it is shown once for a
frame that is pushed, popped or replaced, and the actions are combinations of these.
`ExceptionsInv` says where an exception may be while a given frame runs; beside the
operations and the building of an error that is a callback that is leaving, whose
scope is swept with the exception pending.

**Only model-checked**: the liveness properties (`QueuedFinalizerServed`,
`ReleasedEnvDeleted`, `DeletedRuntimeGoes`, `PostedIsDispatched`,
`ReleasedIsDeleted`, `QueuedIsSent`, `StoppedThreadEnds`), since fairness and
ENABLED are out of the prover's reach; and `ConversionsHold`, the algorithms of
`Conversions` and `Codecs`, which are folds over their input, so that a proof for
every input would be an induction over data. Every other property of a run is stated
by a theorem.

## 5. Abstractions and what is not modelled

* Values: objects, strings and numbers are named only where a property tells them
  apart. Node-API calls are modelled by their control flow (`NapiCalls`) except
  those of references and finalizers (`NapiEnv`).
* In `NapiEnv` a refused call changes no state and is no step, and the pending
  exception is not distinguished: that is the subject of `NapiCalls`. An env there
  is released once; several envs are the subject of `RuntimeEnvs`.
* `JsiRuntime` has one thread. The counter of the isolate's users is thread_local,
  so a runtime that is destroyed on another thread counts there
  (`V8JsiRuntime.cpp:461`); the header leaves that thread to the host.
* The counter of the isolate's users is a `uint16_t`. `CreateRuntime` is guarded by
  its largest value (`MaxUsage`): with 65536 runtimes at once on a thread the counter
  would wrap and the next one make a second isolate. The theorems say nothing of that.
* In `ScriptStore` the hash of a text tells texts apart.
* In the inspector: titles and urls, the text of HTTP replies, `FatalException`
  (nothing in the repository calls it), partial sends (`do_write` ignores how much
  `async_send` transmitted; the inspector is built for Windows, where an overlapped
  send completes whole), the close handshake
  (`OnCloseSent` is commented out), masking and the HTTP parser. The modules of the
  inspector meet in the queue of the agent and in the empty message.
* Array buffers and other users of `Finalizer` that are no trackers.
* asio, V8 and the kernel are external actions.
* Not modelled: instrumentation and tracing (pure output), MurmurHash (no reference
  definition in the repository), the test driver, and the vendored code: llhttp is
  generated, asio and the Node.js headers are third-party, and of JSI itself only
  `JSError` and the UTF-8 decoder are modelled, which the runtimes rely on. The
  default implementations of `jsr_*` functions in `node-api-jsi` only report that the
  function is missing.

## 6. Plan

Nothing within the prover's reach is left to prove of the properties stated.

Left to model: runtimes on several threads (the thread_local counter, the
`IsolateLocker` of `enableMultiThread`), runtime data of JSI, whose mutex is held
while script runs (`jsi.cpp`, `setRuntimeDataImpl`), and the composition of
`InspectorServer` with `InspectorAgent` beyond the tags.
