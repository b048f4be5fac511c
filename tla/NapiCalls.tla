----------------------------- MODULE NapiCalls -----------------------------
(***************************************************************************)
(* The call protocol of the Node-API: the status of a call, the last       *)
(* error, the pending exception, and how both survive the nesting          *)
(*                                                                         *)
(*    module callback -> API call -> JavaScript -> module callback -> ...  *)
(*                                                                         *)
(* Source: node-api/js_native_api_v8.h (napi_env__, NAPI_PREAMBLE and the  *)
(* other macros, TryCatch), node-api/js_native_api_v8.cc (every API call   *)
(* but those of references and finalizers, which are in NapiEnv), and      *)
(* CallFinalizer and runTask of node-api/v8_api.cpp.                       *)
(*                                                                         *)
(* An API call is described by what decides its control flow: whether it   *)
(* starts with NAPI_PREAMBLE, the statuses of its argument checks, whether *)
(* a conversion of an argument may throw, whether V8 may run JavaScript,   *)
(* and the status it returns then.  Its values are left out.  V8 and the   *)
(* JavaScript are external: a script returns, throws, catches, or calls a  *)
(* function of the module; a garbage collection may run a finalizer.       *)
(***************************************************************************)
EXTENDS Naturals, Sequences, FiniteSets

CONSTANTS
    Exception,      \* the JavaScript exceptions
    NoException,    \* no exception (an empty handle)
    Deferred,       \* the napi_deferred handles
    Experimental,   \* module_api_version = NAPI_VERSION_EXPERIMENTAL
    MaxDepth,       \* bound: frames on the stack
    MaxScopes       \* bound: open handle scopes

ASSUME NoExceptionAssumption == NoException \notin Exception
ASSUME ExperimentalAssumption == Experimental \in BOOLEAN
ASSUME BoundsAssumption == MaxDepth \in Nat /\ MaxScopes \in Nat

VARIABLES
    stack,          \* the C++ and JavaScript frames, the newest last
    lastException,  \* napi_env__::last_exception
    lastError,      \* napi_env__::last_error.error_code
    openScopes,     \* napi_env__::open_handle_scopes
    scopes,         \* V8's open handle scopes, with their escape_called_
    destructing,    \* NodeApiEnv::m_isDestructing
    thrown,         \* the exception the running JavaScript is throwing
    deferred,       \* the persistent handle behind each napi_deferred
    process,        \* "running", or how the process ended
    result,         \* history: the last call that returned, and its status
    raised,         \* history: the frame an exception became pending in
    fate            \* history: where each exception is

callVars  == <<lastError, result>>
scopeVars == <<openScopes, scopes>>
vars == <<stack, lastException, lastError, openScopes, scopes, destructing,
          thrown, deferred, process, result, raised, fate>>

-----------------------------------------------------------------------------
(* The API calls.  A call record has                                       *)
(*   preamble  it starts with NAPI_PREAMBLE                                *)
(*   invalid   the statuses of its checks of arguments                     *)
(*   converts  the status when a conversion of an argument throws inside   *)
(*             the TryCatch of the call, "none" if no conversion can       *)
(*   js        V8 may run JavaScript during the call                       *)
(*   thrownAs  the status when that JavaScript throws                      *)
(*   refused   the status when V8 refuses without an exception             *)
(*   clears    a success ends in napi_clear_last_error, otherwise in       *)
(*             GET_RETURN_STATUS, which writes last_error only on failure  *)
(*   raises    the call throws on purpose: the status it then returns      *)

Call(name, preamble, invalid) ==
    [name |-> name, preamble |-> preamble, invalid |-> invalid,
     converts |-> "none", js |-> FALSE, thrownAs |-> "pending_exception",
     refused |-> "none", clears |-> ~preamble, raises |-> "none"]

\* No JavaScript and no preamble, so these also work while an exception is
\* pending: napi_create_object, napi_create_array ...
CreateValue == Call("create value", FALSE, {"invalid_arg"})

\* napi_create_double to napi_create_bigint_uint64, napi_get_boolean.
CreateNumber == Call("create number", FALSE, {"invalid_arg"})

\* napi_create_symbol and node_api_symbol_for, which makes a string first.
CreateSymbol == Call("create symbol", FALSE,
                     {"invalid_arg", "type_expected", "generic_failure"})

\* NewString and NewExternalString, for every encoding.
NewString == {"invalid_arg", "generic_failure"}

\* napi_create_string_* and node_api_create_external_string_*.
CreateString == Call("create string", FALSE, NewString)

\* napi_create_error and its three variants, with set_error_code.
CreateError == Call("create error", FALSE,
                    {"invalid_arg", "type_expected", "generic_failure"})

\* napi_typeof, napi_get_undefined, napi_get_null.
Inspect == Call("inspect", FALSE, {"invalid_arg"})

\* napi_get_cb_info and napi_get_new_target.
CallbackInfo == Call("callback info", FALSE, {"invalid_arg"})

GetGlobal == Call("global", FALSE, {"invalid_arg"})

IsError == Call("is error", FALSE, {"invalid_arg"})

IsPromise == Call("is promise", FALSE, {"invalid_arg"})

\* napi_get_value_external: a value that is no external is an invalid argument.
GetExternal == Call("get external", FALSE, {"invalid_arg"})

\* One of the few calls that a finalizer inside a collection may make.
AdjustExternalMemory == Call("external memory", FALSE, {"invalid_arg"})

\* napi_get_value_double, _int32, _uint32 and _int64.
GetNumber == Call("get number", FALSE, {"invalid_arg", "type_expected"})

\* napi_get_value_bigint_int64, _uint64 and _words, napi_get_value_bool.
GetBigInt == Call("get bigint", FALSE, {"invalid_arg", "type_expected"})

GetString == Call("get string", FALSE, {"invalid_arg", "type_expected"})

\* napi_is_arraybuffer and napi_is_typedarray, napi_get_arraybuffer_info.
ArrayBufferInfo == Call("array buffer info", FALSE, {"invalid_arg"})

\* napi_get_typedarray_info.
BufferInfo == Call("buffer info", FALSE, {"invalid_arg"})

\* napi_get_dataview_info, napi_get_version.
DataViewInfo == Call("data view info", FALSE, {"invalid_arg"})

DetachBuffer == Call("detach", FALSE, {"invalid_arg", "type_expected"})

SimpleCalls == {CreateValue, CreateNumber, CreateSymbol, CreateString,
                CreateError, Inspect, CallbackInfo, GetNumber, GetBigInt,
                GetString, BufferInfo, DataViewInfo, DetachBuffer, GetGlobal,
                IsError, IsPromise, GetExternal, AdjustExternalMemory,
                ArrayBufferInfo}

\* With a preamble, but without JavaScript: napi_get_array_length,
\* napi_strict_equals.
PlainWithPreamble == Call("plain", TRUE, {"invalid_arg", "type_expected"})

CreateArrayBuffer == Call("array buffer", TRUE, {"invalid_arg"})

\* napi_create_date, napi_is_date, napi_get_date_value.
Dates == Call("date", TRUE, {"invalid_arg", "type_expected", "generic_failure"})

\* FunctionCallbackWrapper::NewFunction with the CallbackBundle.
NewFunction == {"generic_failure"}

CreateFunction == Call("create function", TRUE,
                       {"invalid_arg"} \cup NewFunction)

\* CHECK_TO_OBJECT: null and undefined throw inside the TryCatch of the call
\* and the status is napi_object_expected.  Accessors and proxies run
\* JavaScript.
OnObject(name, invalid, refused) ==
    [Call(name, TRUE, invalid)
     EXCEPT !.converts = "type_expected", !.js = TRUE, !.refused = refused]

\* napi_set_property to napi_has_own_property.
KeyedProperty == OnObject("keyed", {"invalid_arg", "type_expected"},
                          "generic_failure")

\* napi_set_named_property to napi_get_named_property.
NamedProperty == OnObject("named", {"invalid_arg", "generic_failure"},
                          "generic_failure")

\* napi_set_element to napi_delete_element.
ElementAccess == OnObject("element", {"invalid_arg"}, "generic_failure")

\* napi_get_property_names and napi_get_all_property_names.
PropertyNames == OnObject("names", {"invalid_arg"}, "none")

\* The handler of a proxy is not asked for its prototype.
GetPrototype == [OnObject("prototype", {"invalid_arg"}, "none")
                 EXCEPT !.js = FALSE]

\* The name of a descriptor is made of its characters or is a value.
V8NameFromPropertyDescriptor == {"invalid_arg", "generic_failure",
                                 "type_expected"}

\* A property that cannot be defined is an invalid argument, no exception.
DefineProperties ==
    OnObject("define", V8NameFromPropertyDescriptor \cup NewFunction,
             "invalid_arg")

\* napi_define_class builds a template and hands its static properties to
\* napi_define_properties.
DefineClass == [DefineProperties EXCEPT !.name = "class", !.converts = "none"]

\* napi_object_freeze and napi_object_seal.
SetIntegrity == OnObject("integrity", {}, "generic_failure")

\* napi_type_tag_object and napi_check_object_type_tag, whose conversion is
\* CHECK_TO_OBJECT_WITH_PREAMBLE.
TypeTag == [Call("type tag", TRUE, {"invalid_arg"})
            EXCEPT !.converts = "pending_exception"]

\* napi_coerce_to_number, _string and _object: the conversion itself is what
\* throws, and the status names the type, not the exception.
Coerce ==
    [Call("coerce", TRUE, {"invalid_arg"})
     EXCEPT !.converts = "type_expected", !.js = TRUE,
            !.thrownAs = "type_expected"]

CallFunction ==
    [Call("call", TRUE, {"invalid_arg"}) EXCEPT !.js = TRUE, !.clears = TRUE]

\* napi_new_instance.
NewInstance == [CallFunction EXCEPT !.name = "new"]

\* napi_instanceof throws a TypeError with the API itself when the
\* constructor is not a function.
InstanceOf ==
    [OnObject("instanceof", {"invalid_arg"}, "none")
     EXCEPT !.clears = TRUE, !.raises = "type_expected"]

\* napi_run_script: CHECK_MAYBE_EMPTY, so an exception of the script is
\* reported as napi_generic_failure.
RunScript ==
    [Call("run script", TRUE, {"invalid_arg", "type_expected"})
     EXCEPT !.js = TRUE, !.thrownAs = "generic_failure"]

\* napi_throw and the four napi_throw_*_error: success leaves an exception
\* pending.
ThrowError ==
    [Call("throw", TRUE, {"invalid_arg", "generic_failure"})
     EXCEPT !.raises = "ok", !.clears = TRUE]

\* napi_create_typedarray: THROW_RANGE_ERROR_IF_FALSE.
CreateTypedArray ==
    [Call("typed array", TRUE, {"invalid_arg"})
     EXCEPT !.raises = "generic_failure"]

CreateDataView ==
    [Call("data view", TRUE, {"invalid_arg"})
     EXCEPT !.raises = "pending_exception"]

PreambleCalls ==
    {PlainWithPreamble, CreateArrayBuffer, GetPrototype, Dates,
     CreateFunction, KeyedProperty, NamedProperty,
     ElementAccess, PropertyNames, DefineProperties, DefineClass, SetIntegrity,
     TypeTag, Coerce, CallFunction, NewInstance, InstanceOf, RunScript,
     ThrowError, CreateTypedArray, CreateDataView}

-----------------------------------------------------------------------------
\* napi_status; the statuses that name the type an argument should have had
\* (napi_object_expected, napi_string_expected ...) are "type_expected".
Status == {"ok", "invalid_arg", "type_expected", "generic_failure",
           "pending_exception", "cannot_run_js", "escape_called_twice",
           "handle_scope_mismatch"}

Entry == {"function", "finalizer", "task"}

\* A module callback under CallIntoModule, with open_handle_scopes_before and
\* the scopes that were really open; or a script that an API call runs, with
\* the deferred that the call concludes, if it is one that does.
ModuleFrame == [kind : {"module"}, entry : Entry, before : 0 .. MaxScopes,
                depth : 0 .. MaxScopes]
ScriptFrame == [kind : {"script"}, thrownAs : Status, clears : BOOLEAN,
                concludes : SUBSET Deferred]

Top == stack[Len(stack)]
Pop == SubSeq(stack, 1, Len(stack) - 1)

\* Native code runs: the host below the stack, or a callback on top of it.
Running == IF stack = <<>> THEN "module" ELSE Top.kind
Native == process = "running" /\ Running = "module"
Script == process = "running" /\ Running = "script"

\* The host takes a pending exception before it returns to its event loop or
\* deletes the environment (NodeApiJsiRuntime does after every failed call).
Idle == process = "running" /\ stack = <<>> /\ lastException = NoException

\* The module's own scopes are those above the ones its frame started with.
OwnScopes == Len(scopes) - (IF stack = <<>> THEN 0 ELSE Top.depth)

Return(status) ==
    /\ lastError' = status
    /\ result' = [status |-> status, throws |-> FALSE]

\* ~TryCatch: what the call caught becomes the pending exception.
Pend(e, frame) ==
    /\ lastException' = e
    /\ raised' = frame
    /\ fate' = [fate EXCEPT ![e] = "pending"]

Settle(e) == fate' = [fate EXCEPT ![e] = "idle"]

\* NAPI_PREAMBLE, up to the TryCatch.
Preamble ==
    IF lastException # NoException THEN "pending_exception"
    ELSE IF ~destructing THEN "ok"
    ELSE IF Experimental THEN "cannot_run_js" ELSE "pending_exception"

-----------------------------------------------------------------------------
(* Calls that end without running JavaScript.                              *)

quietly == <<stack, scopeVars, destructing, thrown, deferred, process>>

SimpleCall(c) ==
    /\ Native
    /\ \E s \in {"ok"} \cup c.invalid : Return(s)
    /\ UNCHANGED <<quietly, lastException, raised, fate>>

\* napi_get_last_error_info is the one call that leaves the last error alone.
GetLastErrorInfo ==
    /\ Native
    /\ result' = [status |-> "ok", throws |-> FALSE]
    /\ UNCHANGED <<quietly, lastException, raised, fate, lastError>>

RefuseCall(c) ==
    /\ Native
    /\ Preamble # "ok"
    /\ Return(Preamble)
    /\ UNCHANGED <<quietly, lastException, raised, fate>>

RejectArgument(c) ==
    /\ Native
    /\ Preamble = "ok"
    /\ \E s \in c.invalid : Return(s)
    /\ UNCHANGED <<quietly, lastException, raised, fate>>

\* CHECK_TO_TYPE: the conversion throws and returns the status of the check.
ConversionThrows(c, e) ==
    /\ Native
    /\ Preamble = "ok"
    /\ c.converts # "none"
    /\ fate[e] = "idle"
    /\ Return(c.converts)
    /\ Pend(e, Len(stack))
    /\ UNCHANGED quietly

\* The call throws on purpose, inside its own TryCatch.
Raise(c, e) ==
    /\ Native
    /\ Preamble = "ok"
    /\ c.raises # "none"
    /\ fate[e] = "idle"
    /\ lastError' = c.raises
    /\ result' = [status |-> c.raises, throws |-> c.raises = "ok"]
    /\ Pend(e, Len(stack))
    /\ UNCHANGED quietly

Complete(c) ==
    /\ Native
    /\ Preamble = "ok"
    /\ c.raises # "ok"
    /\ \E s \in {"ok", c.refused} \ {"none"} : Return(s)
    /\ UNCHANGED <<quietly, lastException, raised, fate>>

\* napi_get_and_clear_last_exception; undefined if there is none.
TakeException ==
    /\ Native
    /\ Return("ok")
    /\ lastException' = NoException
    /\ IF lastException = NoException THEN UNCHANGED fate
                                      ELSE Settle(lastException)
    /\ UNCHANGED <<quietly, raised>>

-----------------------------------------------------------------------------
(* Calls during which V8 runs JavaScript.                                  *)

EnterScript(c) ==
    /\ Native
    /\ Preamble = "ok"
    /\ c.js
    /\ Len(stack) < MaxDepth
    /\ stack' = Append(stack, [kind |-> "script", thrownAs |-> c.thrownAs,
                               clears |-> c.clears, concludes |-> {}])
    /\ Return("ok")
    /\ UNCHANGED <<lastException, raised, fate, scopeVars, destructing, thrown,
                   deferred, process>>

ScriptThrows(e) ==
    /\ Script
    /\ thrown = NoException
    /\ fate[e] = "idle"
    /\ thrown' = e
    /\ fate' = [fate EXCEPT ![e] = "thrown"]
    /\ UNCHANGED <<stack, lastException, raised, callVars, scopeVars,
                   destructing, deferred, process>>

ScriptCatches ==
    /\ Script
    /\ thrown # NoException
    /\ thrown' = NoException
    /\ Settle(thrown)
    /\ UNCHANGED <<stack, lastException, raised, callVars, scopeVars,
                   destructing, deferred, process>>

\* GET_RETURN_STATUS returns napi_ok and does not clear the last error: what
\* a callback of the module failed with in the meantime stays there.
ScriptReturns ==
    /\ Script
    /\ Top.concludes = {}
    /\ thrown = NoException
    /\ stack' = Pop
    /\ result' = [status |-> "ok", throws |-> FALSE]
    /\ lastError' = IF Top.clears THEN "ok" ELSE lastError
    /\ UNCHANGED <<lastException, raised, fate, scopeVars, destructing, thrown,
                   deferred, process>>

ScriptFails_Mutant ==
    /\ Script
    /\ Top.concludes = {}
    /\ thrown # NoException
    /\ stack' = Pop
    /\ Return(IF Top.clears THEN "ok" ELSE Top.thrownAs)
    /\ Pend(thrown, Len(stack) - 1)
    /\ thrown' = NoException
    /\ UNCHANGED <<scopeVars, destructing, deferred, process>>

ScriptFails ==
    /\ Script
    /\ Top.concludes = {}
    /\ thrown # NoException
    /\ stack' = Pop
    /\ Return(Top.thrownAs)
    /\ Pend(thrown, Len(stack) - 1)
    /\ thrown' = NoException
    /\ UNCHANGED <<scopeVars, destructing, deferred, process>>

\* The experimental version runs finalizers inside the collection: CallFinalizer
\* calls them without CallIntoModule, and they may only use calls that do not
\* touch the heap, each of which writes the last error.
GcFinalizer ==
    /\ Script
    /\ Experimental
    /\ \E s \in {"ok", "invalid_arg"} : lastError' = s
    /\ UNCHANGED <<stack, lastException, raised, fate, scopeVars, destructing,
                   thrown, deferred, process, result>>

-----------------------------------------------------------------------------
(* CallIntoModule: a function called from a script, a queued finalizer or  *)
(* a task of the host.                                                     *)

CallIntoModule(entry) ==
    /\ Len(stack) < MaxDepth
    /\ stack' = Append(stack, [kind |-> "module", entry |-> entry,
                               before |-> openScopes,
                               depth |-> Len(scopes)])
    /\ Return("ok")
    /\ UNCHANGED <<lastException, raised, fate, scopeVars, destructing, thrown,
                   deferred, process>>

ScriptCallsModule ==
    /\ Script
    /\ thrown = NoException
    /\ CallIntoModule("function")

RunFinalizer == Idle /\ CallIntoModule("finalizer")

RunTask == Idle /\ ~destructing /\ CallIntoModule("task")

\* A callback closes the scopes it opened before it returns.
CallbackEnds ==
    /\ Native
    /\ stack # <<>>
    /\ OwnScopes = 0
    /\ UNCHANGED <<callVars, scopeVars, destructing, deferred>>

\* CHECK_EQ(open_handle_scopes, open_handle_scopes_before), then "next".
CheckScopes(next) ==
    process' = IF openScopes # Top.before THEN "check failed" ELSE next

CallbackReturns ==
    /\ CallbackEnds
    /\ lastException = NoException
    /\ stack' = Pop
    /\ CheckScopes(process)
    /\ UNCHANGED <<lastException, raised, fate, thrown>>

CallbackRethrows_Mutant ==
    /\ CallbackEnds
    /\ lastException # NoException
    /\ ~destructing
    /\ Top.entry # "finalizer"
    /\ stack' = Pop
    /\ lastException' = lastException
    /\ IF Top.entry = "function"
          THEN /\ thrown' = lastException
               /\ fate' = [fate EXCEPT ![lastException] = "thrown"]
          ELSE Settle(lastException) /\ UNCHANGED thrown
    /\ CheckScopes(process)
    /\ UNCHANGED raised

\* The exception of a function is thrown in the script that called it; that
\* of a task is thrown with no script below, and V8 reports it.  The handlers
\* drop it when terminatedOrTerminating, but nothing in the repository
\* terminates an execution, and no call throws once the environment is
\* destructing.
CallbackRethrows ==
    /\ CallbackEnds
    /\ lastException # NoException
    /\ ~destructing
    /\ Top.entry # "finalizer"
    /\ stack' = Pop
    /\ lastException' = NoException
    /\ IF Top.entry = "function"
          THEN /\ thrown' = lastException
               /\ fate' = [fate EXCEPT ![lastException] = "thrown"]
          ELSE Settle(lastException) /\ UNCHANGED thrown
    /\ CheckScopes(process)
    /\ UNCHANGED raised

\* TriggerFatalException ends the process.
FinalizerThrows ==
    /\ CallbackEnds
    /\ lastException # NoException
    /\ ~destructing
    /\ Top.entry = "finalizer"
    /\ CheckScopes("fatal")
    /\ UNCHANGED <<stack, lastException, raised, fate, thrown>>

\* NodeApiEnv::DeleteMe starts; the queued finalizers run after it.
BeginDestruct ==
    /\ Idle
    /\ ~destructing
    /\ scopes = <<>>
    /\ destructing' = TRUE
    /\ UNCHANGED <<stack, lastException, raised, fate, callVars, scopeVars,
                   thrown, deferred, process>>

-----------------------------------------------------------------------------
(* Handle scopes.  V8 closes them in the reverse of the order they were    *)
(* opened in; a callback closes only its own.                              *)

withoutScopes == <<stack, lastException, raised, fate, destructing, thrown,
                   deferred, process>>

OpenScope(kind) ==
    /\ Native
    /\ Len(scopes) < MaxScopes
    /\ scopes' = Append(scopes, kind)
    /\ openScopes' = openScopes + 1
    /\ Return("ok")
    /\ UNCHANGED withoutScopes

CloseScope_Mutant ==
    /\ Native
    /\ OwnScopes > 0
    /\ openScopes' = IF scopes[Len(scopes)] = "escaped" THEN openScopes
                     ELSE openScopes - 1
    /\ scopes' = SubSeq(scopes, 1, Len(scopes) - 1)
    /\ Return("ok")
    /\ UNCHANGED withoutScopes

\* napi_close_handle_scope and napi_close_escapable_handle_scope.
CloseScope ==
    /\ Native
    /\ OwnScopes > 0
    /\ openScopes' = openScopes - 1
    /\ scopes' = SubSeq(scopes, 1, Len(scopes) - 1)
    /\ Return("ok")
    /\ UNCHANGED withoutScopes

\* With no open scope the call returns before it touches the handle, and
\* before it records the status.
CloseNoScope ==
    /\ Native
    /\ openScopes = 0
    /\ result' = [status |-> "handle_scope_mismatch", throws |-> FALSE]
    /\ UNCHANGED <<withoutScopes, scopeVars, lastError>>

\* EscapableHandleScopeWrapper::Escape sets escape_called_.
Escape == scopes' = [scopes EXCEPT ![Len(scopes)] = "escaped"]

EscapeHandle ==
    /\ Native
    /\ OwnScopes > 0
    /\ \/ /\ scopes[Len(scopes)] = "escapable"
          /\ Escape
          /\ Return("ok")
       \/ /\ scopes[Len(scopes)] = "escaped"
          /\ Return("escape_called_twice")
          /\ UNCHANGED scopes
    /\ UNCHANGED <<withoutScopes, openScopes>>

-----------------------------------------------------------------------------
(* Promises.  A module that is told that concluding a deferred failed      *)
(* keeps it and tries again.  "held", "concluding" and "spent" are the     *)
(* module's view, "open" and "freed" the memory.  A callback that runs     *)
(* inside the conclusion of a deferred may pass the same deferred again,   *)
(* as nothing has told it otherwise: "reentered".                          *)

withoutDeferred == <<stack, lastException, raised, fate, destructing, thrown,
                     scopeVars, process>>

CreatePromise(d) ==
    /\ Native
    /\ Preamble = "ok"
    /\ deferred[d] = [memory |-> "none", module |-> "none"]
    /\ deferred' = [deferred EXCEPT ![d] = [memory |-> "open",
                                            module |-> "held"]]
    /\ Return("ok")
    /\ UNCHANGED withoutDeferred

\* delete deferred_ref
Deleted(d) == IF deferred[d].memory = "open" THEN "freed" ELSE "freed twice"

\* The module's view when the deferred is gone, for one that saw it as "view".
After(d, view) == IF deferred[d].module = view THEN "spent" ELSE "reentered"

\* What the module can see: napi_ok and napi_generic_failure, and any status
\* that comes with an exception that was not pending before the call.
ToldGone(status) ==
    \/ status \in {"ok", "generic_failure"}
    \/ lastException' # lastException

Conclude(d, memory, status, view) ==
    deferred' = [deferred EXCEPT ![d] =
       [memory |-> memory,
        module |-> IF ToldGone(status) THEN After(d, view)
                   ELSE deferred[d].module]]

\* The handles the module may pass.
Passes(d) == Native /\ deferred[d].module \in {"held", "concluding"}

\* napi_resolve_deferred and napi_reject_deferred when V8 runs no script.  The
\* handle is deleted whether or not V8 accepts the value, but not when the
\* preamble or the check of the value returns first.
ConcludeDeferred(d) ==
    /\ Passes(d)
    /\ UNCHANGED withoutDeferred
    /\ \/ /\ Preamble # "ok"
          /\ Return(Preamble)
          /\ Conclude(d, deferred[d].memory, Preamble, "held")
       \/ /\ Preamble = "ok"
          /\ Return("invalid_arg")
          /\ Conclude(d, deferred[d].memory, "invalid_arg", "held")
       \/ /\ Preamble = "ok"
          /\ \E s \in {"ok", "generic_failure"} :
                Return(s) /\ Conclude(d, Deleted(d), s, "held")

\* Resolver::Resolve reads the property "then" of an object, which may be a
\* getter: a script runs while the handle is still there.
ResolveRunsScript(d) ==
    /\ Passes(d)
    /\ Preamble = "ok"
    /\ Len(stack) < MaxDepth
    /\ stack' = Append(stack, [kind |-> "script", clears |-> FALSE,
                               thrownAs |-> "pending_exception",
                               concludes |-> {d}])
    /\ deferred' = [deferred EXCEPT ![d].module =
          IF @ = "held" THEN "concluding" ELSE "reentered"]
    /\ Return("ok")
    /\ UNCHANGED <<lastException, raised, fate, scopeVars, destructing, thrown,
                   process>>

ConcludeEnds_Mutant(d) ==
    /\ Script
    /\ Top.concludes = {d}
    /\ stack' = Pop
    /\ \/ /\ \/ thrown = NoException /\ UNCHANGED fate
             \/ thrown # NoException /\ Settle(thrown)
          /\ \/ /\ result' = [status |-> "ok", throws |-> FALSE]
                /\ UNCHANGED lastError
             \/ thrown = NoException /\ Return("generic_failure")
          /\ UNCHANGED <<lastException, raised>>
          /\ Conclude(d, Deleted(d), result'.status, "concluding")
       \/ /\ thrown # NoException
          /\ Pend(thrown, Len(stack) - 1)
          /\ Return("pending_exception")
          /\ Conclude(d, deferred[d].memory, "pending_exception", "concluding")
    /\ thrown' = NoException
    /\ UNCHANGED <<scopeVars, destructing, process>>

\* V8 makes what the getter throws the reason of a rejection, and the call
\* succeeds; if the TryCatch of the call has seen the exception all the same,
\* GET_RETURN_STATUS reports it and it becomes pending.  The handle is deleted
\* on every way out.
ConcludeEnds(d) ==
    /\ Script
    /\ Top.concludes = {d}
    /\ stack' = Pop
    /\ \/ /\ \/ thrown = NoException /\ UNCHANGED fate
             \/ thrown # NoException /\ Settle(thrown)
          /\ \/ /\ result' = [status |-> "ok", throws |-> FALSE]
                /\ UNCHANGED lastError
             \/ thrown = NoException /\ Return("generic_failure")
          /\ UNCHANGED <<lastException, raised>>
       \/ /\ thrown # NoException
          /\ Pend(thrown, Len(stack) - 1)
          /\ Return("pending_exception")
    /\ Conclude(d, Deleted(d), result'.status, "concluding")
    /\ thrown' = NoException
    /\ UNCHANGED <<scopeVars, destructing, process>>

-----------------------------------------------------------------------------
Init ==
    /\ stack = <<>>
    /\ lastException = NoException
    /\ lastError = "ok"
    /\ openScopes = 0
    /\ scopes = <<>>
    /\ destructing = FALSE
    /\ thrown = NoException
    /\ deferred = [d \in Deferred |-> [memory |-> "none", module |-> "none"]]
    /\ process = "running"
    /\ result = [status |-> "ok", throws |-> FALSE]
    /\ raised = 0
    /\ fate = [e \in Exception |-> "idle"]

ApiCall ==
    \/ \E c \in SimpleCalls : SimpleCall(c)
    \/ \E c \in PreambleCalls :
          \/ RefuseCall(c)
          \/ RejectArgument(c)
          \/ Complete(c)
          \/ EnterScript(c)
          \/ \E e \in Exception : ConversionThrows(c, e) \/ Raise(c, e)
    \/ GetLastErrorInfo
    \/ TakeException
    \/ \E kind \in {"plain", "escapable"} : OpenScope(kind)
    \/ CloseScope
    \/ CloseNoScope
    \/ EscapeHandle
    \/ \E d \in Deferred :
          CreatePromise(d) \/ ConcludeDeferred(d) \/ ResolveRunsScript(d)

ScriptStep ==
    \/ \E e \in Exception : ScriptThrows(e)
    \/ ScriptCatches
    \/ ScriptCallsModule
    \/ ScriptReturns
    \/ ScriptFails
    \/ \E d \in Deferred : ConcludeEnds(d)
    \/ GcFinalizer

CallbackStep ==
    \/ RunFinalizer
    \/ RunTask
    \/ CallbackReturns
    \/ CallbackRethrows
    \/ FinalizerThrows
    \/ BeginDestruct

Next == ApiCall \/ ScriptStep \/ CallbackStep

Spec == Init /\ [][Next]_vars

-----------------------------------------------------------------------------
TypeOK ==
    /\ stack \in Seq(ModuleFrame \cup ScriptFrame)
    /\ Len(stack) <= MaxDepth
    /\ lastException \in Exception \cup {NoException}
    /\ thrown \in Exception \cup {NoException}
    /\ lastError \in Status
    /\ openScopes \in 0 .. MaxScopes
    /\ scopes \in Seq({"plain", "escapable", "escaped"})
    /\ destructing \in BOOLEAN
    /\ deferred \in [Deferred ->
                       [memory : {"none", "open", "freed", "freed twice"},
                        module : {"none", "held", "concluding", "spent",
                                  "reentered"}]]
    /\ process \in {"running", "fatal", "check failed"}
    /\ result \in [status : Status, throws : BOOLEAN]
    /\ raised \in 0 .. MaxDepth
    /\ fate \in [Exception -> {"idle", "thrown", "pending"}]

(* No script runs while an exception is pending, neither below the calls   *)
(* that check for it nor when a callback has returned: V8 would enter      *)
(* JavaScript with an exception nobody rethrew.  (NAPI_PREAMBLE,           *)
(* CallIntoModule.)                                                        *)
NoScriptWhilePending == Script => lastException = NoException

(* A pending exception belongs to the code that runs: it became pending in *)
(* the innermost native frame, so that CallIntoModule never hands on, or   *)
(* reports as fatal, an exception another callback left behind.            *)
PendingBelongsToTop == lastException # NoException => raised = Len(stack)

(* An exception is never lost or duplicated on its way through scripts and *)
(* callbacks: the ones on their way are exactly the one a script throws    *)
(* and the one that is pending, so no TryCatch overwrote an older one.     *)
ExceptionConserved ==
    /\ {e \in Exception : fate[e] = "pending"} = {lastException} \ {NoException}
    /\ {e \in Exception : fate[e] = "thrown"} = {thrown} \ {NoException}

(* The pending exception of an env through nested scripts and callbacks    *)
(* (NAPI_PREAMBLE, CallIntoModule): no script runs while there is one, it  *)
(* belongs to the innermost native frame, and an exception is neither lost *)
(* nor duplicated on its way.                                              *)
PendingExceptionIsSound ==
    /\ TypeOK
    /\ NoScriptWhilePending
    /\ PendingBelongsToTop
    /\ ExceptionConserved

(* Only napi_throw and its variants return napi_ok and leave a new         *)
(* exception pending: a caller that checks the status never misses one.    *)
OkMeansNoException ==
    [][/\ lastException = NoException
       /\ lastException' # NoException
       => result'.throws \/ result'.status # "ok"]_vars

(* The status a call failed with is the one napi_get_last_error_info gives *)
(* until the next call, except for the scope mismatch, which the code does *)
(* not record.                                                             *)
FailureIsRecorded ==
    /\ Native
    /\ result.status \notin {"ok", "handle_scope_mismatch"}
    => lastError = result.status

(* A callback that closes the scopes it opened never fails the check of    *)
(* CallIntoModule, whatever nested callbacks and exceptions came between.  *)
ScopeCheckHolds == process # "check failed"

(* ConcludeDeferred deletes the deferred on every way out but those of the *)
(* preamble and of the check of the value, even when the getter of "then"  *)
(* threw or called back into the module in the meantime.  A module that    *)
(* goes by the status, and by whether a new exception is pending, neither  *)
(* leaks a deferred nor uses it after it was deleted, unless a callback    *)
(* inside the conclusion passes the same deferred again: then it is        *)
(* deleted twice.                                                          *)
DeferredStatusTells ==
    \A d \in Deferred :
       /\ deferred[d].module \in {"held", "concluding"}
          => deferred[d].memory = "open"
       /\ deferred[d].module = "spent" => deferred[d].memory = "freed"

(* A module can go by the status of a call: napi_get_last_error_info gives *)
(* the one the call failed with whatever ran inside it, and that of        *)
(* ConcludeDeferred (js_native_api_v8.cc:307-334) says, with the exception *)
(* that may come with it, whether the deferred is gone.                    *)
StatusTells ==
    /\ FailureIsRecorded
    /\ DeferredStatusTells
=============================================================================
