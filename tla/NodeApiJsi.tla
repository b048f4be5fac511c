----------------------------- MODULE NodeApiJsi -----------------------------
(***************************************************************************)
(* The calls of JSI over Node-API, and how an exception crosses the border *)
(*                                                                         *)
(*    host -> JSI operation -> JavaScript -> host function -> ...          *)
(*                                                                         *)
(* in both directions: a JavaScript exception becomes a jsi::JSError, and  *)
(* a C++ exception of a host function becomes a JavaScript exception.      *)
(*                                                                         *)
(* Source: node-api-jsi/NodeApiJsiRuntime.cpp (CHECK_NAPI,                 *)
(* throwJSException, rewriteErrorMessage, handleCallbackExceptions, the    *)
(* operations of jsi::Runtime, the host function callback and the traps of *)
(* a host object's proxy) and jsi/jsi.cpp (JSError).                       *)
(*                                                                         *)
(* To build a jsi::JSError the runtime reads properties of the thrown      *)
(* value, which runs JavaScript: getters, setters, String().  That         *)
(* JavaScript calls host functions, which call operations, which fail.     *)
(* Values are left out; V8, the scripts and the host are external.         *)
(***************************************************************************)
EXTENDS Naturals, Sequences, FiniteSets, SequencesExt

CONSTANTS
    Exception,      \* the values a script throws
    NoException,    \* no exception
    URL,            \* the source URLs of scripts
    NoURL,          \* the empty source URL
    MaxDepth        \* bound: frames on the stack

ASSUME NoExceptionAssumption == NoException \notin Exception
ASSUME NoURLAssumption == NoURL \notin URL
ASSUME MaxDepthAssumption == MaxDepth \in Nat

VARIABLES
    stack,              \* the C++ and JavaScript frames, the newest last
    pending,            \* the pending exception of the napi_env
    thrown,             \* the exception the running script is throwing
    flying,             \* the C++ exception that leaves or has left a call
    hasPendingJSError,  \* hasPendingJSError_
    sourceURL,          \* sourceURL_
    stackScopes,        \* the size of stackScopes_
    handleScopes        \* the napi_handle_scopes that are open

runtimeVars == <<hasPendingJSError, sourceURL, stackScopes, handleScopes>>
vars == <<stack, pending, thrown, flying, runtimeVars>>

-----------------------------------------------------------------------------
(* The operations of jsi::Runtime.  An operation                           *)
(*   scoped  is inside a NodeApiScope                                      *)
(*   raises  makes Node-API calls that run JavaScript or throw             *)
(*   fails   may end in a JSINativeException of its own                    *)
(*   evals   makes url the sourceURL_                                      *)

Operation(raises, fails) ==
    [scoped |-> TRUE, raises |-> raises, fails |-> fails, evals |-> FALSE,
     url |-> NoURL]

\* typeOf, strictEquals and the like: wrong arguments aside they succeed.
PrimitiveValues == Operation(FALSE, FALSE)

\* createString* and stringToStdBasicString: CHECK_ELSE_THROW refuses a null
\* pointer and a value that is no string.
StringValues == Operation(FALSE, TRUE)

\* callFunction, constructObject, instanceOf, and the access to a property.
ObjectCalls == Operation(TRUE, FALSE)

\* createExternalFunction to getExternalData.
ExternalValues == Operation(FALSE, TRUE)

Evaluate(u) == [ObjectCalls EXCEPT !.evals = TRUE, !.url = u]

\* A syntax error is an exception.
PrepareJavaScript == ObjectCalls

QueueMicrotask == PrimitiveValues

\* drainMicrotasks, global, description, isInspectable.
Unscoped == [PrimitiveValues EXCEPT !.scoped = FALSE]

\* symbolToStdBasicString looks up and calls Symbol.prototype.toString.
SymbolText == Operation(TRUE, TRUE)

\* The text of PropNameIDs and symbols, and their comparison.
Names == SymbolText

\* createBigInt*, bigintIs*, truncate.
BigInts == PrimitiveValues

Strings == StringValues

\* getHostObjectProxyHandler.
ProxyHandler == ObjectCalls

\* createObject of a host object makes a Proxy.
CreateHostObject == ProxyHandler

\* getJsiHostObject reads a symbol property, and refuses objects without one.
JsiHostObject == Operation(TRUE, TRUE)

\* getHostObject and getHostFunction.
HostData == JsiHostObject

\* hasNativeState, getNativeState, setNativeState; the prototype.
NativeStates == Operation(FALSE, TRUE)

\* getProperty, hasProperty, setPropertyValue.
Properties == ObjectCalls

\* isArray to isHostFunction; the last two read a symbol property.
Kinds == ObjectCalls

\* getPropertyNames, createWeakObject, lockWeakObject.
PropertyNames == ObjectCalls

\* createArray to setValueAtIndexImpl.
Arrays == Operation(TRUE, TRUE)

\* call, callAsConstructor, createFunctionFromHostFunction.
Functions == [ObjectCalls EXCEPT !.fails = ExternalValues.fails]

StrictEquals == PrimitiveValues

\* instanceOf asks Symbol.hasInstance.
Comparisons == ObjectCalls

\* utf16 of a String and of a PropNameID.
Utf16 == SymbolText

\* The Node-API calls a callback makes itself, in the scope of the callback:
\* getProperty of the get trap on the target, where a script may have defined
\* a getter through the proxy, and setElement of the ownKeys trap.
TargetCalls == [ObjectCalls EXCEPT !.scoped = FALSE]

Operations ==
    {Unscoped, QueueMicrotask, PrepareJavaScript, Names, BigInts, Strings,
     CreateHostObject, HostData, NativeStates, Properties, Kinds, PropertyNames,
     Arrays, Functions, StrictEquals, Comparisons, Utf16}
    \cup {Evaluate(u) : u \in URL \cup {NoURL}}

-----------------------------------------------------------------------------
(* Frames.                                                                 *)

\* An operation inside a Node-API call; "failed" once the call has returned
\* with a pending exception.  The script it runs has no frame of its own.
OpFrame == [kind : {"op"}, scoped : BOOLEAN, evals : BOOLEAN,
            fails : BOOLEAN, url : URL \cup {NoURL},
            before : URL \cup {NoURL}, failed : BOOLEAN]

\* throwJSException after it set hasPendingJSError_, for the operation below.
BuildFrame == [kind : {"build"}, error : Exception,
               stage : {"message", "set message", "stack", "set stack",
                        "value message", "value stack", "done"},
               message : {"unread", "string", "other", "failed"}]

\* A Node-API call of rewriteErrorMessage that runs JavaScript.
AccessFrame == [kind : {"access"}]

\* A host function or a trap, inside a NodeApiPointerValueScope: it calls code
\* of the host, code of the host and TargetCalls ("trap"), or neither; then
\* ~NodeApiPointerValueScope runs.  The process may end in it.
CallbackPart == {"host", "trap", "plain"}
CallbackFrame == [kind : {"callback"},
                  part : CallbackPart \cup {"leaving", "crashed"}]

NoError == [kind |-> "none", value |-> NoException]
JSINativeException == [kind |-> "native", value |-> NoException]
JSError(e) == [kind |-> "JSError", value |-> e]

Top == Last(stack)
Running == IF stack = <<>> THEN "host" ELSE Top.kind

ScriptRuns ==
    /\ Running = "access" \/ (Running = "op" /\ ~Top.failed)
    /\ pending = NoException

InCallback == Running = "callback" /\ Top.part \in CallbackPart

\* Code of the host: at the bottom of the stack or in a callback.
HostRuns ==
    /\ \/ Running = "host"
       \/ Running = "callback" /\ Top.part \in {"host", "trap"}
    /\ flying = NoError
HostUnwinds == (Running = "host" \/ InCallback) /\ flying # NoError

\* JSError::setValue uses operations as the host does.
SetValueRuns ==
    Running = "build" /\ Top.stage \in {"value message", "value stack"}

Building == \E i \in DOMAIN stack : stack[i].kind = "build"

Held(e) == \/ e \in {thrown, pending, flying.value}
           \/ \E i \in DOMAIN stack :
                 stack[i].kind = "build" /\ stack[i].error = e

\* NodeApiScope: a handle scope with its entry of stackScopes_ and another.
OpenScope(o) ==
    /\ stackScopes' = stackScopes + IF o.scoped THEN 2 ELSE 0
    /\ handleScopes' = handleScopes + IF o.scoped THEN 1 ELSE 0

\* ~NodeApiScope, and ~AutoRestore of the sourceURL_, of the operation f.
CloseScope(f) ==
    /\ stackScopes' = stackScopes - IF f.scoped THEN 2 ELSE 0
    /\ handleScopes' = handleScopes - IF f.scoped THEN 1 ELSE 0
    /\ sourceURL' = f.before

-----------------------------------------------------------------------------
(* Operations.                                                             *)

\* JSError::setValue goes on after one of its accesses, failed or not.
NextStage(f) ==
    [f EXCEPT !.stage = IF @ = "value message" THEN "value stack" ELSE "done"]

\* What s, the stack below an operation that ended, does next.
Resume(s) ==
    IF s # <<>> /\ Last(s).kind = "build"
    THEN ReplaceAt(s, Len(s), NextStage(Last(s)))
    ELSE s

\* The operation ends without JavaScript, or with an exception of its own,
\* which setValue catches.
PlainOperation(o) ==
    /\ HostRuns \/ SetValueRuns
    /\ stack' = Resume(stack)
    /\ flying' \in IF o.fails /\ HostRuns THEN {NoError, JSINativeException}
                                          ELSE {NoError}
    /\ UNCHANGED <<pending, thrown, runtimeVars>>

\* A Node-API call of the operation runs JavaScript.
CallScript(o) ==
    /\ Len(stack) < MaxDepth
    /\ stack' = Append(stack, [kind |-> "op", scoped |-> o.scoped,
                               evals |-> o.evals, fails |-> o.fails,
                               url |-> o.url, before |-> sourceURL,
                               failed |-> FALSE])
    /\ sourceURL' = IF o.evals THEN o.url ELSE sourceURL
    /\ OpenScope(o)
    /\ UNCHANGED <<pending, thrown, flying, hasPendingJSError>>

EnterScript(o) == (HostRuns \/ SetValueRuns) /\ o.raises /\ CallScript(o)

AccessTarget ==
    /\ Running = "callback" /\ Top.part = "trap"
    /\ flying = NoError
    /\ CallScript(TargetCalls)

ScriptThrows(e) ==
    /\ ScriptRuns
    /\ thrown = NoException
    /\ ~Held(e)
    /\ thrown' = e
    /\ UNCHANGED <<stack, pending, flying, runtimeVars>>

ScriptCatches ==
    /\ ScriptRuns
    /\ thrown # NoException
    /\ thrown' = NoException
    /\ UNCHANGED <<stack, pending, flying, runtimeVars>>

\* The operation converts the result and returns.
OperationReturns ==
    /\ ScriptRuns
    /\ Running = "op"
    /\ thrown = NoException
    /\ CloseScope(Top)
    /\ stack' = Resume(Front(stack))
    /\ UNCHANGED <<pending, thrown, flying, hasPendingJSError>>

\* The Node-API call returns with the exception pending.
CallFails ==
    /\ ScriptRuns
    /\ Running = "op"
    /\ thrown # NoException
    /\ pending' = thrown
    /\ thrown' = NoException
    /\ stack' = ReplaceAt(stack, Len(stack), [Top EXCEPT !.failed = TRUE])
    /\ UNCHANGED <<flying, runtimeVars>>

\* A C++ exception leaves the operation f and reaches what called it: the
\* host, or JSError::setValue, which catches every JSIException.
Unwind(f, below, exception) ==
    /\ CloseScope(f)
    /\ stack' = Resume(below)
    /\ flying' = IF below # <<>> /\ Last(below).kind = "build" THEN NoError
                                                             ELSE exception

\* The script has run, and the operation refuses its result: an object that is
\* no host object, a value that is no string, an index out of range.
OperationFails ==
    /\ ScriptRuns
    /\ Running = "op" /\ Top.fails
    /\ thrown = NoException
    /\ Unwind(Top, Front(stack), JSINativeException)
    /\ UNCHANGED <<pending, thrown, hasPendingJSError>>

\* throwJSException, entered by CHECK_NAPI.  A value that is no object is not
\* rewritten.  While another error is being built, the exception is dropped
\* for a JSINativeException that tells the status.
ThrowJSException ==
    /\ Running = "op" /\ Top.failed
    /\ pending' = NoException
    /\ IF hasPendingJSError
          THEN /\ Unwind(Top, Front(stack), JSINativeException)
               /\ UNCHANGED hasPendingJSError
          ELSE /\ hasPendingJSError' = TRUE
               /\ \E stage \in {"message", "value message"} :
                     stack' = Append(stack, [kind |-> "build", error |-> pending,
                                             stage |-> stage,
                                             message |-> "unread"])
               /\ UNCHANGED <<flying, sourceURL, stackScopes, handleScopes>>
    /\ UNCHANGED thrown

-----------------------------------------------------------------------------
(* rewriteErrorMessage, and the constructor of JSError.                    *)

InStage(s) == Running = "build" /\ Top.stage = s /\ pending = NoException

Goto(s) == [Top EXCEPT !.stage = s]

\* A getter, a setter or a proxy runs JavaScript.
AccessRunsScript ==
    /\ Running = "build"
    /\ Top.stage \in {"message", "set message", "stack", "set stack"}
    /\ pending = NoException
    /\ Len(stack) < MaxDepth
    /\ stack' = Append(stack, [kind |-> "access"])
    /\ UNCHANGED <<pending, thrown, flying, runtimeVars>>

\* The stage after the message is known; without a URL the stack is left.
AfterMessage == IF sourceURL = NoURL THEN "value message" ELSE "stack"

\* The result of the call that f waits for: the message is a string or not; a
\* string is replaced when it is the one of a stack overflow.
AfterAccess(f) ==
    CASE f.stage = "message" ->
            {[f EXCEPT !.message = "other", !.stage = AfterMessage],
             [f EXCEPT !.message = "string", !.stage = AfterMessage],
             [f EXCEPT !.message = "string", !.stage = "set message"]}
      [] f.stage = "set message" -> {[f EXCEPT !.stage = AfterMessage]}
      [] f.stage = "stack" ->
            IF f.message = "string"
            THEN {[f EXCEPT !.stage = "set stack"],
                  [f EXCEPT !.stage = "value message"]}
            ELSE {[f EXCEPT !.stage = "value message"]}
      [] f.stage = "set stack" -> {[f EXCEPT !.stage = "value message"]}

\* typeOf(message) is asked again after the stack was read, so the build ends
\* in a JSINativeException when there is no message; so it does when there is
\* one and the stack is no string.
StackFails(f) == f.stage = "stack" /\ f.message \in {"string", "failed"}
StackSucceeds(f) == f.stage # "stack" \/ f.message # "failed"

\* The operation below the build frame at the top of s.
Op(s) == s[Len(s) - 1]
BelowOp(s) == SubSeq(s, 1, Len(s) - 2)

BuildEnds(s, exception) ==
    /\ hasPendingJSError' = FALSE
    /\ Unwind(Op(s), BelowOp(s), exception)

\* The access ends, with or without a script, and s is the stack up to the
\* build frame.
AccessSucceeds(s) ==
    \/ /\ StackSucceeds(Last(s))
       /\ \E f \in AfterAccess(Last(s)) : stack' = ReplaceAt(s, Len(s), f)
       /\ UNCHANGED <<flying, runtimeVars>>
    \/ StackFails(Last(s)) /\ BuildEnds(s, JSINativeException)

PlainAccess ==
    /\ Running = "build"
    /\ Top.stage \in {"message", "set message", "stack", "set stack"}
    /\ pending = NoException
    /\ AccessSucceeds(stack)
    /\ UNCHANGED <<pending, thrown>>

AccessReturns ==
    /\ ScriptRuns
    /\ Running = "access"
    /\ thrown = NoException
    /\ AccessSucceeds(Front(stack))
    /\ UNCHANGED <<pending, thrown>>

\* The script of an access throws, and the Node-API call returns.
AccessThrows ==
    /\ ScriptRuns
    /\ Running = "access"
    /\ thrown # NoException
    /\ stack' = Front(stack)
    /\ pending' = thrown
    /\ thrown' = NoException
    /\ UNCHANGED <<flying, runtimeVars>>

IgnoreException_Mutant ==
    /\ Running = "build"
    /\ Top.stage \in {"message", "stack"}
    /\ pending # NoException
    /\ stack' = ReplaceAt(stack, Len(stack),
                          IF Top.stage = "message"
                          THEN [Top EXCEPT !.message = "failed",
                                           !.stage = AfterMessage]
                          ELSE Goto("value message"))
    /\ UNCHANGED <<thrown, flying, runtimeVars, pending>>

\* An exception of a getter is cleared and ignored.
IgnoreException ==
    /\ Running = "build"
    /\ Top.stage \in {"message", "stack"}
    /\ pending # NoException
    /\ pending' = NoException
    /\ stack' = ReplaceAt(stack, Len(stack),
                          IF Top.stage = "message"
                          THEN [Top EXCEPT !.message = "failed",
                                           !.stage = AfterMessage]
                          ELSE Goto("value message"))
    /\ UNCHANGED <<thrown, flying, runtimeVars>>

\* An exception of a setter: setProperty enters throwJSException once more,
\* which throws a JSINativeException out of the first one.
RewriteFails ==
    /\ Running = "build"
    /\ Top.stage \in {"set message", "set stack"}
    /\ pending # NoException
    /\ pending' = NoException
    /\ BuildEnds(stack, JSINativeException)
    /\ UNCHANGED thrown

JSErrorIsBuilt_Mutant ==
    /\ InStage("done")
    /\ Unwind(Op(stack), BelowOp(stack), JSError(Top.error))
    /\ UNCHANGED <<pending, thrown, hasPendingJSError>>

\* The JSError is complete and is thrown; AutoRestore resets the flag.
JSErrorIsBuilt ==
    /\ InStage("done")
    /\ BuildEnds(stack, JSError(Top.error))
    /\ UNCHANGED <<pending, thrown>>

-----------------------------------------------------------------------------
(* The host, and JavaScript that calls it.                                 *)

HostCatches ==
    /\ HostUnwinds
    /\ flying' = NoError
    /\ UNCHANGED <<stack, pending, thrown, runtimeVars>>

\* A host function throws an exception of its own: any std::exception, which
\* runInMethodContext turns into a JSINativeException, or a JSError.
HostThrows ==
    /\ HostRuns
    /\ Running = "callback"
    /\ \/ flying' = JSINativeException
       \/ \E e \in Exception : ~Held(e) /\ flying' = JSError(e)
    /\ UNCHANGED <<stack, pending, thrown, runtimeVars>>

\* The constructor of JsiValueView refuses a value of a type that JSI_VERSION
\* does not have, and getJsiHostObject a target without a host object.
Views == {NoError, JSINativeException}

\* Every callback opens a NodeApiPointerValueScope first; then the runtime's
\* own part of it may throw.
EnterCallback(part, exception) ==
    /\ ScriptRuns
    /\ thrown = NoException
    /\ Len(stack) < MaxDepth
    /\ stack' = Append(stack, [kind |-> "callback", part |-> part])
    /\ stackScopes' = stackScopes + 1
    /\ flying' = exception
    /\ UNCHANGED <<pending, thrown, hasPendingJSError, sourceURL, handleScopes>>

\* jsiHostFunctionCallback.  The constructor of JsiValueViewArgs is noexcept:
\* an argument of an unknown type ends the process.
CallHostFunction ==
    \/ \E exception \in Views : EnterCallback("host", exception)
    \/ EnterCallback("crashed", JSINativeException)

\* The has trap answers true without asking the host.
CallHas == \E exception \in Views : EnterCallback("plain", exception)

\* The get trap looks at the target first.
CallGet == \E exception \in Views : EnterCallback("trap", exception)

CallSet == \E exception \in Views : EnterCallback("host", exception)

\* The ownKeys trap; OwnKeys of Conversions is what it makes of the keys.
CallOwnKeys == \E exception \in Views : EnterCallback("trap", exception)

CallGetOwnPropertyDescriptor ==
    \E exception \in Views : EnterCallback("host", exception)

\* The callback goes on with the part p.
GoOn(p) == stack' = ReplaceAt(stack, Len(stack), [Top EXCEPT !.part = p])

CallbackReturns ==
    /\ InCallback
    /\ flying = NoError
    /\ GoOn("leaving")
    /\ UNCHANGED <<pending, thrown, flying, runtimeVars>>

HandleCallbackExceptions_Mutant ==
    /\ HostUnwinds
    /\ Running = "callback"
    /\ pending' \in {e \in Exception : ~Held(e)}
    /\ flying' = NoError
    /\ GoOn("leaving")
    /\ UNCHANGED <<thrown, runtimeVars>>

\* A JSError throws its value, any other exception a new Error.
HandleCallbackExceptions ==
    /\ HostUnwinds
    /\ Running = "callback"
    /\ IF flying.kind = "JSError" THEN pending' = flying.value
                                  ELSE pending' \in {e \in Exception : ~Held(e)}
    /\ flying' = NoError
    /\ GoOn("leaving")
    /\ UNCHANGED <<thrown, runtimeVars>>

\* ~NodeApiPointerValueScope, with an exception pending or not.
LeaveCallback ==
    /\ Running = "callback" /\ Top.part = "leaving"
    /\ flying = NoError
    /\ stack' = Front(stack)
    /\ stackScopes' = stackScopes - 1
    /\ UNCHANGED <<pending, thrown, flying, hasPendingJSError, sourceURL,
                   handleScopes>>

\* The scope makes a reference to a string, symbol or BigInt the host keeps:
\* with an exception pending the call fails and createNodeApiRef ends the
\* process (NodeApiPointers has the instances).
ScopeCrashes ==
    /\ Running = "callback" /\ Top.part = "leaving"
    /\ pending # NoException
    /\ GoOn("crashed")
    /\ UNCHANGED <<pending, thrown, flying, runtimeVars>>

\* The process has ended.
ProcessEnded ==
    Running = "callback" /\ Top.part = "crashed" /\ UNCHANGED vars

\* The wrapper of the Node-API rethrows the pending exception into the script.
Rethrow ==
    /\ Running = "access" \/ (Running = "op" /\ ~Top.failed)
    /\ pending # NoException
    /\ thrown' = pending
    /\ pending' = NoException
    /\ UNCHANGED <<stack, flying, runtimeVars>>

-----------------------------------------------------------------------------
Init ==
    /\ stack = <<>>
    /\ pending = NoException
    /\ thrown = NoException
    /\ flying = NoError
    /\ hasPendingJSError = FALSE
    /\ sourceURL = NoURL
    /\ stackScopes = 0
    /\ handleScopes = 0

ScriptStep ==
    \/ \E e \in Exception : ScriptThrows(e)
    \/ ScriptCatches
    \/ CallHostFunction
    \/ CallHas
    \/ CallGet
    \/ CallSet
    \/ CallOwnKeys
    \/ CallGetOwnPropertyDescriptor

HostStep ==
    \/ \E o \in Operations : PlainOperation(o) \/ EnterScript(o)
    \/ HostCatches
    \/ HostThrows
    \/ AccessTarget

RuntimeStep ==
    \/ OperationReturns
    \/ OperationFails
    \/ CallFails
    \/ ThrowJSException
    \/ AccessRunsScript
    \/ PlainAccess
    \/ AccessReturns
    \/ AccessThrows
    \/ IgnoreException
    \/ RewriteFails
    \/ JSErrorIsBuilt
    \/ CallbackReturns
    \/ HandleCallbackExceptions
    \/ LeaveCallback
    \/ ScopeCrashes
    \/ Rethrow

Next == ScriptStep \/ HostStep \/ RuntimeStep \/ ProcessEnded

Spec == Init /\ [][Next]_vars

-----------------------------------------------------------------------------
TypeOK ==
    /\ stack \in Seq(OpFrame \cup BuildFrame \cup AccessFrame \cup CallbackFrame)
    /\ pending \in Exception \cup {NoException}
    /\ thrown \in Exception \cup {NoException}
    /\ flying \in {NoError, JSINativeException}
                  \cup {JSError(e) : e \in Exception}
    /\ hasPendingJSError \in BOOLEAN
    /\ sourceURL \in URL \cup {NoURL}
    /\ stackScopes \in Nat
    /\ handleScopes \in Nat

(* Whenever code of the host runs, or JSError::setValue calls an operation *)
(* on its own, no exception is pending in the napi_env: every failed call, *)
(* in the middle of building another error too, has taken its exception    *)
(* out.  A call with NAPI_PREAMBLE would fail for a reason of the past.    *)
NoPendingExceptionInHost ==
    (Running = "host" \/ InCallback \/ SetValueRuns) => pending = NoException

(* One error is built at a time, whatever the getters, the setters and the *)
(* host functions they call do: throwJSException does not recurse.         *)
OneErrorIsBuilt ==
    Cardinality({i \in DOMAIN stack : stack[i].kind = "build"}) <= 1

Frames(kind) == {i \in DOMAIN stack : stack[i].kind = kind}

(* A C++ exception that leaves any number of frames restores the runtime:  *)
(* hasPendingJSError_ is set exactly while an error is built, sourceURL_   *)
(* is the one of the innermost script that is evaluated, and the scopes    *)
(* are those of the frames that are left.                                  *)
RuntimeFollowsStack ==
    LET scoped == {i \in Frames("op") : stack[i].scoped}
        urls == {i \in Frames("op") : stack[i].evals}
    IN  /\ hasPendingJSError <=> Building
        /\ sourceURL = IF urls = {} THEN NoURL
                       ELSE stack[CHOOSE i \in urls : \A j \in urls : j <= i].url
        /\ handleScopes = Cardinality(scoped)
        /\ stackScopes = 2 * Cardinality(scoped) + Cardinality(Frames("callback"))

(* The fields of the runtime follow the C++ stack, whether frames return   *)
(* or an exception leaves them: the flag of the error that is built, of    *)
(* which there is one at a time, the source URL and the scopes.            *)
StackIsSound ==
    /\ TypeOK
    /\ OneErrorIsBuilt
    /\ RuntimeFollowsStack

(* Outside the building of an error no exception gets lost: it stays with  *)
(* the script, the Node-API or the C++ code until a script or the host     *)
(* catches it, however often it crosses the border.                        *)
NoExceptionIsLost ==
    [][\A e \in Exception :
          Held(e) /\ ~Held(e)' /\ ~hasPendingJSError =>
             stack' = stack /\ e \in {thrown, flying.value}]_vars

(* An operation whose script throws ends with a JSError of that value: the *)
(* exceptions of the getters of message and stack are ignored, as the      *)
(* comment of rewriteErrorMessage asks for.                                *)
ThrownValueReachesHost ==
    [][\A i \in DOMAIN stack :
          stack[i].kind = "build" /\ Len(stack') < i - 1 =>
             flying' = JSError(stack[i].error)]_vars
=============================================================================
