-------------------------- MODULE NapiCallsProofs --------------------------
(***************************************************************************)
(* Proofs about NapiCalls for any number of exceptions, deferreds, nested  *)
(* frames and scopes and for both API versions: the pending exception is   *)
(* sound, statuses tell what happened, the check of the handle scopes in   *)
(* CallIntoModule never fails, and napi_ok hides no exception.             *)
(***************************************************************************)
EXTENDS NapiCalls, SequenceTheorems, TLAPS

Frame == ModuleFrame \cup ScriptFrame

\* Scripts and callbacks take turns: a script is run by native code, a
\* function is called by a script, a finalizer or a task by nobody.  A
\* callback starts with as many counted scopes as there are, and a script
\* that throws makes its call fail.
Alternates(s) ==
    \A i \in 1 .. Len(s) :
       /\ s[i].kind = "script" =>
             /\ s[i].thrownAs # "ok"
             /\ i > 1 => s[i - 1].kind = "module"
       /\ s[i].kind = "module" =>
             /\ s[i].before = s[i].depth
             /\ IF s[i].entry = "function"
                THEN i > 1 /\ s[i - 1].kind = "script"
                ELSE i = 1

\* A script that runs inside the conclusion of a deferred has the module's
\* view of it to match, and the only such script unless it was passed again.
Conclusions(s, v) ==
    \A i \in 1 .. Len(s) : s[i].kind = "script" =>
       \A d \in s[i].concludes :
          /\ v[d].module \in {"concluding", "reentered"}
          /\ v[d].module = "concluding" =>
                \A j \in 1 .. Len(s) :
                   s[j].kind = "script" /\ d \in s[j].concludes => j = i

StackInv ==
    /\ stack \in Seq(Frame)
    /\ Len(stack) <= MaxDepth
    /\ Alternates(stack)
    /\ Conclusions(stack, deferred)

ScopeKinds == {"plain", "escapable", "escaped"}

\* The counter of the env agrees with V8's scopes.
ScopeInv ==
    /\ scopes \in Seq(ScopeKinds)
    /\ openScopes \in 0 .. MaxScopes
    /\ openScopes = Len(scopes)
    /\ process \in {"running", "fatal", "check failed"}
    /\ ScopeCheckHolds

\* An exception on its way through JavaScript has a script to go through.
ThrownInScript == thrown # NoException => Running = "script"

ExceptionInv ==
    /\ lastException \in Exception \cup {NoException}
    /\ thrown \in Exception \cup {NoException}
    /\ raised \in 0 .. MaxDepth
    /\ fate \in [Exception -> {"idle", "thrown", "pending"}]
    /\ NoScriptWhilePending
    /\ PendingBelongsToTop
    /\ ExceptionConserved
    /\ ThrownInScript

Memory == {"none", "open", "freed", "freed twice"}
View == {"none", "held", "concluding", "spent", "reentered"}

StatusInv ==
    /\ lastError \in Status
    /\ destructing \in BOOLEAN
    /\ deferred \in [Deferred -> [memory : Memory, module : View]]
    /\ result \in [status : Status, throws : BOOLEAN]
    /\ StatusTells

IInv == StackInv /\ ScopeInv /\ ExceptionInv /\ StatusInv

-----------------------------------------------------------------------------
(* The statuses of the API calls.                                          *)

Failure == Status \ {"ok", "handle_scope_mismatch"}

\* What the record of a call promises.
SoundCall(c) ==
    /\ c.invalid \subseteq Failure
    /\ c.converts \in Failure \cup {"none"}
    /\ c.thrownAs \in Failure
    /\ c.refused \in Failure \cup {"none"}
    /\ c.raises \in Failure \cup {"none", "ok"}
    /\ c.clears \in BOOLEAN
    /\ c.js \in BOOLEAN

(* No check of an argument, no conversion and no script that throws is     *)
(* reported as a success, whichever call it is.                            *)
LEMMA SimpleCallsSound == \A c \in SimpleCalls : SoundCall(c)
<1> USE DEF SoundCall, Failure, Status, Call
<1>1. SoundCall(CreateValue) /\ SoundCall(CreateNumber)
  BY DEF CreateValue, CreateNumber
<1>2. SoundCall(CreateSymbol) /\ SoundCall(CreateString)
  BY DEF CreateSymbol, CreateString, NewString
<1>3. SoundCall(CreateError) /\ SoundCall(Inspect) /\ SoundCall(CallbackInfo)
  BY DEF CreateError, Inspect, CallbackInfo
<1>4. SoundCall(GetNumber) /\ SoundCall(GetBigInt) /\ SoundCall(GetString)
  BY DEF GetNumber, GetBigInt, GetString
<1>5. SoundCall(BufferInfo) /\ SoundCall(DataViewInfo) /\ SoundCall(DetachBuffer)
  BY DEF BufferInfo, DataViewInfo, DetachBuffer
<1>6. SoundCall(GetGlobal) /\ SoundCall(IsError) /\ SoundCall(IsPromise)
  BY DEF GetGlobal, IsError, IsPromise
<1>7. /\ SoundCall(GetExternal) /\ SoundCall(AdjustExternalMemory)
      /\ SoundCall(ArrayBufferInfo)
  BY DEF GetExternal, AdjustExternalMemory, ArrayBufferInfo
<1> HIDE DEF SoundCall
<1>8. QED
  BY <1>1, <1>2, <1>3, <1>4, <1>5, <1>6, <1>7 DEF SimpleCalls

(* The same for the calls that start with NAPI_PREAMBLE.                   *)
LEMMA PreambleCallsSound == \A c \in PreambleCalls : SoundCall(c)
<1> USE DEF SoundCall, Failure, Status, Call
<1>1. SoundCall(PlainWithPreamble) /\ SoundCall(CreateArrayBuffer)
  BY DEF PlainWithPreamble, CreateArrayBuffer
<1>2. SoundCall(Dates) /\ SoundCall(CreateFunction)
  BY DEF Dates, CreateFunction, NewFunction
<1>3. SoundCall(KeyedProperty) /\ SoundCall(NamedProperty)
  BY DEF KeyedProperty, NamedProperty, OnObject
<1>4. SoundCall(ElementAccess) /\ SoundCall(PropertyNames)
  BY DEF ElementAccess, PropertyNames, OnObject
<1>5. SoundCall(GetPrototype) /\ SoundCall(SetIntegrity)
  BY DEF GetPrototype, SetIntegrity, OnObject
<1>6. SoundCall(DefineProperties) /\ SoundCall(DefineClass)
  BY DEF DefineProperties, DefineClass, OnObject, NewFunction,
         V8NameFromPropertyDescriptor
<1>7. SoundCall(TypeTag) /\ SoundCall(Coerce)
  BY DEF TypeTag, Coerce
<1>8. SoundCall(CallFunction) /\ SoundCall(NewInstance)
  BY DEF CallFunction, NewInstance
<1>9. SoundCall(InstanceOf) /\ SoundCall(RunScript)
  BY DEF InstanceOf, RunScript, OnObject
<1>10. /\ SoundCall(ThrowError) /\ SoundCall(CreateTypedArray)
       /\ SoundCall(CreateDataView)
  BY DEF ThrowError, CreateTypedArray, CreateDataView
<1> HIDE DEF SoundCall
<1>11. QED
  BY <1>1, <1>2, <1>3, <1>4, <1>5, <1>6, <1>7, <1>8, <1>9, <1>10
     DEF PreambleCalls

-----------------------------------------------------------------------------
(* The stack.                                                              *)

(* A new frame on top, of the kind that its caller may call.               *)
LEMMA PushFrame ==
    ASSUME NEW s \in Seq(Frame), Alternates(s), NEW f \in Frame,
           f.kind = "script" =>
              /\ f.thrownAs # "ok"
              /\ s # <<>> => s[Len(s)].kind = "module",
           f.kind = "module" =>
              /\ f.before = f.depth
              /\ IF f.entry = "function"
                 THEN s # <<>> /\ s[Len(s)].kind = "script" ELSE s = <<>>
    PROVE  /\ Append(s, f) \in Seq(Frame)
           /\ Len(Append(s, f)) = Len(s) + 1
           /\ Append(s, f)[Len(s) + 1] = f
           /\ Append(s, f) # <<>>
           /\ Alternates(Append(s, f))
<1>1. /\ Append(s, f) \in Seq(Frame) /\ Append(s, f) # <<>>
      /\ Len(Append(s, f)) = Len(s) + 1
      /\ \A i \in 1 .. Len(s) : Append(s, f)[i] = s[i]
      /\ Append(s, f)[Len(s) + 1] = f
  BY AppendProperties
<1>2. Len(s) \in Nat /\ (s = <<>> <=> Len(s) = 0)
  BY EmptySeq, LenProperties
<1>3. Alternates(Append(s, f))
  BY <1>1, <1>2 DEF Alternates
<1>4. QED
  BY <1>1, <1>3

(* Without its top frame a stack is as good as before.                     *)
LEMMA PopFrame ==
    ASSUME NEW s \in Seq(Frame), Alternates(s), s # <<>>
    PROVE  LET p == SubSeq(s, 1, Len(s) - 1) IN
           /\ p \in Seq(Frame)
           /\ Len(p) = Len(s) - 1
           /\ Len(s) \in Nat \ {0}
           /\ p = <<>> <=> Len(s) = 1
           /\ \A i \in 1 .. Len(p) : p[i] = s[i]
           /\ Alternates(p)
           /\ s[Len(s)] \in Frame
<1> DEFINE p == SubSeq(s, 1, Len(s) - 1)
<1>1. /\ Len(s) \in Nat \ {0}
      /\ \A i \in 1 .. Len(s) : s[i] \in Frame
  BY EmptySeq, ElementOfSeq
<1>2. PICK n \in Nat : n = Len(s) - 1
  BY <1>1
<1>3. /\ p \in Seq(Frame)
      /\ Len(p) = Len(s) - 1
      /\ \A i \in 1 .. Len(p) : p[i] = s[i]
  <2>1. \A i \in 1 .. n : s[i] \in Frame
    BY <1>1, <1>2
  <2>2. /\ SubSeq(s, 1, n) \in Seq(Frame)
        /\ Len(SubSeq(s, 1, n)) = n
        /\ \A i \in 1 .. n : SubSeq(s, 1, n)[i] = s[i]
    BY <2>1, SubSeqProperties
  <2>3. QED
    BY <1>2, <2>2
<1>4. p = <<>> <=> Len(p) = 0
  BY <1>3, EmptySeq
<1>5. Alternates(p)
  BY <1>1, <1>3 DEF Alternates
<1>6. QED
  BY <1>1, <1>3, <1>4, <1>5

(* A script of the stack concludes it.                                     *)
Concludes(s, i, d) == s[i].kind = "script" /\ d \in s[i].concludes

(* The views match with a new frame that concludes nothing, or a deferred  *)
(* that no other frame does or that was passed again, ...                  *)
LEMMA PushConclusions ==
    ASSUME NEW s \in Seq(Frame), NEW v, Conclusions(s, v), NEW f \in Frame,
           f.kind = "script" => \A d \in f.concludes :
              \/ v[d].module = "reentered"
              \/ /\ v[d].module = "concluding"
                 /\ \A i \in 1 .. Len(s) : ~Concludes(s, i, d)
    PROVE  Conclusions(Append(s, f), v)
<1>1. /\ Len(s) \in Nat
      /\ Len(Append(s, f)) = Len(s) + 1
      /\ \A i \in 1 .. Len(s) : Append(s, f)[i] = s[i]
      /\ Append(s, f)[Len(s) + 1] = f
  BY AppendProperties, LenProperties
<1>2. QED
  BY <1>1 DEF Conclusions, Concludes

(* ... and without the top frame.                                          *)
LEMMA PopConclusions ==
    ASSUME NEW s \in Seq(Frame), Alternates(s), s # <<>>, NEW v,
           Conclusions(s, v)
    PROVE  Conclusions(SubSeq(s, 1, Len(s) - 1), v)
<1> DEFINE p == SubSeq(s, 1, Len(s) - 1)
<1>1. /\ Len(s) \in Nat \ {0} /\ Len(p) = Len(s) - 1
      /\ \A i \in 1 .. Len(p) : p[i] = s[i]
  BY PopFrame
<1> HIDE DEF p
<1>2. Conclusions(p, v)
  BY <1>1 DEF Conclusions
<1>3. QED
  BY <1>2 DEF p

(* ... and when the views change of deferreds that no frame concludes, or  *)
(* that were passed again.                                                 *)
LEMMA ChangeViews ==
    ASSUME NEW s, NEW v, NEW w, Conclusions(s, v),
           \A i \in 1 .. Len(s) : s[i].kind = "script" =>
              \A d \in s[i].concludes : w[d].module \in {v[d].module, "reentered"}
    PROVE  Conclusions(s, w)
BY DEF Conclusions

-----------------------------------------------------------------------------
(* Preservation, one lemma per group of actions.                           *)

(* The frame on top is one of the frames.                                  *)
LEMMA TopFrame ==
    ASSUME StackInv, stack # <<>>
    PROVE  /\ Len(stack) \in 1 .. MaxDepth
           /\ Top \in Frame
           /\ Top = stack[Len(stack)]
<1>1. Len(stack) \in Nat \ {0} /\ Len(stack) <= MaxDepth
  BY EmptySeq DEF StackInv
<1>2. QED
  BY <1>1, ElementOfSeq, BoundsAssumption DEF StackInv, Top

(* Native code runs either below all frames or in a callback.              *)
LEMMA NativeFrame ==
    ASSUME StackInv, Native
    PROVE  /\ process = "running"
           /\ Len(stack) \in 0 .. MaxDepth
           /\ stack # <<>> => Top \in ModuleFrame
<1>1. Len(stack) \in Nat /\ Len(stack) <= MaxDepth
  BY LenProperties DEF StackInv
<1>2. QED
  BY <1>1, TopFrame, BoundsAssumption
     DEF Native, Running, Frame, ModuleFrame, ScriptFrame

(* A call that runs no JavaScript and leaves the exceptions alone.         *)
LEMMA QuietStep ==
    ASSUME IInv, UNCHANGED <<quietly, lastException, raised, fate>>,
           lastError' \in Status,
           result' \in [status : Status, throws : BOOLEAN],
           result'.status \in {"ok", "handle_scope_mismatch", lastError'}
    PROVE  IInv'
<1> USE DEF quietly, scopeVars
<1>1. StackInv' /\ ScopeInv'
  BY DEF IInv, StackInv, ScopeInv, ScopeCheckHolds
<1>2. ExceptionInv'
  BY DEF IInv, ExceptionInv, NoScriptWhilePending, Script, Running, Top,
         PendingBelongsToTop, ExceptionConserved, ThrownInScript
<1>3. StatusInv'
  BY DEF IInv, StatusInv, StatusTells, FailureIsRecorded, DeferredStatusTells
<1>4. QED
  BY <1>1, <1>2, <1>3 DEF IInv

(* The calls that end in one of their own statuses.                        *)
LEMMA ReturnsKeep ==
    ASSUME IInv, NEW s \in Status, Return(s),
           UNCHANGED <<quietly, lastException, raised, fate>>
    PROVE  IInv'
BY QuietStep DEF Return

LEMMA SimpleCallKeeps ==
    ASSUME IInv, NEW c \in SimpleCalls, SimpleCall(c)
    PROVE  IInv'
<1>1. PICK s \in {"ok"} \cup c.invalid : Return(s)
  BY DEF SimpleCall
<1>2. s \in Status
  BY SimpleCallsSound DEF SoundCall, Failure, Status
<1>3. QED
  BY <1>1, <1>2, ReturnsKeep DEF SimpleCall

LEMMA PlainCallKeeps ==
    ASSUME IInv, NEW c \in PreambleCalls,
           RefuseCall(c) \/ RejectArgument(c) \/ Complete(c)
    PROVE  IInv'
<1>1. CASE RefuseCall(c)
  BY <1>1, ReturnsKeep DEF RefuseCall, Preamble, Status
<1>2. CASE RejectArgument(c)
  <2>1. PICK s \in c.invalid : Return(s)
    BY <1>2 DEF RejectArgument
  <2>2. s \in Status
    BY PreambleCallsSound DEF SoundCall, Failure
  <2>3. QED
    BY <1>2, <2>1, <2>2, ReturnsKeep DEF RejectArgument
<1>3. CASE Complete(c)
  <2>1. PICK s \in {"ok", c.refused} \ {"none"} : Return(s)
    BY <1>3 DEF Complete
  <2>2. s \in Status
    BY PreambleCallsSound DEF SoundCall, Failure, Status
  <2>3. QED
    BY <1>3, <2>1, <2>2, ReturnsKeep DEF Complete
<1>4. QED
  BY <1>1, <1>2, <1>3

LEMMA GetLastErrorInfoKeeps == IInv /\ GetLastErrorInfo => IInv'
<1> SUFFICES ASSUME IInv, GetLastErrorInfo PROVE IInv'
  OBVIOUS
<1>1. lastError' \in Status
  BY DEF GetLastErrorInfo, IInv, StatusInv
<1>2. result' = [status |-> "ok", throws |-> FALSE]
  BY DEF GetLastErrorInfo
<1>3. QED
  BY <1>1, <1>2, QuietStep DEF GetLastErrorInfo, Status

(* An exception that becomes pending in a call that checked for one.       *)
LEMMA PendKeeps ==
    ASSUME IInv, Native, Preamble = "ok", UNCHANGED quietly,
           NEW e \in Exception, fate[e] = "idle", Pend(e, Len(stack)),
           lastError' \in Status,
           result' \in [status : Status, throws : BOOLEAN],
           result'.status = lastError'
    PROVE  IInv'
<1> USE DEF quietly, scopeVars
<1>1. StackInv' /\ ScopeInv'
  BY DEF IInv, StackInv, ScopeInv, ScopeCheckHolds
<1>2. lastException = NoException /\ e # NoException
  BY NoExceptionAssumption DEF Preamble
<1>3. Running = "module" /\ Len(stack) \in 0 .. MaxDepth
  BY NativeFrame DEF IInv, Native
<1>4. ExceptionInv'
  <2>1. /\ lastException' = e /\ raised' = Len(stack)
        /\ fate' = [fate EXCEPT ![e] = "pending"]
    BY DEF Pend
  <2>2. NoScriptWhilePending' /\ ThrownInScript' /\ PendingBelongsToTop'
    BY <1>2, <1>3, <2>1 DEF IInv, ExceptionInv, NoScriptWhilePending, Script,
       Running, Top, ThrownInScript, PendingBelongsToTop
  <2>3. ExceptionConserved'
    BY <1>2, <2>1 DEF IInv, ExceptionInv, ExceptionConserved
  <2>4. QED
    BY <1>3, <2>1, <2>2, <2>3 DEF IInv, ExceptionInv
<1>5. StatusInv'
  BY DEF IInv, StatusInv, StatusTells, FailureIsRecorded, DeferredStatusTells
<1>6. QED
  BY <1>1, <1>4, <1>5 DEF IInv

LEMMA ThrowingCallKeeps ==
    ASSUME IInv, NEW c \in PreambleCalls, NEW e \in Exception,
           ConversionThrows(c, e) \/ Raise(c, e)
    PROVE  IInv'
<1>1. CASE ConversionThrows(c, e)
  <2>1. c.converts \in Status
    BY <1>1, PreambleCallsSound DEF ConversionThrows, SoundCall, Failure
  <2>2. QED
    BY <1>1, <2>1, PendKeeps DEF ConversionThrows, Return
<1>2. CASE Raise(c, e)
  <2>1. c.raises \in Status
    BY <1>2, PreambleCallsSound DEF Raise, SoundCall, Failure, Status
  <2>2. QED
    BY <1>2, <2>1, PendKeeps DEF Raise
<1>3. QED
  BY <1>1, <1>2

LEMMA TakeExceptionKeeps == IInv /\ TakeException => IInv'
<1> SUFFICES ASSUME IInv, TakeException PROVE IInv'
  OBVIOUS
<1> USE DEF quietly, scopeVars, TakeException
<1>1. StackInv' /\ ScopeInv'
  BY DEF IInv, StackInv, ScopeInv, ScopeCheckHolds
<1>2. NoScriptWhilePending' /\ ThrownInScript' /\ PendingBelongsToTop'
  BY DEF IInv, ExceptionInv, NoScriptWhilePending, Script,
         Running, Top, ThrownInScript, PendingBelongsToTop
<1>3. ExceptionConserved' /\ fate' \in [Exception -> {"idle", "thrown", "pending"}]
  BY NoExceptionAssumption DEF IInv, ExceptionInv, ExceptionConserved, Settle
<1>4. ExceptionInv'
  BY <1>2, <1>3 DEF IInv, ExceptionInv
<1>5. StatusInv'
  BY DEF IInv, StatusInv, StatusTells, FailureIsRecorded, DeferredStatusTells,
         Return, Status
<1>6. QED
  BY <1>1, <1>4, <1>5 DEF IInv

-----------------------------------------------------------------------------
(* A step that changes only the scopes, with a status.                     *)
LEMMA ScopeStep ==
    ASSUME IInv, ScopeInv', UNCHANGED withoutScopes,
           lastError' \in Status,
           result' \in [status : Status, throws : BOOLEAN],
           result'.status \in {"ok", "handle_scope_mismatch", lastError'}
    PROVE  IInv'
<1> USE DEF withoutScopes
<1>1. StackInv'
  BY DEF IInv, StackInv
<1>2. ExceptionInv'
  BY DEF IInv, ExceptionInv, NoScriptWhilePending, Script, Running, Top,
         PendingBelongsToTop, ExceptionConserved, ThrownInScript
<1>3. StatusInv'
  BY DEF IInv, StatusInv, StatusTells, FailureIsRecorded, DeferredStatusTells
<1>4. QED
  BY <1>1, <1>2, <1>3 DEF IInv

LEMMA OpenScopeKeeps ==
    ASSUME IInv, NEW kind \in {"plain", "escapable"}, OpenScope(kind)
    PROVE  IInv'
<1>1. /\ scopes \in Seq(ScopeKinds) /\ kind \in ScopeKinds
      /\ Len(scopes) \in Nat /\ Len(scopes) < MaxScopes
      /\ openScopes = Len(scopes) /\ openScopes' = openScopes + 1
      /\ scopes' = Append(scopes, kind)
  BY LenProperties DEF OpenScope, IInv, ScopeInv, ScopeKinds
<1>2. scopes' \in Seq(ScopeKinds) /\ Len(scopes') = Len(scopes) + 1
  BY <1>1, AppendProperties
<1>3. openScopes' \in 0 .. MaxScopes /\ openScopes' = Len(scopes')
  BY <1>1, <1>2, BoundsAssumption
<1>4. ScopeInv'
  BY <1>2, <1>3 DEF OpenScope, IInv, ScopeInv, ScopeCheckHolds, withoutScopes
<1>5. QED
  BY <1>4, ScopeStep DEF OpenScope, Return, Status

(* A callback's own scopes are there to be closed.                         *)
LEMMA OwnScopesAreOpen ==
    ASSUME IInv, Native, OwnScopes > 0
    PROVE  Len(scopes) \in Nat \ {0}
<1>1. Len(scopes) \in Nat
  BY LenProperties DEF IInv, ScopeInv
<1>2. stack # <<>> => Top.depth \in Nat
  BY NativeFrame DEF IInv, ModuleFrame
<1>3. QED
  BY <1>1, <1>2 DEF OwnScopes

LEMMA CloseScopeKeeps == IInv /\ CloseScope => IInv'
<1> SUFFICES ASSUME IInv, CloseScope PROVE IInv'
  OBVIOUS
<1>1. scopes \in Seq(ScopeKinds) /\ Len(scopes) \in Nat \ {0}
  BY OwnScopesAreOpen DEF CloseScope, IInv, ScopeInv
<1>2. PICK n \in Nat : n = Len(scopes) - 1
  BY <1>1
<1>3. \A i \in 1 .. n : scopes[i] \in ScopeKinds
  BY <1>1, <1>2, ElementOfSeq
<1>4. SubSeq(scopes, 1, n) \in Seq(ScopeKinds) /\ Len(SubSeq(scopes, 1, n)) = n
  BY <1>3, SubSeqProperties
<1>5. ScopeInv'
  <2>0. /\ openScopes \in 0 .. MaxScopes /\ openScopes = Len(scopes)
        /\ openScopes' = openScopes - 1
        /\ scopes' = SubSeq(scopes, 1, Len(scopes) - 1)
    BY DEF CloseScope, IInv, ScopeInv
  <2>1. /\ openScopes \in 0 .. MaxScopes /\ openScopes = n + 1
        /\ openScopes' = openScopes - 1 /\ scopes' = SubSeq(scopes, 1, n)
    BY <1>1, <1>2, <2>0
  <2>2. openScopes' \in 0 .. MaxScopes /\ openScopes' = Len(scopes')
    BY <1>4, <2>1, BoundsAssumption
  <2>3. QED
    BY <1>4, <2>1, <2>2
       DEF CloseScope, IInv, ScopeInv, ScopeCheckHolds, withoutScopes
<1>6. QED
  BY <1>5, ScopeStep DEF CloseScope, Return, Status

LEMMA CloseNoScopeKeeps == IInv /\ CloseNoScope => IInv'
<1> SUFFICES ASSUME IInv, CloseNoScope PROVE IInv'
  OBVIOUS
<1>1. ScopeInv'
  BY DEF CloseNoScope, IInv, ScopeInv, ScopeCheckHolds, withoutScopes, scopeVars
<1>2. lastError' \in Status
  BY DEF CloseNoScope, IInv, StatusInv
<1>3. QED
  BY <1>1, <1>2, ScopeStep DEF CloseNoScope, Status

LEMMA EscapeHandleKeeps == IInv /\ EscapeHandle => IInv'
<1> SUFFICES ASSUME IInv, EscapeHandle PROVE IInv'
  OBVIOUS
<1>1. scopes \in Seq(ScopeKinds) /\ Len(scopes) \in Nat \ {0}
  BY OwnScopesAreOpen DEF EscapeHandle, IInv, ScopeInv
<1>2. /\ [scopes EXCEPT ![Len(scopes)] = "escaped"] \in Seq(ScopeKinds)
      /\ Len([scopes EXCEPT ![Len(scopes)] = "escaped"]) = Len(scopes)
  BY <1>1, ExceptSeq DEF ScopeKinds
<1>3. ScopeInv'
  BY <1>2 DEF EscapeHandle, Escape, IInv, ScopeInv, ScopeCheckHolds, withoutScopes
<1>4. PICK s \in {"ok", "escape_called_twice"} : Return(s)
  BY DEF EscapeHandle
<1>5. s \in Status /\ UNCHANGED withoutScopes
  BY <1>4 DEF Status, EscapeHandle
<1>6. QED
  BY <1>3, <1>4, <1>5, ScopeStep DEF Return

-----------------------------------------------------------------------------
(* A deferred that no script on the stack concludes, or that is concluded  *)
(* again, may change its view.                                             *)
LEMMA ViewsMatch ==
    ASSUME NEW s \in Seq(Frame), NEW d \in Deferred,
           NEW v \in View, NEW m \in Memory,
           deferred \in [Deferred -> [memory : Memory, module : View]],
           Conclusions(s, deferred),
           \/ deferred[d].module \in {"none", "held", "spent"}
           \/ v \in {deferred[d].module, "reentered"}
    PROVE  Conclusions(s, [deferred EXCEPT ![d] = [memory |-> m, module |-> v]])
<1> DEFINE w == [deferred EXCEPT ![d] = [memory |-> m, module |-> v]]
<1>1. /\ w[d].module = v
      /\ \A e \in Deferred : e # d => w[e] = deferred[e]
  OBVIOUS
<1>2. \A i \in 1 .. Len(s) : s[i].kind = "script" => s[i].concludes \subseteq Deferred
  BY ElementOfSeq DEF Frame, ModuleFrame, ScriptFrame
<1> HIDE DEF w
<1>3. Conclusions(s, w)
  BY <1>1, <1>2 DEF Conclusions
<1>4. QED
  BY <1>3 DEF w

(* A step that changes only a deferred, in a way its status tells.         *)
LEMMA DeferredStep ==
    ASSUME IInv, UNCHANGED withoutDeferred, NEW s \in Status, Return(s),
           NEW d \in Deferred, NEW m \in Memory, NEW v \in View,
           v \in {"held", "concluding"} => m = "open",
           v = "spent" => m = "freed",
           \/ deferred[d].module \in {"none", "held", "spent"}
           \/ v \in {deferred[d].module, "reentered"},
           deferred' = [deferred EXCEPT ![d] = [memory |-> m, module |-> v]]
    PROVE  IInv'
<1> USE DEF withoutDeferred, scopeVars
<1>1. StackInv'
  BY ViewsMatch DEF IInv, StackInv, StatusInv
<1>2. ScopeInv'
  BY DEF IInv, ScopeInv, ScopeCheckHolds
<1>3. ExceptionInv'
  BY DEF IInv, ExceptionInv, NoScriptWhilePending, Script, Running, Top,
         PendingBelongsToTop, ExceptionConserved, ThrownInScript
<1>4. DeferredStatusTells'
  BY DEF IInv, StatusInv, StatusTells, DeferredStatusTells
<1>5. deferred' \in [Deferred -> [memory : Memory, module : View]]
  BY DEF IInv, StatusInv
<1>6. StatusInv'
  BY <1>4, <1>5 DEF IInv, StatusInv, StatusTells, FailureIsRecorded, Return
<1>7. QED
  BY <1>1, <1>2, <1>3, <1>6 DEF IInv

LEMMA CreatePromiseKeeps ==
    ASSUME IInv, NEW d \in Deferred, CreatePromise(d)
    PROVE  IInv'
<1>1. /\ Return("ok") /\ "ok" \in Status /\ UNCHANGED withoutDeferred
      /\ "open" \in Memory /\ "held" \in View
      /\ deferred[d].module = "none"
      /\ deferred' = [deferred EXCEPT ![d] = [memory |-> "open",
                                              module |-> "held"]]
  BY DEF CreatePromise, Status, Memory, View
<1>2. QED
  BY <1>1, DeferredStep

LEMMA ConcludeDeferredKeeps ==
    ASSUME IInv, NEW d \in Deferred, ConcludeDeferred(d)
    PROVE  IInv'
<1>1. /\ deferred[d].memory = "open"
      /\ deferred[d].module \in {"held", "concluding"}
      /\ UNCHANGED withoutDeferred
      /\ lastException' = lastException
  BY DEF IInv, StatusInv, StatusTells, DeferredStatusTells, ConcludeDeferred,
         Passes, withoutDeferred
<1>2. ASSUME NEW s \in {"pending_exception", "cannot_run_js", "invalid_arg"},
             Return(s), Conclude(d, deferred[d].memory, s, "held")
      PROVE  IInv'
  <2>1. deferred' = [deferred EXCEPT ![d] = [memory |-> "open",
                                             module |-> deferred[d].module]]
    BY <1>1, <1>2 DEF Conclude, ToldGone
  <2>2. QED
    BY <1>1, <1>2, <2>1, DeferredStep DEF Status, Memory, View
<1>3. ASSUME NEW s \in {"ok", "generic_failure"}, Return(s),
             Conclude(d, Deleted(d), s, "held")
      PROVE  IInv'
  <2>1. deferred' = [deferred EXCEPT ![d] = [memory |-> "freed",
                                             module |-> After(d, "held")]]
    BY <1>1, <1>3 DEF Conclude, ToldGone, Deleted
  <2>2. After(d, "held") = IF deferred[d].module = "held" THEN "spent"
                           ELSE "reentered"
    BY DEF After
  <2>3. QED
    BY <1>1, <1>3, <2>1, <2>2, DeferredStep DEF Status, Memory, View
<1>4. QED
  BY <1>2, <1>3 DEF ConcludeDeferred, Preamble

-----------------------------------------------------------------------------
(* Scripts.                                                                *)

LEMMA EnterScriptKeeps ==
    ASSUME IInv, NEW c \in PreambleCalls, EnterScript(c)
    PROVE  IInv'
<1> DEFINE f == [kind |-> "script", thrownAs |-> c.thrownAs,
                 clears |-> c.clears, concludes |-> {}]
<1>1. /\ f \in Frame /\ f.kind = "script" /\ f.thrownAs # "ok"
      /\ f.concludes = {}
  BY PreambleCallsSound DEF SoundCall, Frame, ScriptFrame, Failure
<1>2. stack # <<>> => stack[Len(stack)].kind = "module"
  BY DEF EnterScript, Native, Running, Top
<1>3. /\ stack' \in Seq(Frame) /\ Len(stack') = Len(stack) + 1
      /\ stack'[Len(stack) + 1] = f /\ stack' # <<>> /\ Alternates(stack')
      /\ Conclusions(stack', deferred')
  <2>1. /\ stack \in Seq(Frame) /\ Alternates(stack) /\ stack' = Append(stack, f)
        /\ Conclusions(stack, deferred) /\ deferred' = deferred
    BY DEF IInv, StackInv, EnterScript
  <2> HIDE DEF f
  <2>2. QED
    BY <1>1, <1>2, <2>1, PushFrame, PushConclusions
<1>4. StackInv'
  BY <1>3, NativeFrame, BoundsAssumption DEF IInv, StackInv, EnterScript
<1>5. ScopeInv'
  BY DEF IInv, ScopeInv, ScopeCheckHolds, EnterScript, scopeVars
<1>6. ExceptionInv'
  <2>1. lastException' = NoException /\ thrown' = NoException
    BY DEF EnterScript, Preamble, Native, IInv, ExceptionInv, ThrownInScript
  <2>2. QED
    BY <2>1 DEF EnterScript, IInv, ExceptionInv, NoScriptWhilePending,
                PendingBelongsToTop, ExceptionConserved, ThrownInScript
<1>7. StatusInv'
  BY DEF IInv, StatusInv, StatusTells, FailureIsRecorded, DeferredStatusTells,
         Return, Status, EnterScript
<1>8. QED
  BY <1>4, <1>5, <1>6, <1>7 DEF IInv

(* A running script throws or catches, or a collection runs in it.         *)
LEMMA ScriptGoesOnKeeps ==
    ASSUME IInv,
           (\E e \in Exception : ScriptThrows(e)) \/ ScriptCatches \/ GcFinalizer
    PROVE  IInv'
<1> USE DEF ScriptThrows, ScriptCatches, GcFinalizer, callVars, scopeVars
<1>1. StackInv' /\ ScopeInv' /\ Script /\ UNCHANGED <<stack, process>>
  BY DEF IInv, StackInv, ScopeInv, ScopeCheckHolds
<1>2. StatusInv'
  BY <1>1 DEF IInv, StatusInv, StatusTells, FailureIsRecorded, Status,
     DeferredStatusTells, Native, Script, Running, Top
<1>3. NoScriptWhilePending' /\ PendingBelongsToTop' /\ ThrownInScript'
  BY <1>1 DEF IInv, ExceptionInv, NoScriptWhilePending, PendingBelongsToTop,
     ThrownInScript, Script, Running, Top
<1>4. ExceptionConserved' /\ fate' \in [Exception -> {"idle", "thrown", "pending"}]
  BY NoExceptionAssumption
     DEF IInv, ExceptionInv, ExceptionConserved, Settle
<1>5. ExceptionInv'
  BY <1>3, <1>4 DEF IInv, ExceptionInv
<1>6. QED
  BY <1>1, <1>2, <1>5 DEF IInv

(* A script is on top: what is below it is native code.                    *)
LEMMA ScriptFrameFacts ==
    ASSUME StackInv, Script
    PROVE  /\ process = "running" /\ stack # <<>>
           /\ Len(stack) \in 1 .. MaxDepth
           /\ Top \in ScriptFrame /\ Top.thrownAs # "ok"
           /\ Pop \in Seq(Frame) /\ Alternates(Pop)
           /\ Conclusions(Pop, deferred)
           /\ Len(Pop) = Len(stack) - 1
           /\ Pop # <<>> => Pop[Len(Pop)].kind = "module"
<1>1. process = "running" /\ stack # <<>> /\ Top.kind = "script"
  BY DEF Script, Running
<1>2. Len(stack) \in 1 .. MaxDepth /\ Top \in Frame /\ Top = stack[Len(stack)]
  BY <1>1, TopFrame
<1>3. Top \in ScriptFrame
  BY <1>1, <1>2 DEF Frame, ModuleFrame, ScriptFrame
<1>4. /\ Pop \in Seq(Frame) /\ Alternates(Pop) /\ Len(Pop) = Len(stack) - 1
      /\ Conclusions(Pop, deferred)
      /\ Pop = <<>> <=> Len(stack) = 1
      /\ \A i \in 1 .. Len(Pop) : Pop[i] = stack[i]
  BY <1>1, PopFrame, PopConclusions DEF StackInv, Pop
<1>5. /\ stack[Len(stack)].thrownAs # "ok"
      /\ Len(stack) > 1 => stack[Len(stack) - 1].kind = "module"
  BY <1>1, <1>2 DEF StackInv, Alternates
<1>6. Pop # <<>> => Pop[Len(Pop)].kind = "module"
  BY <1>2, <1>4, <1>5
<1>7. QED
  BY <1>1, <1>2, <1>3, <1>4, <1>5, <1>6

LEMMA ScriptReturnsKeeps == IInv /\ ScriptReturns => IInv'
<1> SUFFICES ASSUME IInv, ScriptReturns PROVE IInv'
  OBVIOUS
<1> USE DEF ScriptReturns, scopeVars
<1>1. /\ process = "running" /\ Len(stack) \in 1 .. MaxDepth
      /\ Top \in ScriptFrame /\ stack' = Pop
      /\ Pop \in Seq(Frame) /\ Alternates(Pop) /\ Len(Pop) = Len(stack) - 1
      /\ Conclusions(Pop, deferred)
  BY ScriptFrameFacts DEF IInv
<1>2. StackInv' /\ ScopeInv'
  BY <1>1, BoundsAssumption DEF IInv, StackInv, ScopeInv, ScopeCheckHolds
<1>3. lastException' = NoException /\ thrown' = NoException
  BY DEF IInv, ExceptionInv, NoScriptWhilePending
<1>4. ExceptionInv'
  BY <1>3 DEF IInv, ExceptionInv, NoScriptWhilePending,
     PendingBelongsToTop, ExceptionConserved, ThrownInScript
<1>5. StatusInv'
  BY DEF IInv, StatusInv, StatusTells, FailureIsRecorded, DeferredStatusTells,
         Status
<1>6. QED
  BY <1>2, <1>4, <1>5 DEF IInv

LEMMA ScriptFailsKeeps == IInv /\ ScriptFails => IInv'
<1> SUFFICES ASSUME IInv, ScriptFails PROVE IInv'
  OBVIOUS
<1> USE DEF ScriptFails, scopeVars
<1>1. /\ process = "running" /\ Len(stack) \in 1 .. MaxDepth
      /\ Top \in ScriptFrame /\ stack' = Pop
      /\ Pop \in Seq(Frame) /\ Alternates(Pop) /\ Len(Pop) = Len(stack) - 1
      /\ Conclusions(Pop, deferred)
      /\ Pop # <<>> => Pop[Len(Pop)].kind = "module"
  BY ScriptFrameFacts DEF IInv
<1>2. StackInv' /\ ScopeInv'
  BY <1>1, BoundsAssumption DEF IInv, StackInv, ScopeInv, ScopeCheckHolds
<1>3. lastException = NoException /\ thrown \in Exception
  BY DEF IInv, ExceptionInv, NoScriptWhilePending
<1>4. ExceptionInv'
  <2>1. /\ lastException' = thrown /\ raised' = Len(stack')
        /\ fate' = [fate EXCEPT ![thrown] = "pending"]
        /\ thrown' = NoException
    BY <1>1 DEF Pend
  <2>2. Running' = "module"
    BY <1>1 DEF Running, Top
  <2>3. NoScriptWhilePending' /\ PendingBelongsToTop' /\ ThrownInScript'
    BY <2>1, <2>2 DEF NoScriptWhilePending, Script, PendingBelongsToTop,
       ThrownInScript
  <2>4. ExceptionConserved'
    BY <1>3, <2>1, NoExceptionAssumption DEF IInv, ExceptionInv, ExceptionConserved
  <2>5. raised' \in 0 .. MaxDepth
    BY <1>1, <2>1, BoundsAssumption
  <2>6. QED
    BY <1>3, <2>1, <2>3, <2>4, <2>5 DEF IInv, ExceptionInv
<1>5. StatusInv'
  <2>1. Top.thrownAs \in Status
    BY <1>1 DEF ScriptFrame
  <2>2. QED
    BY <2>1 DEF IInv, StatusInv, StatusTells, FailureIsRecorded,
       DeferredStatusTells, Return
<1>6. QED
  BY <1>2, <1>4, <1>5 DEF IInv

(* The getter of "then" starts: the first script in the conclusion, or the *)
(* deferred was passed again.                                              *)
LEMMA ResolveRunsScriptKeeps ==
    ASSUME IInv, NEW d \in Deferred, ResolveRunsScript(d)
    PROVE  IInv'
<1> DEFINE f == [kind |-> "script", clears |-> FALSE,
                 thrownAs |-> "pending_exception", concludes |-> {d}]
           v == IF deferred[d].module = "held" THEN "concluding" ELSE "reentered"
<1>1. /\ f \in Frame /\ f.kind = "script" /\ f.thrownAs # "ok"
      /\ f.concludes = {d}
  BY DEF Frame, ScriptFrame, Status
<1>2. /\ stack # <<>> => stack[Len(stack)].kind = "module"
      /\ Native /\ Len(stack) < MaxDepth
      /\ stack' = Append(stack, f)
      /\ deferred[d].module \in {"held", "concluding"}
      /\ deferred[d].memory = "open"
      /\ UNCHANGED <<lastException, raised, fate, scopeVars, destructing,
                     thrown, process>>
  BY DEF ResolveRunsScript, Passes, Native, Running, Top, IInv, StatusInv,
         StatusTells, DeferredStatusTells
<1>3. /\ deferred' \in [Deferred -> [memory : Memory, module : View]]
      /\ deferred'[d].module = v /\ deferred'[d].memory = "open"
      /\ \A e \in Deferred : e # d => deferred'[e] = deferred[e]
  BY <1>2 DEF ResolveRunsScript, IInv, StatusInv, View
<1> HIDE DEF f
<1>4. /\ stack' \in Seq(Frame) /\ Len(stack') = Len(stack) + 1
      /\ stack'[Len(stack) + 1] = f /\ stack' # <<>> /\ Alternates(stack')
  BY <1>1, <1>2, PushFrame DEF IInv, StackInv
<1>5. Conclusions(stack', deferred')
  <2>1. /\ Len(stack) \in Nat
        /\ \A i \in 1 .. Len(stack) : stack'[i] = stack[i]
    BY <1>1, <1>2, AppendProperties, LenProperties DEF IInv, StackInv
  <2>2. \A i \in 1 .. Len(stack) : stack[i].kind = "script"
                                   => stack[i].concludes \subseteq Deferred
    BY ElementOfSeq DEF IInv, StackInv, Frame, ModuleFrame, ScriptFrame
  <2>3. Conclusions(stack, deferred)
    BY DEF IInv, StackInv
  <2>4. /\ Conclusions(stack, deferred')
        /\ v = "concluding" => \A i \in 1 .. Len(stack) : ~Concludes(stack, i, d)
    <3>1. CASE deferred[d].module = "held"
      <4>1. \A i \in 1 .. Len(stack) : ~Concludes(stack, i, d)
        BY <2>3, <3>1 DEF Conclusions, Concludes
      <4>2. Conclusions(stack, deferred')
        BY <1>3, <2>2, <2>3, <4>1, ChangeViews DEF Concludes
      <4>3. QED
        BY <4>1, <4>2
    <3>2. CASE deferred[d].module = "concluding"
      <4>1. v = "reentered"
        BY <3>2
      <4>2. Conclusions(stack, deferred')
        BY <1>3, <2>2, <2>3, <4>1, ChangeViews
      <4>3. QED
        BY <4>1, <4>2
    <3>3. QED
      BY <1>2, <3>1, <3>2
  <2>5. v \in {"concluding", "reentered"}
    OBVIOUS
  <2> HIDE DEF v
  <2>6. QED
    BY <1>1, <1>2, <1>3, <2>4, <2>5, PushConclusions DEF IInv, StackInv
<1>6. StackInv'
  BY <1>2, <1>4, <1>5, NativeFrame, BoundsAssumption DEF IInv, StackInv
<1>7. ScopeInv'
  BY <1>2 DEF IInv, ScopeInv, ScopeCheckHolds, scopeVars
<1>8. ExceptionInv'
  <2>1. lastException' = NoException /\ thrown' = NoException
    BY <1>2 DEF ResolveRunsScript, Preamble, Native, IInv, ExceptionInv,
                ThrownInScript
  <2>2. QED
    BY <1>2, <2>1 DEF IInv, ExceptionInv, NoScriptWhilePending,
                PendingBelongsToTop, ExceptionConserved, ThrownInScript
<1>9. StatusInv'
  <2>1. DeferredStatusTells'
    BY <1>2, <1>3 DEF IInv, StatusInv, StatusTells, DeferredStatusTells
  <2>2. QED
    BY <1>2, <1>3, <2>1 DEF IInv, StatusInv, StatusTells, FailureIsRecorded,
         Return, Status, ResolveRunsScript
<1>10. QED
  BY <1>6, <1>7, <1>8, <1>9 DEF IInv

(* The conclusion ends and deletes the deferred.                           *)
LEMMA ConcludeEndsKeeps ==
    ASSUME IInv, NEW d \in Deferred, ConcludeEnds(d)
    PROVE  IInv'
<1>1. /\ process = "running" /\ Len(stack) \in 1 .. MaxDepth
      /\ Top \in ScriptFrame /\ Top.concludes = {d} /\ stack' = Pop
      /\ Pop \in Seq(Frame) /\ Alternates(Pop) /\ Len(Pop) = Len(stack) - 1
      /\ Pop # <<>> => Pop[Len(Pop)].kind = "module"
      /\ lastException = NoException /\ thrown' = NoException
      /\ UNCHANGED <<scopeVars, destructing, process>>
  BY ScriptFrameFacts
     DEF IInv, ConcludeEnds, ExceptionInv, NoScriptWhilePending
<1>2. /\ result' \in [status : Status, throws : BOOLEAN]
      /\ lastError' \in Status
      /\ result'.status \in {"ok", lastError'}
      /\ ToldGone(result'.status)
  <2>1. lastError \in Status
    BY DEF IInv, StatusInv
  <2>2. CASE result' = [status |-> "ok", throws |-> FALSE] /\ UNCHANGED lastError
    BY <2>1, <2>2 DEF Status, ToldGone
  <2>3. CASE Return("generic_failure")
    BY <2>3 DEF Return, Status, ToldGone
  <2>4. CASE Pend(thrown, Len(stack) - 1) /\ Return("pending_exception")
                /\ thrown # NoException
    BY <1>1, <2>4 DEF Return, Status, ToldGone, Pend
  <2>5. QED
    BY <2>2, <2>3, <2>4 DEF ConcludeEnds
<1> DEFINE v == After(d, "concluding")
<1>3. /\ deferred' = [deferred EXCEPT ![d] = [memory |-> Deleted(d), module |-> v]]
      /\ v = IF deferred[d].module = "concluding" THEN "spent" ELSE "reentered"
  BY <1>2 DEF ConcludeEnds, Conclude, After
<1>4. /\ deferred \in [Deferred -> [memory : Memory, module : View]]
      /\ v \in View /\ Deleted(d) \in Memory
  BY <1>3 DEF IInv, StatusInv, View, Memory, Deleted
<1>5. /\ deferred' \in [Deferred -> [memory : Memory, module : View]]
      /\ deferred'[d].module = v /\ deferred'[d].memory = Deleted(d)
      /\ \A e \in Deferred : e # d => deferred'[e] = deferred[e]
  <2> HIDE DEF v
  <2>1. QED
    BY <1>3, <1>4
<1>6. deferred[d].module \in {"concluding", "reentered"}
  <2>1. Conclusions(stack, deferred) /\ Top.kind = "script" /\ Top = stack[Len(stack)]
    BY <1>1 DEF IInv, StackInv, Top, ScriptFrame
  <2>2. QED
    BY <1>1, <2>1 DEF Conclusions
<1>7. Conclusions(stack', deferred')
  <2>1. /\ Conclusions(stack, deferred) /\ Top.kind = "script"
        /\ Top = stack[Len(stack)] /\ stack # <<>>
        /\ stack \in Seq(Frame) /\ Alternates(stack)
    BY <1>1, EmptySeq DEF IInv, StackInv, Top, ScriptFrame
  <2>2. \A i \in 1 .. Len(Pop) : Pop[i] = stack[i]
    BY <2>1, PopFrame DEF Pop
  <2>3. \A i \in 1 .. Len(stack) : stack[i].kind = "script"
                                   => stack[i].concludes \subseteq Deferred
    BY <2>1, ElementOfSeq DEF Frame, ModuleFrame, ScriptFrame
  <2>4. CASE deferred[d].module = "concluding"
    <3>1. \A i \in 1 .. Len(Pop) : Pop[i].kind = "script"
                                   => d \notin Pop[i].concludes
      BY <1>1, <2>1, <2>2, <2>4 DEF Conclusions
    <3>2. Conclusions(Pop, deferred)
      BY <2>1, PopConclusions DEF Pop
    <3>3. QED
      BY <1>1, <1>5, <2>2, <2>3, <3>1, <3>2, ChangeViews
  <2>5. CASE deferred[d].module = "reentered"
    <3>1. v = "reentered"
      BY <1>3, <2>5
    <3>2. Conclusions(Pop, deferred)
      BY <2>1, PopConclusions DEF Pop
    <3>3. QED
      BY <1>1, <1>5, <2>2, <2>3, <3>1, <3>2, ChangeViews
  <2>6. QED
    BY <1>6, <2>4, <2>5
<1>8. StackInv' /\ ScopeInv'
  BY <1>1, <1>7, BoundsAssumption
     DEF IInv, StackInv, ScopeInv, ScopeCheckHolds, scopeVars
<1>9. ExceptionInv'
  <2>1. Running' = "module"
    BY <1>1 DEF Running, Top
  <2>2. CASE /\ thrown = NoException
             /\ UNCHANGED <<fate, lastException, raised>>
    BY <1>1, <2>1, <2>2 DEF IInv, ExceptionInv, NoScriptWhilePending,
       PendingBelongsToTop, ExceptionConserved, ThrownInScript
  <2>3. CASE /\ thrown # NoException /\ Settle(thrown)
             /\ UNCHANGED <<lastException, raised>>
    <3>1. ExceptionConserved' /\ fate' \in [Exception -> {"idle", "thrown", "pending"}]
      BY <1>1, <2>3, NoExceptionAssumption
         DEF IInv, ExceptionInv, ExceptionConserved, Settle
    <3>2. QED
      BY <1>1, <2>1, <2>3, <3>1 DEF IInv, ExceptionInv, NoScriptWhilePending,
         PendingBelongsToTop, ThrownInScript
  <2>4. CASE thrown # NoException /\ Pend(thrown, Len(stack) - 1)
    <3>1. /\ lastException' = thrown /\ raised' = Len(stack')
          /\ fate' = [fate EXCEPT ![thrown] = "pending"]
          /\ thrown \in Exception
      BY <1>1, <2>4 DEF Pend, IInv, ExceptionInv
    <3>2. NoScriptWhilePending' /\ PendingBelongsToTop' /\ ThrownInScript'
      BY <1>1, <2>1, <3>1 DEF NoScriptWhilePending, Script, PendingBelongsToTop,
         ThrownInScript
    <3>3. ExceptionConserved'
      BY <1>1, <3>1, NoExceptionAssumption
         DEF IInv, ExceptionInv, ExceptionConserved
    <3>4. raised' \in 0 .. MaxDepth
      BY <1>1, <3>1, BoundsAssumption
    <3>5. QED
      BY <1>1, <3>1, <3>2, <3>3, <3>4 DEF IInv, ExceptionInv
  <2>5. QED
    BY <2>2, <2>3, <2>4 DEF ConcludeEnds
<1>10. DeferredStatusTells'
  <2>1. deferred[d].module = "concluding" => Deleted(d) = "freed"
    BY DEF IInv, StatusInv, StatusTells, DeferredStatusTells, Deleted
  <2>2. QED
    BY <1>3, <1>5, <2>1 DEF IInv, StatusInv, StatusTells, DeferredStatusTells
<1>11. StatusInv'
  BY <1>1, <1>2, <1>5, <1>10 DEF IInv, StatusInv, StatusTells, FailureIsRecorded
<1>12. QED
  BY <1>8, <1>9, <1>11 DEF IInv

-----------------------------------------------------------------------------
(* Callbacks.                                                              *)

LEMMA CallIntoModuleKeeps ==
    ASSUME IInv, ScriptCallsModule \/ RunFinalizer \/ RunTask
    PROVE  IInv'
<1>1. PICK entry \in Entry :
         /\ CallIntoModule(entry)
         /\ lastException = NoException /\ thrown = NoException
         /\ IF entry = "function" THEN Script ELSE stack = <<>>
  BY DEF ScriptCallsModule, RunFinalizer, RunTask, Idle, Entry, IInv,
         ExceptionInv, NoScriptWhilePending, ThrownInScript, Running
<1> DEFINE f == [kind |-> "module", entry |-> entry, before |-> openScopes,
                 depth |-> Len(scopes)]
<1>2. /\ f \in Frame /\ f.kind = "module" /\ f.before = f.depth
      /\ f.entry = entry
  BY DEF IInv, ScopeInv, Frame, ModuleFrame
<1>3. IF entry = "function"
      THEN stack # <<>> /\ stack[Len(stack)].kind = "script"
      ELSE stack = <<>>
  BY <1>1 DEF Script, Running, Top
<1>4. /\ stack' \in Seq(Frame) /\ Len(stack') = Len(stack) + 1
      /\ stack'[Len(stack) + 1] = f /\ stack' # <<>> /\ Alternates(stack')
      /\ Conclusions(stack', deferred')
  <2>1. /\ stack \in Seq(Frame) /\ Alternates(stack) /\ stack' = Append(stack, f)
        /\ Conclusions(stack, deferred) /\ deferred' = deferred
    BY <1>1 DEF IInv, StackInv, CallIntoModule
  <2> HIDE DEF f
  <2>2. QED
    BY <1>2, <1>3, <2>1, PushFrame, PushConclusions
<1>5. StackInv'
  <2>1. Len(stack) \in Nat /\ Len(stack) < MaxDepth
    BY <1>1, LenProperties DEF IInv, StackInv, CallIntoModule
  <2>2. QED
    BY <1>4, <2>1, BoundsAssumption DEF StackInv
<1>6. ScopeInv'
  BY <1>1 DEF IInv, ScopeInv, ScopeCheckHolds, CallIntoModule, scopeVars
<1>7. ExceptionInv'
  BY <1>1 DEF CallIntoModule, IInv, ExceptionInv, NoScriptWhilePending,
              PendingBelongsToTop, ExceptionConserved, ThrownInScript
<1>8. StatusInv'
  BY <1>1 DEF IInv, StatusInv, StatusTells, FailureIsRecorded,
     DeferredStatusTells, Return, Status, CallIntoModule
<1>9. QED
  BY <1>5, <1>6, <1>7, <1>8 DEF IInv

(* A callback that has closed its scopes: the counter is what it was, and  *)
(* below a function is the script that called it.                          *)
LEMMA CallbackFacts ==
    ASSUME IInv, CallbackEnds
    PROVE  /\ process = "running" /\ stack # <<>>
           /\ Len(stack) \in 1 .. MaxDepth
           /\ Top \in ModuleFrame
           /\ openScopes = Top.before
           /\ Pop \in Seq(Frame) /\ Alternates(Pop)
           /\ Conclusions(Pop, deferred)
           /\ Len(Pop) = Len(stack) - 1
           /\ IF Top.entry = "function"
              THEN Pop # <<>> /\ Pop[Len(Pop)].kind = "script"
              ELSE Pop = <<>>
<1>1. /\ process = "running" /\ stack # <<>> /\ Native
      /\ stack \in Seq(Frame) /\ Alternates(stack)
      /\ Conclusions(stack, deferred)
  BY DEF CallbackEnds, Native, IInv, StackInv
<1>2. Len(stack) \in 1 .. MaxDepth /\ Top = stack[Len(stack)] /\ Top \in ModuleFrame
  BY <1>1, TopFrame, NativeFrame DEF IInv
<1>3. /\ Pop \in Seq(Frame) /\ Alternates(Pop) /\ Len(Pop) = Len(stack) - 1
      /\ Conclusions(Pop, deferred)
      /\ Pop = <<>> <=> Len(stack) = 1
      /\ \A i \in 1 .. Len(Pop) : Pop[i] = stack[i]
  BY <1>1, PopFrame, PopConclusions DEF Pop
<1>4. /\ Top.before = Top.depth
      /\ IF Top.entry = "function"
         THEN Len(stack) > 1 /\ stack[Len(stack) - 1].kind = "script"
         ELSE Len(stack) = 1
  <2>1. stack[Len(stack)].kind = "module"
    BY <1>2 DEF ModuleFrame
  <2>2. Len(stack) \in 1 .. Len(stack)
    BY <1>2
  <2>3. /\ stack[Len(stack)].before = stack[Len(stack)].depth
        /\ IF stack[Len(stack)].entry = "function"
           THEN Len(stack) > 1 /\ stack[Len(stack) - 1].kind = "script"
           ELSE Len(stack) = 1
    BY <1>1, <2>1, <2>2 DEF Alternates
  <2>4. QED
    BY <1>2, <2>3
<1>5. openScopes = Top.before
  <2>1. /\ openScopes = Len(scopes) /\ Len(scopes) \in Nat /\ Top.depth \in Nat
        /\ Len(scopes) - Top.depth = 0
    BY <1>1, <1>2, LenProperties
       DEF IInv, ScopeInv, ModuleFrame, CallbackEnds, OwnScopes
  <2>2. QED
    BY <1>4, <2>1
<1>6. QED
  BY <1>1, <1>2, <1>3, <1>4, <1>5

LEMMA CallbackReturnsKeeps == IInv /\ CallbackReturns => IInv'
<1> SUFFICES ASSUME IInv, CallbackReturns PROVE IInv'
  OBVIOUS
<1> USE DEF CallbackReturns
<1>1. /\ process = "running" /\ Len(stack) \in 1 .. MaxDepth
      /\ openScopes = Top.before /\ stack' = Pop /\ process' = process
      /\ Pop \in Seq(Frame) /\ Alternates(Pop) /\ Len(Pop) = Len(stack) - 1
      /\ Conclusions(Pop, deferred)
  BY CallbackFacts DEF CheckScopes
<1>2. StackInv' /\ ScopeInv'
  BY <1>1, BoundsAssumption
     DEF IInv, StackInv, ScopeInv, ScopeCheckHolds, CallbackEnds, scopeVars
<1>3. lastException' = NoException /\ thrown' = NoException
  BY DEF IInv, ExceptionInv, ThrownInScript, CallbackEnds, Native
<1>4. ExceptionInv'
  BY <1>3 DEF IInv, ExceptionInv, NoScriptWhilePending,
     PendingBelongsToTop, ExceptionConserved, ThrownInScript
<1>5. StatusInv'
  BY DEF IInv, StatusInv, StatusTells, FailureIsRecorded, DeferredStatusTells,
         CallbackEnds, callVars
<1>6. QED
  BY <1>2, <1>4, <1>5 DEF IInv

LEMMA CallbackRethrowsKeeps == IInv /\ CallbackRethrows => IInv'
<1> SUFFICES ASSUME IInv, CallbackRethrows PROVE IInv'
  OBVIOUS
<1> USE DEF CallbackRethrows
<1>1. /\ process = "running" /\ Len(stack) \in 1 .. MaxDepth
      /\ openScopes = Top.before /\ stack' = Pop /\ process' = process
      /\ Pop \in Seq(Frame) /\ Alternates(Pop) /\ Len(Pop) = Len(stack) - 1
      /\ Conclusions(Pop, deferred)
      /\ Top.entry = "function" => Pop # <<>> /\ Pop[Len(Pop)].kind = "script"
  BY CallbackFacts DEF CheckScopes
<1>2. StackInv' /\ ScopeInv'
  BY <1>1, BoundsAssumption
     DEF IInv, StackInv, ScopeInv, ScopeCheckHolds, CallbackEnds, scopeVars
<1>3. /\ lastException \in Exception /\ thrown = NoException
      /\ lastException' = NoException
  BY DEF IInv, ExceptionInv, ThrownInScript, CallbackEnds, Native
<1>4. ExceptionInv'
  <2>1. NoScriptWhilePending' /\ PendingBelongsToTop' /\ ThrownInScript'
    BY <1>1, <1>3 DEF NoScriptWhilePending, PendingBelongsToTop,
       ThrownInScript, Running, Top
  <2>2. ExceptionConserved' /\ fate' \in [Exception -> {"idle", "thrown", "pending"}]
    BY <1>3, NoExceptionAssumption
       DEF IInv, ExceptionInv, ExceptionConserved, Settle
  <2>3. QED
    BY <1>3, <2>1, <2>2 DEF IInv, ExceptionInv
<1>5. StatusInv'
  BY DEF IInv, StatusInv, StatusTells, FailureIsRecorded, DeferredStatusTells,
         CallbackEnds, callVars
<1>6. QED
  BY <1>2, <1>4, <1>5 DEF IInv

LEMMA FinalizerThrowsKeeps == IInv /\ FinalizerThrows => IInv'
<1> SUFFICES ASSUME IInv, FinalizerThrows PROVE IInv'
  OBVIOUS
<1> USE DEF FinalizerThrows
<1>1. process' = "fatal" /\ UNCHANGED stack
  BY CallbackFacts DEF CheckScopes
<1>2. StackInv' /\ ScopeInv'
  BY <1>1 DEF IInv, StackInv, ScopeInv, ScopeCheckHolds, CallbackEnds, scopeVars
<1>3. ExceptionInv'
  BY <1>1 DEF IInv, ExceptionInv, NoScriptWhilePending, Script, Running, Top,
     PendingBelongsToTop, ExceptionConserved, ThrownInScript
<1>4. StatusInv'
  BY <1>1 DEF IInv, StatusInv, StatusTells, FailureIsRecorded, Native,
     DeferredStatusTells, CallbackEnds, callVars
<1>5. QED
  BY <1>2, <1>3, <1>4 DEF IInv

LEMMA BeginDestructKeeps == IInv /\ BeginDestruct => IInv'
<1> SUFFICES ASSUME IInv, BeginDestruct PROVE IInv'
  OBVIOUS
<1> USE DEF BeginDestruct, callVars, scopeVars
<1>1. StackInv' /\ ScopeInv'
  BY DEF IInv, StackInv, ScopeInv, ScopeCheckHolds
<1>2. ExceptionInv'
  BY DEF IInv, ExceptionInv, NoScriptWhilePending, Script, Running, Top,
         PendingBelongsToTop, ExceptionConserved, ThrownInScript
<1>3. StatusInv'
  BY DEF IInv, StatusInv, StatusTells, FailureIsRecorded, Native, Running, Top,
         DeferredStatusTells
<1>4. QED
  BY <1>1, <1>2, <1>3 DEF IInv

-----------------------------------------------------------------------------
LEMMA InitIInv == Init => IInv
<1> SUFFICES ASSUME Init PROVE IInv
  OBVIOUS
<1> USE DEF Init
<1>1. <<>> \in Seq(Frame) /\ <<>> \in Seq(ScopeKinds) /\ Len(<<>>) = 0
  BY EmptySeq
<1>2. StackInv /\ ScopeInv
  BY <1>1, BoundsAssumption
     DEF StackInv, ScopeInv, ScopeCheckHolds, Alternates, Conclusions
<1>3. ExceptionInv
  BY BoundsAssumption DEF ExceptionInv, NoScriptWhilePending,
     PendingBelongsToTop, ExceptionConserved, ThrownInScript
<1>4. StatusInv
  BY DEF StatusInv, StatusTells, FailureIsRecorded, DeferredStatusTells, Status,
         Memory, View
<1>5. QED
  BY <1>2, <1>3, <1>4 DEF IInv

LEMMA NextIInv == IInv /\ [Next]_vars => IInv'
<1> SUFFICES ASSUME IInv, [Next]_vars PROVE IInv'
  OBVIOUS
<1>1. CASE ApiCall
  BY <1>1, SimpleCallKeeps, PlainCallKeeps, EnterScriptKeeps,
     ThrowingCallKeeps, GetLastErrorInfoKeeps, TakeExceptionKeeps,
     OpenScopeKeeps, CloseScopeKeeps, CloseNoScopeKeeps, EscapeHandleKeeps,
     CreatePromiseKeeps, ConcludeDeferredKeeps, ResolveRunsScriptKeeps
     DEF ApiCall
<1>2. CASE ScriptStep
  BY <1>2, ScriptGoesOnKeeps, CallIntoModuleKeeps, ScriptReturnsKeeps,
     ScriptFailsKeeps, ConcludeEndsKeeps DEF ScriptStep
<1>3. CASE CallbackStep
  BY <1>3, CallIntoModuleKeeps, CallbackReturnsKeeps, CallbackRethrowsKeeps,
     FinalizerThrowsKeeps, BeginDestructKeeps DEF CallbackStep
<1>4. CASE UNCHANGED vars
  <2>1. UNCHANGED <<quietly, lastException, raised, fate, lastError, result>>
    BY <1>4 DEF vars, quietly, scopeVars
  <2>2. StackInv' /\ ScopeInv'
    BY <2>1 DEF IInv, StackInv, ScopeInv, ScopeCheckHolds, quietly, scopeVars
  <2>3. ExceptionInv'
    BY <2>1 DEF IInv, ExceptionInv, NoScriptWhilePending, Script, Running, Top,
         PendingBelongsToTop, ExceptionConserved, ThrownInScript, quietly
  <2>4. StatusInv'
    BY <2>1 DEF IInv, StatusInv, StatusTells, FailureIsRecorded, Native,
         Running, Top, DeferredStatusTells, quietly
  <2>5. QED
    BY <2>2, <2>3, <2>4 DEF IInv
<1>5. QED
  BY <1>1, <1>2, <1>3, <1>4 DEF Next

LEMMA Invariance == Spec => []IInv
BY InitIInv, NextIInv, PTL DEF Spec

(* Through any nesting of scripts and callbacks no script runs while an    *)
(* exception is pending, a pending exception is that of the innermost      *)
(* native frame, and none is lost or duplicated (NAPI_PREAMBLE,            *)
(* CallIntoModule, ~TryCatch).                                             *)
THEOREM PendingExceptionIsSoundHolds == Spec => []PendingExceptionIsSound
<1>1. IInv => PendingExceptionIsSound
  BY DEF IInv, StackInv, ScopeInv, ExceptionInv, StatusInv, Frame, ScopeKinds,
         PendingExceptionIsSound, TypeOK, Memory, View
<1>2. QED
  BY <1>1, Invariance, PTL

(* The last error is the status a call failed with, and the status of      *)
(* ConcludeDeferred, with the exception that may come with it, tells       *)
(* whether the deferred is gone, whatever the getter of "then" did while   *)
(* it was concluded except concluding it a second time.                    *)
THEOREM StatusTellsHolds == Spec => []StatusTells
<1>1. IInv => StatusTells
  BY DEF IInv, StatusInv
<1>2. QED
  BY <1>1, Invariance, PTL

(* CHECK_EQ(open_handle_scopes, open_handle_scopes_before) of              *)
(* CallIntoModule never fails for callbacks that close their scopes.       *)
THEOREM ScopeCheckHoldsAlways == Spec => []ScopeCheckHolds
<1>1. IInv => ScopeCheckHolds
  BY DEF IInv, ScopeInv
<1>2. QED
  BY <1>1, Invariance, PTL

(* A call that returns napi_ok has left no exception behind, unless it is  *)
(* one whose purpose is to throw.                                          *)
THEOREM OkMeansNoExceptionHolds == Spec => OkMeansNoException
<1> DEFINE A == /\ lastException = NoException
                /\ lastException' # NoException
                => result'.throws \/ result'.status # "ok"
<1>1. ASSUME IInv, [Next]_vars PROVE [A]_vars
  <2> SUFFICES ASSUME lastException = NoException,
                      lastException' # NoException, Next
               PROVE  result'.throws \/ result'.status # "ok"
    BY <1>1 DEF vars
  <2>1. ASSUME NEW c \in PreambleCalls, NEW e \in Exception,
               ConversionThrows(c, e) \/ Raise(c, e)
        PROVE  result'.throws \/ result'.status # "ok"
    <3>1. c.converts # "ok"
      BY PreambleCallsSound DEF SoundCall, Failure
    <3>2. CASE ConversionThrows(c, e)
      BY <3>1, <3>2 DEF ConversionThrows, Return
    <3>3. CASE Raise(c, e)
      <4>1. result' = [status |-> c.raises, throws |-> c.raises = "ok"]
        BY <3>3 DEF Raise
      <4>2. CASE c.raises = "ok"
        BY <4>1, <4>2
      <4>3. CASE c.raises # "ok"
        BY <4>1, <4>3
      <4>4. QED
        BY <4>2, <4>3
    <3>4. QED
      BY <2>1, <3>2, <3>3
  <2>2. CASE ScriptFails
    BY <1>1, <2>2, ScriptFrameFacts DEF IInv, ScriptFails, Return
  <2>3. ASSUME NEW d \in Deferred, ConcludeEnds(d)
        PROVE  result'.throws \/ result'.status # "ok"
    BY <2>3 DEF ConcludeEnds, Return
  <2>4. QED
    BY <2>1, <2>2, <2>3
       DEF Next, ApiCall, ScriptStep, CallbackStep, SimpleCall,
       RefuseCall, RejectArgument, Complete, EnterScript, GetLastErrorInfo,
       TakeException, OpenScope, CloseScope, CloseNoScope, EscapeHandle,
       CreatePromise, ConcludeDeferred, ResolveRunsScript, withoutScopes,
       withoutDeferred, ScriptThrows, ScriptCatches, ScriptCallsModule,
       ScriptReturns, GcFinalizer, RunFinalizer, RunTask, CallIntoModule,
       CallbackReturns, CallbackRethrows, FinalizerThrows, BeginDestruct
<1>2. QED
  BY <1>1, Invariance, PTL DEF Spec, OkMeansNoException
=============================================================================
