---------------------------- MODULE ScriptStore ----------------------------
(***************************************************************************)
(* How scripts are loaded, run, prepared and kept in the script store of   *)
(* the application.                                                        *)
(*                                                                         *)
(* Source: V8JsiRuntime.cpp (loadJavaScript, evaluateJavaScript,           *)
(* ExecuteString, prepareJavaScript, prepareJavaScript2, the evaluation of *)
(* prepared scripts), ExternalOwningOneByteStringResource in               *)
(* V8JsiRuntime_impl.h, and NodeApiJsiBuffer, V8ScriptCache and the script *)
(* functions of NodeApiEnv in node-api/v8_api.cpp.                         *)
(*                                                                         *)
(* All scripts have one URL, so that only the hash of their text tells     *)
(* them apart, and one length, so that V8, which compares lengths, accepts *)
(* the code of one for the text of another.  A script runs in a frame of   *)
(* stack, during which it may call the application and run other scripts.  *)
(* The store outlives the process: a restart may bring another V8.         *)
(***************************************************************************)
EXTENDS Naturals, Sequences, FiniteSets, SequencesExt

CONSTANTS
    Source,     \* the texts of scripts; the hash of a text is the text
    Ascii,      \* those that become an external string of V8
    Bad,        \* those V8 cannot compile
    Version,    \* the values of v8::ScriptCompiler::CachedDataVersionTag
    Buffer,     \* instances of jsi::Buffer
    Str,        \* strings V8 has of the source of a script
    Prepared,   \* instances of V8PreparedJavaScript
    None,       \* no buffer, string, prepared script or entry
    MaxDepth,   \* bound: scripts that run within each other
    MaxRestart  \* bound: restarts of the process

ASSUME SourceAssumption == Ascii \subseteq Source /\ Bad \subseteq Source
ASSUME NoneAssumption ==
    None \notin Buffer \cup Str \cup Prepared \cup Source \cup Version
ASSUME OwnerAssumption ==
    "caller" \notin Str \cup Prepared /\ Str \cap Prepared = {}
ASSUME BoundAssumption == MaxDepth \in Nat /\ MaxRestart \in Nat

VARIABLES
    version,   \* external: the version tag of this process
    restarts,  \* how often the process was restarted
    runtime,   \* is there a runtime
    hasStore,  \* args_.preparedScriptStore
    store,     \* external: what the application keeps, by signature
    writes,    \* external: what it was given and has not yet written
    buf,       \* the buffers, with the shared_ptrs that own them
    str,       \* external: the strings of V8
    prep,      \* V8PreparedJavaScript
    stack,     \* the scripts that run
    ranToEnd   \* the sources that some process has run to their end

memVars == <<buf, str, prep, stack>>
vars == <<version, restarts, runtime, hasStore, store, writes, memVars,
          ranToEnd>>

NoBuf  == [src |-> None, owners |-> {}, deleted |-> 0]
NoStr  == [state |-> "none", buf |-> None, src |-> None]
NoPrep == [state |-> "none", buf |-> None, hash |-> None, code |-> None,
           str |-> None]

NoEntry == [src |-> None, version |-> None, intact |-> FALSE]

Key == Source \X Version

Init ==
    /\ version \in Version
    /\ restarts = 0
    /\ runtime = TRUE
    /\ hasStore \in BOOLEAN
    /\ store = [k \in Key |-> NoEntry]
    /\ writes = {}
    /\ buf = [b \in Buffer |-> NoBuf]
    /\ str = [s \in Str |-> NoStr]
    /\ prep = [p \in Prepared |-> NoPrep]
    /\ stack = <<>>
    /\ ranToEnd = {}

\* The application may call: on its own or from a script that runs.
MayCall == runtime /\ Len(stack) < MaxDepth

Live(b) == buf[b].owners # {}

-----------------------------------------------------------------------------
(* Buffers and strings.                                                    *)

\* The last owner of a buffer goes: its destructor gives the data back.
Unowned(bf, b, o) ==
    [bf EXCEPT ![b].owners = @ \ {o},
               ![b].deleted = IF bf[b].owners = {o} THEN @ + 1 ELSE @]

\* Each buffer b loses the owners gone[b] at once.
UnownedAll(bf, gone) ==
    [b \in Buffer |->
        [bf[b] EXCEPT !.owners = @ \ gone[b],
                      !.deleted = IF bf[b].owners # {}
                                     /\ bf[b].owners \subseteq gone[b]
                                  THEN @ + 1 ELSE @]]

\* The application makes a buffer for a source.
MakeBuffer(b, x) ==
    /\ runtime
    /\ ~Live(b)
    /\ buf' = [buf EXCEPT ![b] = [src |-> x, owners |-> {"caller"},
                                  deleted |-> 0]]
    /\ UNCHANGED <<version, restarts, runtime, hasStore, store, writes, str,
                   prep, stack, ranToEnd>>

\* The application lets go of its buffer, between its calls.
ReleaseBuffer(b) ==
    /\ "caller" \in buf[b].owners
    /\ \A i \in 1..Len(stack) : stack[i].arg # b
    /\ buf' = Unowned(buf, b, "caller")
    /\ UNCHANGED <<version, restarts, runtime, hasStore, store, writes, str,
                   prep, stack, ranToEnd>>

\* The data behind a prepared script changes while no string is made of it.
ChangeData(b, x) ==
    /\ Live(b)
    /\ buf[b].src # x
    /\ \A s \in Str : str[s].buf # b
    /\ buf' = [buf EXCEPT ![b].src = x]
    /\ UNCHANGED <<version, restarts, runtime, hasStore, store, writes, str,
                   prep, stack, ranToEnd>>

\* The ExternalOwningOneByteStringResource of a string owns the buffer.
StringOwner_Mutant(s) == {}

StringOwner(s) == {s}

\* loadJavaScript: an ASCII source is used where it is, others are copied.
LoadedStr(b, s, state) ==
    [str EXCEPT ![s] = [state |-> state, src |-> buf[b].src,
                        buf |-> IF buf[b].src \in Ascii THEN b ELSE None]]

LoadedBuf(b, s) ==
    IF buf[b].src \in Ascii
    THEN [buf EXCEPT ![b].owners = @ \cup StringOwner(s)]
    ELSE buf

\* The collector takes a string no code and no handle needs.
CollectString(s) ==
    /\ str[s].state = "garbage"
    /\ str' = [str EXCEPT ![s] = NoStr]
    /\ buf' = IF str[s].buf = None THEN buf ELSE Unowned(buf, str[s].buf, s)
    /\ UNCHANGED <<version, restarts, runtime, hasStore, store, writes, prep,
                   stack, ranToEnd>>

\* JavaScript lets go of the last function of a script.
DropCode(s) ==
    /\ str[s].state = "used"
    /\ \A i \in 1..Len(stack) : stack[i].str # s
    /\ \A p \in Prepared : prep[p].str # s
    /\ str' = [str EXCEPT ![s].state = "garbage"]
    /\ UNCHANGED <<version, restarts, runtime, hasStore, store, writes, buf,
                   prep, stack, ranToEnd>>

-----------------------------------------------------------------------------
(* The store.                                                              *)

\* The ScriptSignature and the JSRuntimeSignature of a source.
Signature_Mutant(x) == <<CHOOSE y \in Source : TRUE, version>>

Signature(x) == <<x, version>>

\* tryGetPreparedScript.
Cached(x) == IF hasStore THEN store[Signature(x)] ELSE NoEntry

\* External: V8 takes cached data that is whole, of its own version and of a
\* source as long as this one; otherwise it compiles the source.
CodeOf(x, c) ==
    IF c.intact /\ c.version = version THEN c.src ELSE x

\* ExecuteString keeps what it compiled when it did not ask V8 to consume
\* cached data.
Keeps(x) == hasStore /\ Cached(x) = NoEntry

\* persistPreparedScript.
Persisted(f) ==
    IF f.keep
    THEN writes \cup {[key |-> Signature(f.src),
                       entry |-> [src |-> f.code, version |-> version,
                                  intact |-> TRUE]]}
    ELSE writes

\* The application writes what it was given.
FinishWrite(w) ==
    /\ writes' = writes \ {w}
    /\ store' = [store EXCEPT ![w.key] = w.entry]
    /\ UNCHANGED <<version, restarts, runtime, hasStore, memVars, ranToEnd>>

\* An entry is lost or damaged.
LoseEntry(k) ==
    /\ store[k] # NoEntry
    /\ \/ store' = [store EXCEPT ![k] = NoEntry]
       \/ store[k].intact /\ store' = [store EXCEPT ![k].intact = FALSE]
    /\ UNCHANGED <<version, restarts, runtime, hasStore, writes, memVars,
                   ranToEnd>>

-----------------------------------------------------------------------------
(* Running scripts.                                                        *)

Frame(x, c, s, b, keep) ==
    [src |-> x, code |-> c, str |-> s, arg |-> b, keep |-> keep]

\* evaluateJavaScript: loadJavaScript and the first half of ExecuteString.
EvaluateJavaScript(b, s) ==
    /\ MayCall
    /\ "caller" \in buf[b].owners
    /\ str[s] = NoStr
    /\ LET x == buf[b].src
       IN  IF x \in Bad
           THEN /\ str' = LoadedStr(b, s, "garbage")
                /\ UNCHANGED stack
           ELSE /\ str' = LoadedStr(b, s, "used")
                /\ stack' = Append(stack, Frame(x, CodeOf(x, Cached(x)), s, b,
                                                Keeps(x)))
    /\ buf' = LoadedBuf(b, s)
    /\ UNCHANGED <<version, restarts, runtime, hasStore, store, writes, prep,
                   ranToEnd>>

\* jsr_run_script: a string of the application, and no store.  A source that
\* does not compile leaves the exception pending and nothing else.
RunScript(x) ==
    /\ MayCall
    /\ x \notin Bad
    /\ stack' = Append(stack, Frame(x, x, None, None, FALSE))
    /\ UNCHANGED <<version, restarts, runtime, hasStore, store, writes, buf,
                   str, prep, ranToEnd>>

\* A script that throws is not kept.
KeepsRun(f, ok) == f.keep /\ ok

\* The second half of ExecuteString, and the end of the other evaluations.
\* Except for jsr_run_script the exception of the script becomes a JSError,
\* which leaves the functions of the C API as well.
EndRun(ok) ==
    /\ stack # <<>>
    /\ LET f == Last(stack)
       IN  /\ writes' = Persisted([f EXCEPT !.keep = KeepsRun(f, ok)])
           /\ ranToEnd' = IF ok THEN ranToEnd \cup {f.code} ELSE ranToEnd
    /\ stack' = Front(stack)
    /\ UNCHANGED <<version, restarts, runtime, hasStore, store, buf, str,
                   prep>>

-----------------------------------------------------------------------------
(* Prepared scripts.                                                       *)

\* prepareJavaScript: the code is copied into the prepared script, which
\* keeps the buffer too; the compiled script itself is dropped.
PrepareJavaScript(b, s, p) ==
    /\ MayCall
    /\ "caller" \in buf[b].owners
    /\ str[s] = NoStr /\ prep[p] = NoPrep
    /\ str' = LoadedStr(b, s, "garbage")
    /\ IF buf[b].src \in Bad
       THEN /\ buf' = LoadedBuf(b, s)
            /\ UNCHANGED prep
       ELSE /\ buf' = [LoadedBuf(b, s) EXCEPT ![b].owners = @ \cup {p}]
            /\ prep' = [prep EXCEPT ![p] = [state |-> "jsi", buf |-> b,
                                            hash |-> buf[b].src,
                                            code |-> buf[b].src,
                                            str |-> None]]
    /\ UNCHANGED <<version, restarts, runtime, hasStore, store, writes, stack,
                   ranToEnd>>

\* evaluatePreparedJavaScript compares the hash of the buffer first.  The
\* version cannot differ: a process has one.
HashMatches(p) == buf[prep[p].buf].src = prep[p].hash

EvaluatePreparedJavaScript(p, s) ==
    /\ MayCall
    /\ prep[p].state = "jsi"
    /\ str[s] = NoStr
    /\ LET b == prep[p].buf
           x == buf[b].src
       IN  /\ buf' = LoadedBuf(b, s)
           /\ IF HashMatches(p)
              THEN /\ str' = LoadedStr(b, s, "used")
                   /\ stack' = Append(stack,
                                 Frame(x, prep[p].code, s, b, FALSE))
              ELSE /\ str' = LoadedStr(b, s, "garbage")
                   /\ UNCHANGED stack
    /\ UNCHANGED <<version, restarts, runtime, hasStore, store, writes, prep,
                   ranToEnd>>

\* jsr_create_prepared_script takes the data into a buffer of its own; the
\* caller's share is the shared_ptr on the stack, which goes when the call
\* ends, also when it ends with an exception.
TakenOver(b, x, owners) ==
    Unowned([buf EXCEPT ![b] = [src |-> x, owners |-> {"caller"} \cup owners,
                                deleted |-> 0]],
            b, "caller")

\* prepareJavaScript2 looks into the store and never writes to it:
\* ReportException has thrown before the cache would be rebuilt.
CreatePreparedScript(b, x, s, p) ==
    /\ MayCall
    /\ ~Live(b) /\ str[s] = NoStr /\ prep[p] = NoPrep
    /\ LET strings == IF x \in Ascii THEN StringOwner(s) ELSE {}
           loaded(state) ==
               [str EXCEPT ![s] = [state |-> state, src |-> x,
                                   buf |-> IF x \in Ascii THEN b ELSE None]]
       IN  IF x \in Bad
           THEN /\ buf' = TakenOver(b, x, strings)
                /\ str' = loaded("garbage")
                /\ UNCHANGED prep
           ELSE /\ buf' = TakenOver(b, x, strings \cup {p})
                /\ str' = loaded("used")
                /\ prep' = [prep EXCEPT ![p] = [state |-> "c", buf |-> b,
                                                hash |-> x, str |-> s,
                                                code |-> CodeOf(x, Cached(x))]]
    /\ UNCHANGED <<version, restarts, runtime, hasStore, store, writes, stack,
                   ranToEnd>>

\* evaluatePreparedJavaScript2 runs the handle of the compiled script.
HandleFrame(p) == Frame(prep[p].hash, prep[p].code, prep[p].str, None, FALSE)

\* jsr_prepared_script_run.
RunPreparedScript(p) ==
    /\ MayCall
    /\ prep[p].state = "c"
    /\ stack' = Append(stack, HandleFrame(p))
    /\ UNCHANGED <<version, restarts, runtime, hasStore, store, writes, buf,
                   str, prep, ranToEnd>>

\* jsr_delete_prepared_script, or the last shared_ptr of the application.
\* The application does not delete a script while it runs it.
DeletePreparedScript(p) ==
    /\ prep[p] # NoPrep
    /\ prep[p].state = "c" => runtime
    /\ \A i \in 1..Len(stack) :
         /\ stack[i].arg # prep[p].buf
         /\ prep[p].str # None => stack[i].str # prep[p].str
    /\ buf' = Unowned(buf, prep[p].buf, p)
    /\ prep' = [prep EXCEPT ![p] = NoPrep]
    /\ UNCHANGED <<version, restarts, runtime, hasStore, store, writes, str,
                   stack, ranToEnd>>

-----------------------------------------------------------------------------
(* The end of the runtime and of the process.                              *)

\* The isolate is disposed, and with it every string.  The application has
\* deleted the scripts of the C API before; those of JSI may stay.
DeleteRuntime ==
    /\ runtime
    /\ stack = <<>>
    /\ \A p \in Prepared : prep[p].state # "c"
    /\ runtime' = FALSE
    /\ str' = [s \in Str |-> NoStr]
    /\ buf' = UnownedAll(buf, [b \in Buffer |-> {s \in Str : str[s].buf = b}])
    /\ UNCHANGED <<version, restarts, hasStore, store, writes, prep, stack,
                   ranToEnd>>

\* The process ends, at any time, and is started again: only the store stays.
Restart(v) ==
    /\ restarts < MaxRestart
    /\ restarts' = restarts + 1
    /\ version' = v
    /\ runtime' = TRUE
    /\ writes' = {}
    /\ buf' = [b \in Buffer |-> NoBuf]
    /\ str' = [s \in Str |-> NoStr]
    /\ prep' = [p \in Prepared |-> NoPrep]
    /\ stack' = <<>>
    /\ UNCHANGED <<hasStore, store, ranToEnd>>

Next ==
    \/ \E b \in Buffer :
         \/ \E x \in Source : MakeBuffer(b, x) \/ ChangeData(b, x)
         \/ ReleaseBuffer(b)
         \/ \E s \in Str :
              \/ EvaluateJavaScript(b, s)
              \/ \E p \in Prepared :
                   \/ PrepareJavaScript(b, s, p)
                   \/ \E x \in Source : CreatePreparedScript(b, x, s, p)
    \/ \E s \in Str : CollectString(s) \/ DropCode(s)
    \/ \E p \in Prepared :
         \/ \E s \in Str : EvaluatePreparedJavaScript(p, s)
         \/ RunPreparedScript(p)
         \/ DeletePreparedScript(p)
    \/ \E x \in Source : RunScript(x)
    \/ \E ok \in BOOLEAN : EndRun(ok)
    \/ \E w \in writes : FinishWrite(w)
    \/ \E k \in Key : LoseEntry(k)
    \/ DeleteRuntime
    \/ \E v \in Version : Restart(v)

Spec == Init /\ [][Next]_vars

-----------------------------------------------------------------------------
(***************************************************************************)
(* Properties.                                                             *)
(***************************************************************************)

(* Every variable has a value the code gives it; the data of a buffer is   *)
(* given back at most once.                                                *)
TypeOK ==
    /\ version \in Version
    /\ \A k \in Key :
         store[k] # NoEntry => /\ store[k].src \in Source
                            /\ store[k].version \in Version
    /\ \A b \in Buffer :
         /\ buf[b].src \in Source \cup {None}
         /\ buf[b].owners \subseteq {"caller"} \cup Str \cup Prepared
         /\ buf[b].deleted \in 0..1
    /\ \A s \in Str : str[s].state \in {"none", "used", "garbage"}
    /\ \A p \in Prepared : prep[p].state \in {"none", "jsi", "c"}
    /\ Len(stack) \in 0..MaxDepth

(* The code that runs is that of the source the caller gave: what the      *)
(* store returns, possibly written by another version or for an earlier    *)
(* text at the same URL, is never run for another source, and neither is a *)
(* prepared script whose data has changed.                                 *)
RunsItsSource ==
    /\ \A i \in 1..Len(stack) : stack[i].code = stack[i].src
    /\ \A p \in Prepared : prep[p].code = prep[p].hash

(* V8 reads the text of an external string whenever it compiles a function *)
(* of the script, long after the script has run: the data is not given     *)
(* back while V8 has the string, whoever else let go of the buffer.        *)
SourceOutlivesCode ==
    \A s \in Str :
        str[s].buf # None => /\ buf[str[s].buf].deleted = 0
                             /\ buf[str[s].buf].src = str[s].src

(* The data of a buffer is given back when its last owner goes, and once:  *)
(* neither a failed compilation, a deleted runtime nor a prepared script   *)
(* leaks it.                                                               *)
GivenBackWithLastOwner ==
    \A b \in Buffer :
        buf[b] # NoBuf => buf[b].deleted = IF Live(b) THEN 0 ELSE 1

(* The data of a script's buffer is there while V8 has a string on it, and *)
(* is given back once, when the last owner goes, also when the compilation *)
(* fails in between (ExternalOwningOneByteStringResource,                  *)
(* V8JsiRuntime_impl.h:560).                                               *)
BuffersOutliveUse ==
    /\ SourceOutlivesCode
    /\ GivenBackWithLastOwner

(* What the store has under a signature is code of that source and that    *)
(* version, of a script that some process has run to its end; a script     *)
(* that throws leaves nothing there.                                       *)
StoreHasWhatRan ==
    /\ \A k \in Key :
         store[k] # NoEntry => /\ store[k].src = k[1] /\ store[k].version = k[2]
                            /\ store[k].src \in ranToEnd
    /\ \A w \in writes : w.entry.src = w.key[1] /\ w.entry.src \in ranToEnd

(* The code that runs is that of the source the caller gave, whatever the  *)
(* store returns, and what the store has under a signature is code of that *)
(* source and version, of a script that ran to its end                     *)
(* (V8JsiRuntime.cpp:594-640).                                             *)
CodeIsOfItsSource ==
    /\ TypeOK
    /\ RunsItsSource
    /\ StoreHasWhatRan

=============================================================================
