--------------------------- MODULE InspectorAgent ---------------------------
(***************************************************************************)
(* One debugging target (AgentImpl) and the sessions the socket server     *)
(* opens on it.                                                            *)
(*                                                                         *)
(* Source: inspector/inspector_agent.cpp and the session callbacks of      *)
(* inspector/inspector_socket_server.cpp.                                  *)
(*                                                                         *)
(* Two threads.  The server's I/O thread reports what happens on the       *)
(* sockets by PostIncomingMessage.  The JS thread takes the messages out   *)
(* in DispatchMessages, which it reaches from a posted task, from a V8     *)
(* interrupt, from the nested loop of a pause, from waitForDebugger and    *)
(* from Stop.  "stack" holds the functions that are active on the JS       *)
(* thread, the last one on top:                                            *)
(*   script    JavaScript of the host         evaluate  of the frontend    *)
(*   dispatch  DispatchMessages               loop  runMessageLoopOnPause  *)
(*   wait      WaitForFrontendMessage         stop  Stop                   *)
(*   attach    waitForDebugger, before the first message                   *)
(*   spin      waitForDebugger, while waiting_for_frontend_                *)
(* What goes back to the frontend is the business of TcpConnection.        *)
(***************************************************************************)
EXTENDS Naturals, Sequences, FiniteSets

CONSTANTS
    Session,      \* session ids, each used once
    MaxAttached,  \* bound: sessions attached to the target at one time
    MaxPosted,    \* bound: a frontend sends no more once so many were posted
    Pauses,       \* whether the frontend sets breakpoints
    BreakOnStart  \* whether the host may call waitForDebugger

ASSUME ConstantsAssumption ==
    /\ MaxAttached \in Nat /\ MaxPosted \in Nat
    /\ Pauses \in BOOLEAN /\ BreakOnStart \in BOOLEAN

VARIABLES
    state,                   \* AgentImpl::state_
    session,                 \* the session_id_ of session_, if that is set
    waiting_for_frontend,    \* AgentImpl::waiting_for_frontend_
    shutting_down,           \* AgentImpl::shutting_down_
    waiting_for_resume,      \* V8NodeInspector::waiting_for_resume_
    dispatching_messages,    \* AgentImpl::dispatching_messages_
    incoming_message_queue,  \* AgentImpl::incoming_message_queue_
    batch,                   \* what DispatchMessages has still to do of "tasks"
    stack,                   \* JS thread, see above
    waiter,                  \* JS thread in the condition variable's wait
    tasks,                   \* posted DispatchOnInspectorBackendTasks
    interrupts,              \* requested V8 interrupts
    io,                      \* where the I/O thread is in PostIncomingMessage
    conn,                    \* the server's entry for each session
    target,                  \* the server lists the agent as a target
    failure,                 \* how the process died
    posted, delivered        \* history: messages appended, and processed

agentVars == <<state, session, waiting_for_frontend, shutting_down,
               waiting_for_resume>>
queueVars == <<incoming_message_queue, posted>>
jsVars    == <<batch, delivered, stack, waiter, dispatching_messages>>
wakeVars  == <<tasks, interrupts>>
vars == <<agentVars, queueVars, jsVars, wakeVars, io, conn, target, failure>>

-----------------------------------------------------------------------------
NoSession == "none"
ASSUME SessionAssumption == NoSession \notin Session

\* Tags, and the messages of the protocol that the code tells apart.  V8
\* leaves the pause on "resume" and runs JavaScript on "evaluate".
Tags     == {"connect", "disconnect"}
Protocol == {"runIfWaitingForDebugger", "resume", "evaluate"}
Message  == Session \X (Tags \cup Protocol)

Running == failure = "none"
Idle    == stack = <<>>
Top(f)  == stack # <<>> /\ stack[Len(stack)] = f
Push(f) == stack' = Append(stack, f)
Return  == stack' = SubSeq(stack, 1, Len(stack) - 1)
Becomes(f) == stack' = [stack EXCEPT ![Len(stack)] = f]

\* JavaScript is on top and V8 may interrupt or pause it.
InScript == Top("script") \/ Top("evaluate")

\* running_nested_loop_ is set while the loop is on the stack.
running_nested_loop == \E i \in DOMAIN stack : stack[i] = "loop"

\* V8 is paused: the loop was not called by Stop.
Paused == \E i \in DOMAIN stack :
              i > 1 /\ stack[i] = "loop" /\ stack[i - 1] # "stop"

IsStarted == state \in {"kAccepting", "kConnected"}

Die(how) ==
    /\ failure' = how
    /\ UNCHANGED <<state, session, stack, dispatching_messages>>

-----------------------------------------------------------------------------
(* PostIncomingMessage.  AppendMessage runs behind state_m and says whether *)
(* the queue was empty; the wake-ups follow without the lock.               *)

AppendMessage(s, m) ==
    /\ incoming_message_queue' = Append(incoming_message_queue, <<s, m>>)
    /\ posted' = Append(posted, <<s, m>>)

TriggerPumping_Mutant == FALSE
TriggerPumping == incoming_message_queue = <<>>

\* On the I/O thread: append, then postTask and RequestInterrupt, then notify.
PostIncomingMessage(s, m) ==
    /\ AppendMessage(s, m)
    /\ io' = IF TriggerPumping THEN "trigger" ELSE "notify"
    /\ UNCHANGED <<agentVars, jsVars, wakeVars, target, failure>>

PostTask ==
    /\ Running
    /\ io = "trigger"
    /\ io' = "notify"
    /\ tasks' = tasks + 1
    /\ interrupts' = interrupts + 1
    /\ UNCHANGED <<agentVars, queueVars, jsVars, conn, target, failure>>

\* notify_all wakes a thread that is blocked; the mutex of the condition is
\* not taken.
NotifyMessageReceived ==
    /\ Running
    /\ io = "notify"
    /\ io' = "poll"
    /\ waiter' = IF waiter = "blocked" THEN "woken" ELSE waiter
    /\ UNCHANGED <<agentVars, queueVars, batch, delivered, stack,
                   dispatching_messages, wakeVars, conn, target, failure>>

\* SessionStarted and StartSession.  Nothing keeps a second session from a
\* target that has one; MaxAttached bounds how many the users open.
SessionStarted(s) ==
    /\ Running /\ io = "poll"
    /\ target
    /\ conn[s] = "new"
    /\ Cardinality({q \in Session : conn[q] \in {"attached", "closing"}})
           < MaxAttached
    /\ conn' = [conn EXCEPT ![s] = "attached"]
    /\ PostIncomingMessage(s, "connect")

MessageReceived(s, m) ==
    /\ Running /\ io = "poll"
    /\ conn[s] \in {"attached", "closing"}
    /\ Len(posted) < MaxPosted
    /\ PostIncomingMessage(s, m)
    /\ UNCHANGED conn

\* SessionTerminated and EndSession: the peer closed the connection, or the
\* I/O thread found the empty message of Stop in the output queue.
SessionTerminated_Mutant(s) ==
    /\ Running /\ io = "poll"
    /\ conn[s] \in {"attached", "closing"}
    /\ conn' = [conn EXCEPT ![s] = "ended"]
    /\ UNCHANGED <<agentVars, queueVars, jsVars, wakeVars, io, target, failure>>
SessionTerminated(s) ==
    /\ Running /\ io = "poll"
    /\ conn[s] \in {"attached", "closing"}
    /\ conn' = [conn EXCEPT ![s] = "ended"]
    /\ PostIncomingMessage(s, "disconnect")

-----------------------------------------------------------------------------
(* JS thread: the host.                                                    *)

Start ==
    /\ Running /\ Idle
    /\ state = "kNew"
    /\ state' = "kAccepting"
    /\ target' = TRUE
    /\ \/ UNCHANGED stack
       \/ BreakOnStart /\ stack' = <<"attach">>
    /\ UNCHANGED <<session, waiting_for_frontend, shutting_down,
                   waiting_for_resume, queueVars, batch, delivered, waiter,
                   dispatching_messages, wakeVars, io, conn, failure>>

RunScript ==
    /\ Running /\ Idle
    /\ state # "kDone"
    /\ Push("script")
    /\ UNCHANGED <<agentVars, queueVars, batch, delivered, waiter,
                   dispatching_messages, wakeVars, io, conn, target, failure>>

ScriptReturns ==
    /\ Running
    /\ InScript
    /\ Return
    /\ UNCHANGED <<agentVars, queueVars, batch, delivered, waiter,
                   dispatching_messages, wakeVars, io, conn, target, failure>>

-----------------------------------------------------------------------------
(* JS thread: DispatchMessages.                                            *)

\* The call, which returns at once when it is reentered.
CallDispatchMessages ==
    /\ stack' = IF dispatching_messages THEN stack
                                        ELSE Append(stack, "dispatch")
    /\ dispatching_messages' = TRUE
    /\ UNCHANGED <<batch, delivered>>

RunTask ==
    /\ Running /\ Idle
    /\ tasks > 0
    /\ tasks' = tasks - 1
    /\ CallDispatchMessages
    /\ UNCHANGED <<agentVars, queueVars, waiter, interrupts, io, conn, target,
                   failure>>

InterruptCallback ==
    /\ Running
    /\ InScript
    /\ interrupts > 0
    /\ interrupts' = interrupts - 1
    /\ CallDispatchMessages
    /\ UNCHANGED <<agentVars, queueVars, waiter, tasks, io, conn, target,
                   failure>>

\* SwapBehindLock; DispatchMessages returns when it swapped in nothing.
SwapBehindLock_Mutant ==
    /\ batch' = incoming_message_queue
    /\ UNCHANGED incoming_message_queue
SwapBehindLock ==
    /\ batch' = incoming_message_queue
    /\ incoming_message_queue' = <<>>

DispatchSwap_KeepsFlag ==
    /\ Running
    /\ Top("dispatch")
    /\ batch = <<>>
    /\ SwapBehindLock
    /\ IF incoming_message_queue = <<>> THEN Return ELSE UNCHANGED stack
    /\ UNCHANGED <<agentVars, posted, delivered, waiter, wakeVars, io, conn,
                   target, failure, dispatching_messages>>
DispatchSwap ==
    /\ Running
    /\ Top("dispatch")
    /\ batch = <<>>
    /\ SwapBehindLock
    /\ IF incoming_message_queue = <<>>
       THEN Return /\ dispatching_messages' = FALSE
       ELSE UNCHANGED <<stack, dispatching_messages>>
    /\ UNCHANGED <<agentVars, posted, delivered, waiter, wakeVars, io, conn,
                   target, failure>>

\* The next message of the batch is m, of session s.
NextIs(s, m) ==
    /\ Running
    /\ Top("dispatch")
    /\ batch # <<>>
    /\ Head(batch) = <<s, m>>
    /\ batch' = Tail(batch)
    /\ delivered' = Append(delivered, Head(batch))
    /\ UNCHANGED <<queueVars, waiter, wakeVars, io, conn, target>>

\* TAG_CONNECT, with CHECK_EQ(State::kAccepting, state_).
DispatchConnect(s) ==
    /\ NextIs(s, "connect")
    /\ IF state # "kAccepting" THEN Die("connect")
       ELSE /\ state' = "kConnected"
            /\ session' = s
            /\ UNCHANGED <<failure, stack, dispatching_messages>>
    /\ UNCHANGED <<waiting_for_frontend, shutting_down, waiting_for_resume>>

\* TAG_DISCONNECT, with CHECK_EQ(State::kConnected, state_).
DispatchDisconnect(s) ==
    /\ NextIs(s, "disconnect")
    /\ IF state # "kConnected"
       THEN Die("disconnect") /\ UNCHANGED waiting_for_resume
       ELSE /\ state' = IF shutting_down THEN "kDone" ELSE "kAccepting"
            /\ session' = NoSession
            /\ waiting_for_resume' = FALSE
            /\ UNCHANGED <<failure, stack, dispatching_messages>>
    /\ UNCHANGED <<waiting_for_frontend, shutting_down>>

\* dispatchMessageFromFrontend.  The flag is cleared by the first message that
\* is not runIfWaitingForDebugger.
DispatchProtocolMessage(s, m) ==
    /\ NextIs(s, m)
    /\ waiting_for_frontend' =
           (waiting_for_frontend /\ m = "runIfWaitingForDebugger")
    /\ IF session = NoSession
       THEN Die("nullSession") /\ UNCHANGED waiting_for_resume
       ELSE /\ stack' = IF m = "evaluate" THEN Append(stack, "evaluate")
                                          ELSE stack
            /\ waiting_for_resume' =
                   (waiting_for_resume /\ ~ (m = "resume" /\ Paused))
            /\ UNCHANGED <<failure, state, session, dispatching_messages>>
    /\ UNCHANGED shutting_down

-----------------------------------------------------------------------------
(* JS thread: pauses, the wait for messages, waitForDebugger and Stop.     *)

\* V8 hits a breakpoint: runMessageLoopOnPause.
Pause ==
    /\ Running
    /\ Pauses /\ InScript
    /\ session # NoSession
    /\ waiting_for_resume' = TRUE
    /\ stack' = IF running_nested_loop THEN stack ELSE Append(stack, "loop")
    /\ UNCHANGED <<state, session, waiting_for_frontend, shutting_down,
                   queueVars, batch, delivered, waiter, dispatching_messages,
                   wakeVars, io, conn, target, failure>>

\* One turn of the loop.  The queue is read without state_m.
LoopTurn ==
    /\ Running
    /\ Top("loop")
    /\ waiting_for_resume
    /\ IF incoming_message_queue # <<>>
       THEN CallDispatchMessages /\ UNCHANGED waiter
       ELSE /\ Push("wait")
            /\ waiter' = "checked"
            /\ UNCHANGED <<batch, delivered, dispatching_messages>>
    /\ UNCHANGED <<agentVars, queueVars, wakeVars, io, conn, target, failure>>

LoopExit ==
    /\ Running
    /\ Top("loop")
    /\ ~ waiting_for_resume
    /\ Return
    /\ UNCHANGED <<agentVars, queueVars, batch, delivered, waiter,
                   dispatching_messages, wakeVars, io, conn, target, failure>>

\* The predicate was false; now the thread blocks.
WaitBlocks ==
    /\ Running
    /\ Top("wait")
    /\ waiter = "checked"
    /\ waiter' = "blocked"
    /\ UNCHANGED <<agentVars, queueVars, batch, delivered, stack,
                   dispatching_messages, wakeVars, io, conn, target, failure>>

WaitWakes ==
    /\ Running
    /\ Top("wait")
    /\ waiter = "woken"
    /\ IF incoming_message_queue = <<>>
       THEN waiter' = "checked" /\ UNCHANGED stack
       ELSE waiter' = "no" /\ Return
    /\ UNCHANGED <<agentVars, queueVars, batch, delivered,
                   dispatching_messages, wakeVars, io, conn, target, failure>>

\* waitForDebugger waits for the first message ...
WaitForDebugger ==
    /\ Running
    /\ Top("attach")
    /\ IF incoming_message_queue # <<>>
       THEN state' = "kAccepting" /\ Becomes("spin") /\ UNCHANGED waiter
       ELSE Push("wait") /\ waiter' = "checked" /\ UNCHANGED state
    /\ UNCHANGED <<session, waiting_for_frontend, shutting_down,
                   waiting_for_resume, queueVars, batch, delivered,
                   dispatching_messages, wakeVars, io, conn, target, failure>>

\* ... dispatches until the flag is cleared ...
WaitForDebuggerSpin ==
    /\ Running
    /\ Top("spin")
    /\ waiting_for_frontend
    /\ CallDispatchMessages
    /\ UNCHANGED <<agentVars, queueVars, waiter, wakeVars, io, conn, target,
                   failure>>

\* ... and schedules the pause in the session.
WaitForDebuggerReturns ==
    /\ Running
    /\ Top("spin")
    /\ ~ waiting_for_frontend
    /\ IF session = NoSession THEN Die("nullSession")
       ELSE Return /\ UNCHANGED <<state, session, dispatching_messages, failure>>
    /\ UNCHANGED <<waiting_for_frontend, shutting_down, waiting_for_resume,
                   queueVars, batch, delivered, waiter, wakeVars, io, conn,
                   target>>

\* Stop, first half.  A connected agent sends the empty message, which closes
\* the connection here (SessionTerminated runs on the JS thread) or, when a
\* write is in flight, later on the I/O thread; then it runs the loop.
StopConnected ==
    /\ Running /\ Idle
    /\ state = "kConnected"
    /\ shutting_down' = TRUE
    /\ waiting_for_resume' = TRUE
    /\ stack' = <<"stop", "loop">>
    /\ \/ /\ conn[session] = "attached"
          /\ AppendMessage(session, "disconnect")
          /\ conn' = [conn EXCEPT ![session] = "ended"]
          /\ tasks' = IF TriggerPumping THEN tasks + 1 ELSE tasks
          /\ interrupts' = IF TriggerPumping THEN interrupts + 1 ELSE interrupts
       \/ /\ conn[session] = "attached"
          /\ conn' = [conn EXCEPT ![session] = "closing"]
          /\ UNCHANGED <<queueVars, wakeVars>>
       \/ /\ conn[session] # "attached"
          /\ UNCHANGED <<conn, queueVars, wakeVars>>
    /\ UNCHANGED <<state, session, waiting_for_frontend, batch, delivered,
                   waiter, dispatching_messages, io, target, failure>>

\* Stop, second half, or the whole of it when no session is connected.
StopDone ==
    /\ Running
    /\ Top("stop") \/ (Idle /\ state = "kAccepting")
    /\ state' = "kDone"
    /\ target' = FALSE
    /\ stack' = <<>>
    /\ UNCHANGED <<session, waiting_for_frontend, shutting_down,
                   waiting_for_resume, queueVars, batch, delivered, waiter,
                   dispatching_messages, wakeVars, io, conn, failure>>

-----------------------------------------------------------------------------
Init ==
    /\ state = "kNew" /\ session = NoSession
    /\ waiting_for_frontend = TRUE /\ shutting_down = FALSE
    /\ waiting_for_resume = FALSE /\ dispatching_messages = FALSE
    /\ incoming_message_queue = <<>> /\ batch = <<>>
    /\ stack = <<>> /\ waiter = "no"
    /\ tasks = 0 /\ interrupts = 0 /\ io = "poll"
    /\ conn = [s \in Session |-> "new"]
    /\ target = FALSE /\ failure = "none"
    /\ posted = <<>> /\ delivered = <<>>

Peer ==
    \/ \E s \in Session : SessionStarted(s)
    \/ \E s \in Session, m \in Protocol : MessageReceived(s, m)
    \/ \E s \in Session : SessionTerminated(s)

Dispatch ==
    \/ DispatchSwap
    \/ \E s \in Session : DispatchConnect(s)
    \/ \E s \in Session : DispatchDisconnect(s)
    \/ \E s \in Session, m \in Protocol : DispatchProtocolMessage(s, m)

JsThread ==
    \/ ScriptReturns
    \/ Dispatch
    \/ LoopTurn \/ LoopExit
    \/ WaitBlocks \/ WaitWakes
    \/ WaitForDebugger \/ WaitForDebuggerSpin \/ WaitForDebuggerReturns

Host ==
    \/ Start \/ RunScript \/ RunTask
    \/ StopConnected \/ StopDone
    \/ Pause \/ InterruptCallback

Next == Peer \/ PostTask \/ NotifyMessageReceived \/ JsThread \/ Host

Spec == Init /\ [][Next]_vars

\* Both threads make progress, scripts return, the task runner runs what was
\* posted to it, and the I/O thread carries out a close it was asked for.
FairSpec ==
    /\ Spec
    /\ WF_vars(PostTask \/ NotifyMessageReceived)
    /\ WF_vars(JsThread)
    /\ SF_vars(RunTask)
    /\ WF_vars(StopDone /\ Top("stop"))
    /\ \A s \in Session :
           SF_vars(conn[s] = "closing" /\ SessionTerminated(s))

-----------------------------------------------------------------------------
(* Properties.                                                             *)

(* The state of the agent and of its two threads is well formed: the JS    *)
(* thread nests at most five of the agent's functions, because             *)
(* running_nested_loop_ and dispatching_messages_ stop the recursion.      *)
TypeOK ==
    /\ state \in {"kNew", "kAccepting", "kConnected", "kDone"}
    /\ session \in Session \cup {NoSession}
    /\ {waiting_for_frontend, shutting_down, waiting_for_resume,
        dispatching_messages, target} \subseteq BOOLEAN
    /\ incoming_message_queue \in Seq(Message) /\ batch \in Seq(Message)
    /\ stack \in Seq({"script", "evaluate", "dispatch", "loop", "wait", "stop",
                      "attach", "spin"})
    /\ Len(stack) <= 5
    /\ waiter \in {"no", "checked", "blocked", "woken"}
    /\ tasks \in Nat /\ interrupts \in Nat
    /\ io \in {"poll", "trigger", "notify"}
    /\ conn \in [Session -> {"new", "attached", "closing", "ended"}]
    /\ failure \in {"none", "connect", "disconnect", "nullSession"}
    /\ posted \in Seq(Message) /\ delivered \in Seq(Message)

Channel == INSTANCE MessageChannel
               WITH sent <- posted, received <- delivered

(* Whatever path reaches DispatchMessages (task, interrupt, pause loop,    *)
(* waitForDebugger, Stop), and however it is reentered, messages are       *)
(* processed in the order they were posted, none twice and none skipped.   *)
DeliversInOrder == Channel!ChannelSpec

(* A message that waits in the queue while nobody dispatches has a task in *)
(* the task runner: the I/O thread's "queue was empty" test never misses a *)
(* message, although the JS thread drains the queue concurrently.          *)
QueuedMessageHasTask ==
    Running /\ incoming_message_queue # <<>> /\ ~ dispatching_messages =>
        tasks > 0 \/ io = "trigger"

(* The agent is connected exactly while it has an inspector session, and a *)
(* session whose socket is gone has its disconnect on the way: the agent   *)
(* does not stay connected to a frontend that left.                        *)
ConnectedSessionIsReal ==
    Running =>
        /\ (state = "kConnected") <=> (session # NoSession)
        /\ session # NoSession /\ conn[session] = "ended" =>
               \E i \in 1 .. Len(batch \o incoming_message_queue) :
                   (batch \o incoming_message_queue)[i]
                       = <<session, "disconnect">>

(* The CHECK_EQ of TAG_DISCONNECT holds: a session never ends before the   *)
(* agent saw it start.                                                     *)
DisconnectChecked == failure # "disconnect"

(* The state the agent is in is that of a real frontend: it is connected   *)
(* exactly while it has a session whose socket is there or whose           *)
(* disconnect is on the way, and the CHECK_EQ of a disconnect              *)
(* (inspector_agent.cpp:634) holds, whichever thread reports the end of    *)
(* the session.                                                            *)
SessionIsReal ==
    /\ TypeOK
    /\ ConnectedSessionIsReal
    /\ DisconnectChecked

(* The agent catches up with its frontend: whatever the JS thread does     *)
(* when a message is posted (idle, in a script, in DispatchMessages, at a  *)
(* breakpoint, in waitForDebugger), there comes a moment when all that was *)
(* posted has been processed, unless the agent is being stopped.  Two ways *)
(* to wait for ever are set apart: the wake-up fell between the test of    *)
(* the queue and the wait (inspector_agent.cpp:599-606) and no further     *)
(* message comes; and the script that is paused is one that a message      *)
(* evaluates, so that DispatchMessages returns at once in the loop of the  *)
(* pause (613) and the resume is never read.                               *)
PostedIsDispatched ==
    (delivered # posted) ~>
        \/ delivered = posted \/ ~ Running \/ shutting_down
        \/ [](\/ waiter = "blocked"
              \/ dispatching_messages /\ running_nested_loop)

(* CHECK_EQ(State::kAccepting, state_) at TAG_CONNECT holds: neither a      *)
(* second frontend that attaches to a connected target, nor a connect that *)
(* was queued when Stop ran, ends the process.                             *)
ConnectChecked == failure # "connect"

(* "Resuming after frontend attached.": when waitForDebugger goes on there *)
(* is a session to schedule the pause in.                                  *)
ResumesWithFrontend == failure # "nullSession"

(* Stop of a connected agent returns: the empty message "triggers the      *)
(* close callback to the V8 inspector client", which ends the loop.        *)
StopReturns == (stack # <<>> /\ stack[1] = "stop") ~> (Idle \/ ~ Running)
=============================================================================
