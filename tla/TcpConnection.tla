--------------------------- MODULE TcpConnection ---------------------------
(***************************************************************************)
(* One connection of the inspector's socket server: its output queue, the  *)
(* asynchronous send and read, and the ways it ends.                       *)
(*                                                                         *)
(* Source: inspector/inspector_tcp.cpp (tcp_connection) with TcpHolder and *)
(* the OnEof and Write of the protocol handlers in inspector_socket.cpp.   *)
(*                                                                         *)
(* Two threads call write_async: the JS thread, for what V8 sends to the   *)
(* frontend, and the I/O thread, from the callback of a read (HTTP replies *)
(* and close frames).  queueAccessMutex protects the queue and writing_;   *)
(* everything after the locked block of do_write runs without it.  Asio    *)
(* and the kernel are external: a pending operation completes, fails, or   *)
(* is aborted by the close of the socket, and its handler then runs on the *)
(* I/O thread.  A send that completes has transmitted the whole buffer.    *)
(***************************************************************************)
EXTENDS Naturals, Sequences, FiniteSets

CONSTANT MaxQueued  \* bound: messages queued on the connection

ASSUME MaxQueuedAssumption == MaxQueued \in Nat

VARIABLES
    outQueue,        \* tcp_connection::outQueue
    writing,         \* tcp_connection::writing_
    messageToWrite,  \* tcp_connection::messageToWrite_
    pc,              \* where each thread is in write_async and do_write
    message,         \* the local variable of do_write, per thread
    inFlight,        \* asynchronous sends whose handler has not run
    read,            \* the asynchronous read
    socket,          \* socket_ is open
    session,         \* the protocol handler holds the TcpHolder
    ioAt,            \* the I/O thread: "poll", in a callback, or "stopped"
    failure,         \* how the process died
    queued, onWire,  \* history: messages pushed, messages transmitted
    broken           \* history: the kernel failed a send

queueVars == <<outQueue, writing, queued>>
netVars   == <<messageToWrite, inFlight, socket, onWire, broken>>
tcpVars == <<queueVars, netVars, pc, message, read, session, ioAt, failure>>

-----------------------------------------------------------------------------
Thread == {"js", "io"}

\* Messages are numbered in the order they are queued; Stop's empty message,
\* which asks for the connection to be closed, is 0.
Magic   == 0
Message == 0 .. MaxQueued

Alive == failure = "none"
Queued(m) == \E i \in DOMAIN queued : queued[i] = m

\* The thread is between the locked block that claims the buffer, or the
\* completion that hands it on, and the next send.
Owns(t) == pc[t] \in {"send", "cont"}

\* The empty message is only ever sent on the socket it closed.
SendRecord ==
    {s \in [msg : Message, status : {"pending", "sent", "error", "aborted"}] :
        s.msg = Magic => s.status = "error"}

\* What close() does to an operation that is still pending.
Aborted(s) == [s EXCEPT !.status = IF @ = "pending" THEN "aborted" ELSE @]

\* tcp_connection::close: pending operations are aborted.
Close ==
    /\ socket' = FALSE
    /\ inFlight' = [i \in DOMAIN inFlight |-> Aborted(inFlight[i])]

-----------------------------------------------------------------------------
(* write_async and do_write.                                               *)

\* The first block of write_async.  The JS thread gets here while the server
\* lists the session, the I/O thread while it handles data it has read.
WriteAsync(t, m) ==
    /\ Alive
    /\ session
    /\ pc[t] = "idle"
    /\ t = "io" => ioAt = "read"
    /\ Len(queued) < MaxQueued
    /\ IF m = Magic THEN t = "js" /\ ~ Queued(Magic) ELSE m = Len(queued) + 1
    /\ outQueue' = Append(outQueue, m)
    /\ queued' = Append(queued, m)
    /\ pc' = [pc EXCEPT ![t] = "new"]
    /\ UNCHANGED <<writing, netVars, message, read, session, ioAt, failure>>

\* New message, but the last write is going on.
WriteGoingOn_Mutant(t) == FALSE
WriteGoingOn(t) == pc[t] = "new" /\ writing

\* The block of do_write that holds the mutex.
DoWriteLocked_KeepsWriting(t) ==
    /\ Alive
    /\ pc[t] \in {"new", "cont"}
    /\ IF WriteGoingOn(t) \/ outQueue = <<>>
       THEN /\ pc' = [pc EXCEPT ![t] = "idle"]
            /\ UNCHANGED <<outQueue, writing, message>>
       ELSE /\ message' = [message EXCEPT ![t] = Head(outQueue)]
            /\ outQueue' = Tail(outQueue)
            /\ writing' = TRUE
            /\ pc' = [pc EXCEPT ![t] = "send"]
    /\ UNCHANGED <<queued, netVars, read, session, ioAt, failure>>
DoWriteLocked_NoContinue(t) ==
    /\ Alive
    /\ pc[t] \in {"new", "cont"}
    /\ IF WriteGoingOn(t)
       THEN /\ pc' = [pc EXCEPT ![t] = "idle"]
            /\ UNCHANGED <<outQueue, writing, message>>
       ELSE IF outQueue = <<>> \/ pc[t] = "cont"
       THEN /\ pc' = [pc EXCEPT ![t] = "idle"]
            /\ writing' = FALSE
            /\ UNCHANGED <<outQueue, message>>
       ELSE /\ message' = [message EXCEPT ![t] = Head(outQueue)]
            /\ outQueue' = Tail(outQueue)
            /\ writing' = TRUE
            /\ pc' = [pc EXCEPT ![t] = "send"]
    /\ UNCHANGED <<queued, netVars, read, session, ioAt, failure>>
DoWriteLocked(t) ==
    /\ Alive
    /\ pc[t] \in {"new", "cont"}
    /\ IF WriteGoingOn(t)
       THEN /\ pc' = [pc EXCEPT ![t] = "idle"]
            /\ UNCHANGED <<outQueue, writing, message>>
       ELSE IF outQueue = <<>>
       THEN /\ pc' = [pc EXCEPT ![t] = "idle"]
            /\ writing' = FALSE
            /\ UNCHANGED <<outQueue, message>>
       ELSE /\ message' = [message EXCEPT ![t] = Head(outQueue)]
            /\ outQueue' = Tail(outQueue)
            /\ writing' = TRUE
            /\ pc' = [pc EXCEPT ![t] = "send"]
    /\ UNCHANGED <<queued, netVars, read, session, ioAt, failure>>

\* The rest of do_write, with a message to send: async_send of the buffer.  On
\* a socket that another thread closed it fails.
DoWriteSend(t) ==
    /\ Alive
    /\ pc[t] = "send"
    /\ message[t] # Magic
    /\ messageToWrite' = message[t]
    /\ inFlight' = Append(inFlight,
                        [msg |-> message[t],
                         status |-> IF socket THEN "pending" ELSE "error"])
    /\ pc' = [pc EXCEPT ![t] = "idle"]
    /\ UNCHANGED <<queueVars, onWire, broken, socket, message, read, session,
                   ioAt, failure>>

\* The rest of do_write, with the empty message: close(), the read callback
\* with iseof, whose OnEof drops the TcpHolder and ends the session, and the
\* async_send on the closed socket.  The callback's data is the TcpHolder: when
\* the session has ended already it is freed memory.
DoWriteMagic(t) ==
    /\ Alive
    /\ pc[t] = "send"
    /\ message[t] = Magic
    /\ messageToWrite' = Magic
    /\ socket' = FALSE
    /\ read' = IF read = "pending" THEN "aborted" ELSE read
    /\ session' = FALSE
    /\ inFlight' = Append([i \in DOMAIN inFlight |-> Aborted(inFlight[i])],
                       [msg |-> Magic, status |-> "error"])
    /\ pc' = [pc EXCEPT ![t] = "idle"]
    /\ failure' = IF session THEN failure ELSE "freed"
    /\ UNCHANGED <<queueVars, onWire, broken, message, ioAt>>

\* The TcpHolder, and with it the connection, was freed between the two halves
\* of write_async: no handler holds it any more.
WriteFreed(t) ==
    /\ Alive
    /\ pc[t] = "new"
    /\ ~ session
    /\ inFlight = <<>> /\ read = "none" /\ ioAt # "read"
    /\ \A u \in Thread \ {t} : pc[u] = "idle"
    /\ failure' = "freed"
    /\ UNCHANGED <<queueVars, netVars, pc, message, read, session, ioAt>>

-----------------------------------------------------------------------------
(* The send: the kernel transmits what the buffer holds, or the connection *)
(* is broken; then the completion handler runs.                            *)

Transmit(i) ==
    /\ Alive
    /\ inFlight[i].status = "pending"
    /\ inFlight' = [inFlight EXCEPT ![i].status = "sent"]
    /\ onWire' = Append(onWire, messageToWrite)
    /\ UNCHANGED <<queueVars, messageToWrite, socket, broken, pc, message,
                   read, session, ioAt, failure>>

TransmitFails(i) ==
    /\ Alive
    /\ inFlight[i].status = "pending"
    /\ inFlight' = [inFlight EXCEPT ![i].status = "error"]
    /\ broken' = TRUE
    /\ UNCHANGED <<queueVars, messageToWrite, socket, onWire, pc, message,
                   read, session, ioAt, failure>>

\* The I/O thread is between two handlers.
Polling == Alive /\ ioAt = "poll" /\ pc["io"] = "idle"

\* The handler of async_send: do_write(true), nothing ("TODO"), or abort().
SendHandler(i) ==
    /\ Polling
    /\ inFlight[i].status # "pending"
    /\ inFlight' = SubSeq(inFlight, 1, i - 1)
                     \o SubSeq(inFlight, i + 1, Len(inFlight))
    /\ pc' = IF inFlight[i].status = "sent" THEN [pc EXCEPT !["io"] = "cont"]
                                         ELSE pc
    /\ failure' = IF inFlight[i].status = "aborted" THEN "aborted" ELSE failure
    /\ UNCHANGED <<queueVars, messageToWrite, socket, onWire, broken, message,
                   read, session, ioAt>>

-----------------------------------------------------------------------------
(* The read loop.                                                          *)

\* Data came: readcallback_, while the handler is alive.
ReadHandlerData ==
    /\ Polling
    /\ read = "pending"
    /\ read' = "handling"
    /\ ioAt' = "read"
    /\ UNCHANGED <<queueVars, netVars, pc, message, session, failure>>

\* The callback returned: read_loop_async again.
ReadLoopAsync ==
    /\ Alive
    /\ ioAt = "read" /\ pc["io"] = "idle"
    /\ ioAt' = "poll"
    /\ read' = IF socket THEN "pending" ELSE "none"
    /\ UNCHANGED <<queueVars, netVars, pc, message, session, failure>>

\* OnEof: the TcpHolder's destructor closes the connection and the session
\* ends.  Called for the end of the stream, and by OnData for a bad frame.
OnConnectionEof ==
    /\ Alive
    /\ session
    /\ \/ Polling /\ read = "pending" /\ read' = "none"
       \/ ioAt = "read" /\ pc["io"] = "idle" /\ UNCHANGED read
    /\ session' = FALSE
    /\ Close
    /\ UNCHANGED <<queueVars, messageToWrite, onWire, broken, pc, message,
                   ioAt, failure>>

\* The read failed otherwise: the handler returns and the loop has ended.
ReadFails ==
    /\ Polling
    /\ read = "pending"
    /\ read' = "none"
    /\ UNCHANGED <<queueVars, netVars, pc, message, session, ioAt, failure>>

ReadCancelled ==
    /\ Polling
    /\ read = "aborted"
    /\ failure' = "aborted"
    /\ UNCHANGED <<queueVars, netVars, pc, message, read, session, ioAt>>

\* The JS thread saw the session end and was the last target:
\* InspectorSocketServer::Stop stops the io_context after the handler that
\* is running.
StopContext ==
    /\ Polling
    /\ pc["js"] = "idle"
    /\ Queued(Magic) /\ ~ session
    /\ ioAt' = "stopped"
    /\ UNCHANGED <<queueVars, netVars, pc, message, read, session, failure>>

-----------------------------------------------------------------------------
TcpInit ==
    /\ outQueue = <<>> /\ writing = FALSE /\ messageToWrite = Magic
    /\ pc = [t \in Thread |-> "idle"]
    /\ message = [t \in Thread |-> Magic]
    /\ inFlight = <<>> /\ read = "pending" /\ socket = TRUE /\ session = TRUE
    /\ ioAt = "poll" /\ failure = "none"
    /\ queued = <<>> /\ onWire = <<>> /\ broken = FALSE

Steps ==
    \/ \E t \in Thread : DoWriteLocked(t)
    \/ \E t \in Thread : DoWriteSend(t)
    \/ \E t \in Thread : DoWriteMagic(t)
    \/ \E i \in DOMAIN inFlight : Transmit(i)
    \/ \E i \in DOMAIN inFlight : SendHandler(i)
    \/ ReadLoopAsync

TcpNext ==
    \/ \E t \in Thread, m \in Message : WriteAsync(t, m)
    \/ Steps
    \/ \E t \in Thread : WriteFreed(t)
    \/ \E i \in DOMAIN inFlight : TransmitFails(i)
    \/ ReadHandlerData \/ OnConnectionEof \/ ReadFails \/ ReadCancelled
    \/ StopContext

TcpSpec == TcpInit /\ [][TcpNext]_tcpVars

\* Both threads go on, and an operation the kernel accepted ends.
FairSpec ==
    /\ TcpSpec
    /\ \A t \in Thread : WF_tcpVars(DoWriteLocked(t) \/ DoWriteSend(t)
                                 \/ DoWriteMagic(t))
    /\ WF_tcpVars(\E i \in DOMAIN inFlight : Transmit(i) \/ TransmitFails(i))
    /\ SF_tcpVars(\E i \in DOMAIN inFlight : SendHandler(i))
    /\ WF_tcpVars(ReadLoopAsync)

-----------------------------------------------------------------------------
(* Properties.                                                             *)

(* The state of the connection is well formed: only the completion handler *)
(* continues a write, so never the JS thread; the empty message is never   *)
(* transmitted, because do_write sends it on the socket it has closed.     *)
TcpTypeOK ==
    /\ outQueue \in Seq(Message) /\ queued \in Seq(Message)
    /\ onWire \in Seq(Message \ {Magic}) /\ messageToWrite \in Message
    /\ writing \in BOOLEAN /\ socket \in BOOLEAN
    /\ session \in BOOLEAN /\ broken \in BOOLEAN
    /\ pc \in [Thread -> {"idle", "new", "cont", "send"}]
    /\ pc["js"] # "cont"
    /\ message \in [Thread -> Message]
    /\ inFlight \in Seq(SendRecord)
    /\ read \in {"pending", "handling", "aborted", "none"}
    /\ ioAt \in {"poll", "read", "stopped"}
    /\ failure \in {"none", "freed", "aborted"}

(* messageToWrite_ is written without the mutex while asio reads it: the   *)
(* flag writing_ keeps the buffer to one send at a time, also when the JS  *)
(* thread and the completion handler both find the queue non-empty.        *)
BufferHasOneSend ==
    /\ Len(inFlight) <= 1
    /\ \A t \in Thread :
           Owns(t) => inFlight = <<>> /\ \A u \in Thread \ {t} : ~ Owns(u)
    /\ \A i \in DOMAIN inFlight : inFlight[i].msg = messageToWrite

(* The frontend receives what the two threads queued in the order they     *)
(* queued it, nothing twice and nothing skipped.                           *)
Channel == INSTANCE MessageChannel WITH sent <- queued, received <- onWire
WritesInOrder == Channel!ChannelSpec

(* A message in the queue has somebody who will take it out: a thread that *)
(* owns the buffer, a send whose handler continues with do_write(true), or *)
(* a thread that has yet to enter do_write and will not find writing_ set. *)
(* The completion handler that finds the queue empty cannot miss a message *)
(* that is pushed at that moment.  The exceptions are a connection whose   *)
(* socket is closed, and one on which the kernel has failed a send: its    *)
(* handler does nothing ("TODO"), writing_ stays set for good, and what is *)
(* queued from then on stays in the queue.                                 *)
NoStrandedMessage ==
    outQueue # <<>> =>
        \/ \E t \in Thread : Owns(t) \/ (pc[t] = "new" /\ ~ writing)
        \/ \E i \in DOMAIN inFlight : inFlight[i].status \in {"pending", "sent"}
        \/ broken \/ ~ socket

(* Every queued message is transmitted unless the connection ends or       *)
(* breaks.                                                                 *)
QueuedIsSent ==
    \A n \in 1 .. MaxQueued :
        (Len(queued) >= n) ~>
            (Len(onWire) >= n \/ ~ socket \/ broken \/ ~ Alive)

(* "Our tcp session code has code to handle the magic message by closing   *)
(* the tcp connection": Stop closes the connection and does not end the    *)
(* process.                                                                *)
MagicKeepsProcess == Queued(Magic) => failure # "aborted"

(* The same comment: the magic message, once queued, "triggers the close   *)
(* callback", so that Stop's wait for the disconnect ends.                 *)
MagicEndsSession == Queued(Magic) ~> (~ session \/ ~ Alive)
=============================================================================
