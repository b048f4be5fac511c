----------------------- MODULE InspectorServerProofs -----------------------
(***************************************************************************)
(* Proofs about the inspector's server and its connections.                *)
(*                                                                         *)
(* TcpConnection, for any number of messages: the buffer of the            *)
(* asynchronous send has one user at a time, no message is left in the     *)
(* queue, and the messages are transmitted in order.                       *)
(*                                                                         *)
(* InspectorServer, for any number of agents, servers, sessions and        *)
(* frames: the agents share one server, and the target of a session hears  *)
(* its beginning, its messages as they were sent, and its end.             *)
(***************************************************************************)
EXTENDS InspectorServer, TcpConnection, SequenceTheorems, FiniteSetTheorems,
        TLAPS

-----------------------------------------------------------------------------
(* TcpConnection.                                                          *)

\* A thread that owns the buffer, and a send in flight, have the flag set: it
\* is the lock that the buffer itself has not.
WritingGuards == (inFlight # <<>> \/ \E t \in Thread : Owns(t)) => writing

\* One half of the argument that no message is stranded: the flag is set,
\* or the thread that pushed last has yet to look at it.
QueueWatched == outQueue # <<>> => writing \/ \E t \in Thread : pc[t] = "new"

\* The other half: the flag stands for somebody who will come back to the
\* queue, as long as no send has failed.
WriterExists ==
    writing => \/ \E t \in Thread : Owns(t)
               \/ \E i \in DOMAIN inFlight :
                        inFlight[i].status \in {"pending", "sent"}
               \/ broken \/ ~ socket

\* A send fails because the kernel failed it or because the socket is closed.
FailuresShow ==
    \A i \in DOMAIN inFlight :
        inFlight[i].status \in {"error", "aborted"} => broken \/ ~ socket

IInv == TcpTypeOK /\ BufferHasOneSend /\ WritingGuards /\ QueueWatched
        /\ WriterExists /\ FailuresShow

(* A sequence with at most one element has none left after the removal of  *)
(* one, as in the completion handler of the only send.                     *)
LEMMA RemoveOnly ==
    ASSUME NEW S, NEW s \in Seq(S), Len(s) <= 1, NEW i \in DOMAIN s
    PROVE  SubSeq(s, 1, i - 1) \o SubSeq(s, i + 1, Len(s)) = <<>>
<1>1. Len(s) = 1 /\ i = 1
  <2>1. PICK n \in Nat : n = Len(s) /\ n <= 1 /\ i \in 1 .. n
    BY LenProperties
  <2>2. QED
    BY <2>1
<1>2. SubSeq(s, 1, 0) = <<>> /\ SubSeq(s, 2, 1) = <<>>
  BY SubSeqEmpty
<1>3. QED
  BY <1>1, <1>2

(* The sends when there is none, and when there is one.                    *)
LEMMA NoSend == Len(<<>>) = 0 /\ DOMAIN <<>> = {}
OBVIOUS

LEMMA OneSend ==
    ASSUME NEW e
    PROVE  DOMAIN <<e>> = {1} /\ <<e>>[1] = e
OBVIOUS

(* The sends after the status of one of them changed to e's: same length,  *)
(* same messages.                                                          *)
LEMMA ReplaceSend ==
    ASSUME NEW s \in Seq(SendRecord), NEW i \in DOMAIN s, NEW e \in SendRecord,
           e.msg = s[i].msg
    PROVE  /\ [s EXCEPT ![i] = e] \in Seq(SendRecord)
           /\ Len([s EXCEPT ![i] = e]) = Len(s)
           /\ \A j \in DOMAIN s : [s EXCEPT ![i] = e][j].msg = s[j].msg
<1>1. i \in 1 .. Len(s) /\ DOMAIN s = 1 .. Len(s)
  BY LenProperties
<1>2. QED
  BY <1>1, ExceptSeq

(* The sends after the socket was closed.                                  *)
LEMMA AbortSends ==
    ASSUME NEW s \in Seq(SendRecord)
    PROVE  LET a == [i \in DOMAIN s |-> Aborted(s[i])] IN
           /\ a \in Seq(SendRecord) /\ Len(a) = Len(s)
           /\ \A i \in DOMAIN s : a[i].msg = s[i].msg
<1> DEFINE a == [i \in DOMAIN s |-> Aborted(s[i])]
<1>1. Len(s) \in Nat /\ DOMAIN s = 1 .. Len(s)
  BY LenProperties
<1>2. \A i \in 1 .. Len(s) : Aborted(s[i]) \in SendRecord
                             /\ Aborted(s[i]).msg = s[i].msg
  BY ElementOfSeq DEF Aborted, SendRecord
<1>3. a \in [1 .. Len(s) -> SendRecord]
  BY <1>1, <1>2
<1>4. a \in Seq(SendRecord) /\ Len(a) = Len(s)
  BY <1>1, <1>3, SeqDef, LenProperties
<1>5. QED
  BY <1>1, <1>2, <1>4

(* A fresh connection satisfies the invariant.                             *)
LEMMA InitIInv == TcpInit => IInv
<1>1. /\ Magic \in Message
      /\ <<>> \in Seq(Message) /\ <<>> \in Seq(Message \ {Magic})
      /\ <<>> \in Seq(SendRecord)
  BY MaxQueuedAssumption, EmptySeq DEF Message, Magic
<1>2. TcpInit => TcpTypeOK
  BY <1>1 DEF TcpInit, TcpTypeOK, Thread
<1>3. QED
  BY <1>2 DEF TcpInit, IInv, BufferHasOneSend, WritingGuards, QueueWatched,
              WriterExists, FailuresShow, Owns, Thread

(* write_async pushes and enters do_write: the message has its taker.      *)
LEMMA WriteAsyncKeeps ==
    ASSUME IInv, NEW t \in Thread, NEW m \in Message, WriteAsync(t, m)
    PROVE  IInv'
<1>1. TcpTypeOK'
  BY DEF IInv, WriteAsync, TcpTypeOK, netVars
<1>2. BufferHasOneSend' /\ WritingGuards' /\ QueueWatched'
  BY DEF IInv, WriteAsync, TcpTypeOK, BufferHasOneSend, WritingGuards,
         QueueWatched, Owns, netVars
<1>3. WriterExists' /\ FailuresShow'
  <2>1. \A u \in Thread : Owns(u) => Owns(u)'
    BY DEF IInv, WriteAsync, TcpTypeOK, Owns
  <2>2. QED
    BY <2>1 DEF IInv, WriteAsync, WriterExists, FailuresShow, netVars
<1>4. QED
  BY <1>1, <1>2, <1>3 DEF IInv

(* The locked block hands the buffer to one thread, and clears the flag    *)
(* only when nobody owns the buffer.                                       *)
LEMMA DoWriteLockedKeeps ==
    ASSUME IInv, NEW t \in Thread, DoWriteLocked(t)
    PROVE  IInv'
<1> USE DEF IInv, DoWriteLocked, WriteGoingOn, netVars
<1>1. TcpTypeOK'
  <2>1. CASE WriteGoingOn(t) \/ outQueue = <<>>
    BY <2>1 DEF TcpTypeOK, Thread
  <2>2. CASE ~ WriteGoingOn(t) /\ outQueue # <<>>
    <3>1. Head(outQueue) \in Message /\ Tail(outQueue) \in Seq(Message)
      BY <2>2, HeadTailProperties DEF TcpTypeOK
    <3>2. QED
      BY <2>2, <3>1 DEF TcpTypeOK, Thread
  <2>3. QED
    BY <2>1, <2>2
<1>2. BufferHasOneSend'
  BY DEF TcpTypeOK, BufferHasOneSend, WritingGuards, Owns, Thread
<1>3. WritingGuards'
  BY DEF TcpTypeOK, BufferHasOneSend, WritingGuards, Owns, Thread
<1>4. QueueWatched'
  BY DEF TcpTypeOK, BufferHasOneSend, WritingGuards, QueueWatched, Owns,
         Thread
<1>5. WriterExists' /\ FailuresShow'
  <2>1. FailuresShow'
    BY DEF FailuresShow
  <2>2. CASE WriteGoingOn(t)
    <3>1. \A u \in Thread : Owns(u) => Owns(u)'
      BY <2>2 DEF TcpTypeOK, Owns
    <3>2. QED
      BY <2>1, <2>2, <3>1 DEF WriterExists
  <2>3. CASE ~ WriteGoingOn(t) /\ outQueue = <<>>
    BY <2>1, <2>3 DEF WriterExists
  <2>4. CASE ~ WriteGoingOn(t) /\ outQueue # <<>>
    <3>1. Owns(t)'
      BY <2>4 DEF TcpTypeOK, Owns
    <3>2. QED
      BY <2>1, <3>1 DEF WriterExists
  <2>5. QED
    BY <2>2, <2>3, <2>4
<1>6. QED
  BY <1>1, <1>2, <1>3, <1>4, <1>5

(* The owner of the buffer starts its send.                                *)
LEMMA DoWriteSendKeeps ==
    ASSUME IInv, NEW t \in Thread, DoWriteSend(t)
    PROVE  IInv'
<1> USE DEF IInv, DoWriteSend, queueVars
<1>1. inFlight = <<>>
  BY DEF BufferHasOneSend, Owns
<1>2. TcpTypeOK'
  BY DEF TcpTypeOK, SendRecord
<1>3. BufferHasOneSend' /\ WritingGuards'
  BY <1>1 DEF TcpTypeOK, BufferHasOneSend, WritingGuards, Owns, Thread
<1>4. QueueWatched'
  BY DEF TcpTypeOK, QueueWatched, Thread
<1>5. inFlight' = <<[msg |-> message[t],
                     status |-> IF socket THEN "pending" ELSE "error"]>>
  BY <1>1
<1>6. WriterExists' /\ FailuresShow'
  <2> DEFINE e == [msg |-> message[t],
                   status |-> IF socket THEN "pending" ELSE "error"]
  <2>1. DOMAIN inFlight' = {1}
        /\ inFlight'[1].status = IF socket THEN "pending" ELSE "error"
    <3>1. inFlight' = <<e>> /\ e.status = IF socket THEN "pending" ELSE "error"
      BY <1>5
    <3> HIDE DEF e
    <3>2. DOMAIN <<e>> = {1} /\ <<e>>[1] = e
      BY OneSend
    <3>3. QED
      BY <3>1, <3>2
  <2>2. QED
    BY <2>1 DEF WriterExists, FailuresShow
<1>7. QED
  BY <1>2, <1>3, <1>4, <1>6

(* The empty message closes the socket; its own send fails at once.        *)
LEMMA DoWriteMagicKeeps ==
    ASSUME IInv, NEW t \in Thread, DoWriteMagic(t)
    PROVE  IInv'
<1> USE DEF IInv, DoWriteMagic, queueVars
<1>1. inFlight = <<>>
  BY DEF BufferHasOneSend, Owns
<1>2. inFlight' = <<[msg |-> Magic, status |-> "error"]>>
  <2>1. [i \in DOMAIN inFlight |-> Aborted(inFlight[i])] = <<>>
    BY <1>1
  <2>2. QED
    BY <2>1
<1>3. [msg |-> Magic, status |-> "error"] \in SendRecord
  BY MaxQueuedAssumption DEF SendRecord, Message, Magic
<1>4. TcpTypeOK'
  <2>1. inFlight' \in Seq(SendRecord)
    BY <1>2, <1>3
  <2>2. Magic \in Message
    BY MaxQueuedAssumption DEF Message, Magic
  <2>3. QED
    BY <2>1, <2>2 DEF TcpTypeOK, Thread
<1>5. BufferHasOneSend' /\ WritingGuards'
  BY <1>2 DEF TcpTypeOK, BufferHasOneSend, WritingGuards, Owns, Thread
<1>6. QueueWatched'
  BY DEF TcpTypeOK, QueueWatched, Thread
<1>7. WriterExists' /\ FailuresShow'
  BY DEF WriterExists, FailuresShow
<1>8. QED
  BY <1>4, <1>5, <1>6, <1>7

(* What the kernel does with a send changes its status only.               *)
LEMMA TransmitKeeps ==
    ASSUME IInv, NEW i \in DOMAIN inFlight,
           Transmit(i) \/ TransmitFails(i)
    PROVE  IInv'
<1> USE DEF IInv, Transmit, TransmitFails, queueVars
<1> DEFINE st == IF Transmit(i) THEN "sent" ELSE "error"
           e == [inFlight[i] EXCEPT !.status = st]
<1>1. inFlight[i] \in SendRecord /\ inFlight[i].status = "pending"
  BY DEF TcpTypeOK
<1>2. /\ inFlight[i].msg # Magic /\ e \in SendRecord /\ e.msg = inFlight[i].msg
  BY <1>1 DEF SendRecord
<1>3. inFlight' = [inFlight EXCEPT ![i] = e]
  <2>1. CASE Transmit(i)
    BY <2>1
  <2>2. CASE ~ Transmit(i)
    BY <2>2
  <2>3. QED
    BY <2>1, <2>2
<1>4. /\ inFlight' \in Seq(SendRecord) /\ Len(inFlight') = Len(inFlight)
      /\ \A j \in DOMAIN inFlight : inFlight'[j].msg = inFlight[j].msg
  <2>1. inFlight \in Seq(SendRecord)
    BY DEF TcpTypeOK
  <2> HIDE DEF e
  <2>2. QED
    BY <1>2, <1>3, <2>1, ReplaceSend
<1>5. messageToWrite \in Message \ {Magic}
  BY <1>2 DEF TcpTypeOK, BufferHasOneSend
<1>6. TcpTypeOK'
  <2>1. onWire' \in Seq(Message \ {Magic})
    <3>1. Append(onWire, messageToWrite) \in Seq(Message \ {Magic})
      BY <1>5, AppendProperties DEF TcpTypeOK
    <3>2. onWire' \in {onWire, Append(onWire, messageToWrite)}
      OBVIOUS
    <3>3. QED
      BY <3>1, <3>2 DEF TcpTypeOK
  <2>2. QED
    BY <1>4, <2>1 DEF TcpTypeOK
<1>7. DOMAIN inFlight' = DOMAIN inFlight
  BY <1>3
<1>8. BufferHasOneSend' /\ WritingGuards'
  BY <1>4, <1>7 DEF BufferHasOneSend, WritingGuards, Owns
<1>9. QueueWatched'
  BY DEF QueueWatched
<1>10. \A j \in DOMAIN inFlight' :
           inFlight'[j].status = IF j = i THEN st ELSE inFlight[j].status
  <2>1. CASE Transmit(i)
    BY <2>1 DEF TcpTypeOK, SendRecord
  <2>2. CASE ~ Transmit(i)
    BY <2>2 DEF TcpTypeOK, SendRecord
  <2>3. QED
    BY <2>1, <2>2
<1>11. WriterExists' /\ FailuresShow'
  <2>1. CASE Transmit(i)
    <3>1. i \in DOMAIN inFlight' /\ inFlight'[i].status = "sent"
      BY <1>7, <1>10, <2>1
    <3>2. WriterExists'
      BY <3>1 DEF WriterExists
    <3>3. FailuresShow'
      BY <1>7, <1>10, <2>1 DEF FailuresShow
    <3>4. QED
      BY <3>2, <3>3
  <2>2. CASE TransmitFails(i)
    BY <2>2 DEF WriterExists, FailuresShow
  <2>3. QED
    BY <2>1, <2>2
<1>12. QED
  BY <1>6, <1>8, <1>9, <1>11

(* The completion handler passes the buffer on to do_write(true), or gives *)
(* it up with the flag still set.                                          *)
LEMMA SendHandlerKeeps ==
    ASSUME IInv, NEW i \in DOMAIN inFlight, SendHandler(i)
    PROVE  IInv'
<1> USE DEF IInv, SendHandler, queueVars
<1>1. inFlight' = <<>>
  BY RemoveOnly DEF TcpTypeOK, BufferHasOneSend
<1>2. TcpTypeOK'
  BY <1>1 DEF TcpTypeOK, Thread, Polling
<1>3. BufferHasOneSend' /\ WritingGuards'
  <2>1. inFlight # <<>> /\ pc \in [Thread -> {"idle", "new", "cont", "send"}]
    BY DEF TcpTypeOK
  <2>2. writing' /\ \A t \in Thread : ~ Owns(t)
    BY <2>1 DEF BufferHasOneSend, WritingGuards
  <2>3. pc'["js"] = pc["js"]
    BY <2>1 DEF Thread
  <2>4. ~ Owns("js")'
    BY <2>2, <2>3 DEF Owns, Thread
  <2>5. Len(inFlight') = 0 /\ DOMAIN inFlight' = {}
    BY <1>1, NoSend
  <2>6. BufferHasOneSend'
    BY <1>1, <2>4, <2>5 DEF BufferHasOneSend, Thread
  <2>7. QED
    BY <2>2, <2>6 DEF WritingGuards
<1>4. QueueWatched'
  BY DEF TcpTypeOK, QueueWatched, Thread, WritingGuards
<1>5. FailuresShow'
  <2>1. DOMAIN inFlight' = {}
    BY <1>1, NoSend
  <2>2. QED
    BY <2>1 DEF FailuresShow
<1>6. WriterExists'
  <2>1. inFlight[i] \in SendRecord
    BY DEF TcpTypeOK
  <2>2. CASE inFlight[i].status = "sent"
    <3>1. Owns("io")'
      BY <2>2 DEF TcpTypeOK, Owns, Thread
    <3>2. QED
      BY <3>1 DEF WriterExists, Thread
  <2>3. CASE inFlight[i].status \in {"error", "aborted"}
    BY <2>3 DEF WriterExists, FailuresShow
  <2>4. QED
    BY <2>1, <2>2, <2>3 DEF SendRecord
<1>7. QED
  BY <1>2, <1>3, <1>4, <1>5, <1>6

(* OnEof closes the socket under a send that may be pending.               *)
LEMMA OnEofKeeps ==
    ASSUME IInv, OnConnectionEof
    PROVE  IInv'
<1> USE DEF IInv, OnConnectionEof, Close, queueVars
<1>1. /\ inFlight' \in Seq(SendRecord) /\ Len(inFlight') = Len(inFlight)
      /\ DOMAIN inFlight' = DOMAIN inFlight
      /\ \A i \in DOMAIN inFlight : inFlight'[i].msg = inFlight[i].msg
  BY AbortSends DEF TcpTypeOK
<1>2. TcpTypeOK'
  BY <1>1 DEF TcpTypeOK
<1>3. BufferHasOneSend' /\ WritingGuards'
  BY <1>1 DEF TcpTypeOK, BufferHasOneSend, WritingGuards, Owns
<1>4. QueueWatched' /\ WriterExists' /\ FailuresShow'
  BY DEF QueueWatched, WriterExists, FailuresShow
<1>5. QED
  BY <1>2, <1>3, <1>4

(* The other steps leave the queue, the flag and the sends alone.          *)
LEMMA OthersKeep ==
    ASSUME IInv,
           \/ ReadLoopAsync \/ ReadHandlerData \/ ReadFails \/ ReadCancelled
           \/ StopContext \/ UNCHANGED tcpVars
           \/ \E t \in Thread : WriteFreed(t)
    PROVE  IInv'
<1> USE DEF ReadLoopAsync, ReadHandlerData, ReadFails, ReadCancelled,
           StopContext,
            WriteFreed, tcpVars, queueVars, netVars
<1>1. TcpTypeOK'
  BY DEF IInv, TcpTypeOK
<1>2. BufferHasOneSend' /\ WritingGuards' /\ QueueWatched'
  BY DEF IInv, BufferHasOneSend, WritingGuards, QueueWatched, Owns
<1>3. WriterExists' /\ FailuresShow'
  BY DEF IInv, WriterExists, FailuresShow, Owns
<1>4. QED
  BY <1>1, <1>2, <1>3 DEF IInv

(* Every step keeps the invariant.                                         *)
LEMMA NextIInv == IInv /\ [TcpNext]_tcpVars => IInv'
<1> SUFFICES ASSUME IInv, [TcpNext]_tcpVars PROVE IInv'
  OBVIOUS
<1>1. CASE \E t \in Thread, m \in Message : WriteAsync(t, m)
  BY <1>1, WriteAsyncKeeps
<1>2. CASE Steps
  <2>1. CASE \E t \in Thread : DoWriteLocked(t)
    BY <2>1, DoWriteLockedKeeps
  <2>2. CASE \E t \in Thread : DoWriteSend(t)
    BY <2>2, DoWriteSendKeeps
  <2>3. CASE \E t \in Thread : DoWriteMagic(t)
    BY <2>3, DoWriteMagicKeeps
  <2>4. CASE \E i \in DOMAIN inFlight : Transmit(i)
    BY <2>4, TransmitKeeps
  <2>5. CASE \E i \in DOMAIN inFlight : SendHandler(i)
    BY <2>5, SendHandlerKeeps
  <2>6. CASE ReadLoopAsync
    BY <2>6, OthersKeep
  <2>7. QED
    BY <1>2, <2>1, <2>2, <2>3, <2>4, <2>5, <2>6 DEF Steps
<1>3. CASE \E i \in DOMAIN inFlight : TransmitFails(i)
  BY <1>3, TransmitKeeps
<1>4. CASE OnConnectionEof
  BY <1>4, OnEofKeeps
<1>5. CASE \/ ReadHandlerData \/ ReadFails \/ ReadCancelled \/ StopContext
           \/ UNCHANGED tcpVars \/ \E t \in Thread : WriteFreed(t)
  BY <1>5, OthersKeep
<1>6. QED
  BY <1>1, <1>2, <1>3, <1>4, <1>5 DEF TcpNext

(* The invariant holds in every state of every behaviour.                  *)
LEMMA TcpInvariance == TcpSpec => []IInv
BY InitIInv, NextIInv, PTL DEF TcpSpec

(* The state of a connection is well typed; in particular the empty        *)
(* message is never transmitted.                                           *)
THEOREM TypeCorrect == TcpSpec => []TcpTypeOK
BY TcpInvariance, PTL DEF IInv

(* messageToWrite_, which do_write assigns without the mutex while asio    *)
(* reads it, belongs to one send at a time.                                *)
THEOREM BufferHasOneSendHolds == TcpSpec => []BufferHasOneSend
BY TcpInvariance, PTL DEF IInv

(* As long as the socket is open and no send has failed, a message in      *)
(* outQueue has a writer that will come to it: an owner of the buffer, a   *)
(* send whose handler continues, or a thread that will find writing_       *)
(* cleared.  A push that races the completion handler is not forgotten.    *)
THEOREM NoStrandedMessageHolds == TcpSpec => []NoStrandedMessage
<1>1. IInv => NoStrandedMessage
  BY DEF IInv, QueueWatched, WriterExists, NoStrandedMessage
<1>2. QED
  BY <1>1, TcpInvariance, PTL

-----------------------------------------------------------------------------
(* The order of the transmitted messages.                                  *)

\* How many messages do_write has taken out of the queue.
Taken == Len(queued) - Len(outQueue)

\* The queue holds the last messages that were pushed.  Whoever owns a message
\* to send has the last one taken, and all before it are transmitted; when the
\* buffer is free or its send has succeeded, that one is transmitted, too.  A
\* send that failed claims nothing: the flag stays set and no send follows.
OrderInv ==
    /\ Len(outQueue) <= Len(queued)
    /\ \A i \in 1 .. Len(outQueue) : outQueue[i] = queued[Taken + i]
    /\ \A t \in Thread : pc[t] = "send" =>
           Len(onWire) + 1 = Taken /\ message[t] = queued[Taken]
    /\ \A i \in DOMAIN inFlight : inFlight[i].status = "pending" =>
           Len(onWire) + 1 = Taken /\ inFlight[i].msg = queued[Taken]
    /\ \A i \in DOMAIN inFlight :
         inFlight[i].status = "sent" => Len(onWire) = Taken
    /\ ~ writing \/ pc["io"] = "cont" => Len(onWire) = Taken

(* The lengths of the three sequences are numbers.                         *)
LEMMA Lengths ==
    ASSUME TcpTypeOK
    PROVE  /\ Len(queued) \in Nat /\ Len(outQueue) \in Nat
           /\ Len(onWire) \in Nat
           /\ DOMAIN queued = 1 .. Len(queued)
  BY LenProperties DEF TcpTypeOK

(* A push leaves the number of messages taken, a pop adds one.             *)
LEMMA TakenArithmetic ==
    ASSUME NEW q \in Nat, NEW o \in Nat, o <= q
    PROVE  /\ (q + 1) - (o + 1) = q - o
           /\ q - (o - 1) = (q - o) + 1
           /\ q - o \in 0 .. q /\ q - o \in Nat
           /\ (q - o) + (o + 1) = q + 1
           /\ o + 1 <= q + 1 /\ o - 1 <= q
           /\ \A i \in 1 .. o : (q - o) + i \in 1 .. q
           /\ \A i \in 1 .. o + 1 : i \in 1 .. o \/ i = o + 1
  OBVIOUS

(* A push extends the queue and the history alike.                         *)
LEMMA WriteAsyncOrder ==
    ASSUME IInv, OrderInv, NEW t \in Thread, NEW m \in Message, WriteAsync(t, m)
    PROVE  OrderInv'
<1> USE DEF WriteAsync, netVars
<1>1. /\ Len(queued') = Len(queued) + 1 /\ Len(outQueue') = Len(outQueue) + 1
      /\ \A i \in 1 .. Len(queued) : queued'[i] = queued[i]
      /\ \A i \in 1 .. Len(outQueue) : outQueue'[i] = outQueue[i]
      /\ queued'[Len(queued) + 1] = m
      /\ outQueue'[Len(outQueue) + 1] = m
  BY AppendProperties DEF IInv, TcpTypeOK
<1> DEFINE q == Len(queued)
           o == Len(outQueue)
<1>a. q \in Nat /\ o \in Nat /\ o <= q /\ Len(onWire) \in Nat
  BY Lengths DEF IInv, OrderInv
<1>b. Taken = q - o /\ Taken' = (q + 1) - (o + 1)
  BY <1>1 DEF Taken
<1> HIDE DEF q, o
<1>2. Taken' = Taken /\ Taken \in 0 .. q
  BY <1>a, <1>b, TakenArithmetic
<1>3. \A i \in 1 .. o + 1 : outQueue'[i] = queued'[Taken + i]
  <2>1. TAKE i \in 1 .. o + 1
  <2>2. CASE i = o + 1
    <3>1. Taken + i = q + 1
      BY <2>2, <1>a, <1>b, TakenArithmetic
    <3>2. QED
      BY <2>2, <3>1, <1>1 DEF q, o
  <2>3. CASE i \in 1 .. o
    <3>1. Taken + i \in 1 .. q
      BY <2>3, <1>a, <1>b, TakenArithmetic
    <3>2. outQueue[i] = queued[Taken + i]
      BY <2>3 DEF OrderInv, o
    <3>3. QED
      BY <2>3, <3>1, <3>2, <1>1 DEF q, o
  <2>4. QED
    BY <2>2, <2>3, <1>a, TakenArithmetic
<1>4. \A u \in Thread : pc'[u] = "send" => pc[u] = "send"
  BY DEF IInv, TcpTypeOK
<1>5. pc'["io"] = "cont" => pc["io"] = "cont"
  BY DEF IInv, TcpTypeOK, Thread
<1>6. Len(onWire) + 1 = Taken => queued'[Taken] = queued[Taken]
  <2>1. Len(onWire) + 1 = Taken => Taken \in 1 .. q
    BY <1>a, <1>2
  <2>2. QED
    BY <2>1, <1>1 DEF q
<1>7. /\ Len(outQueue') <= Len(queued')
      /\ \A i \in 1 .. Len(outQueue') : outQueue'[i] = queued'[Taken' + i]
  <2>1. o + 1 <= q + 1
    BY <1>a, TakenArithmetic
  <2>2. QED
    BY <2>1, <1>1, <1>2, <1>3 DEF q, o
<1>8. /\ onWire' = onWire /\ inFlight' = inFlight /\ message' = message
      /\ writing' = writing
  OBVIOUS
<1>9. /\ \A u \in Thread : pc'[u] = "send" =>
             Len(onWire') + 1 = Taken' /\ message'[u] = queued'[Taken']
      /\ \A i \in DOMAIN inFlight' : inFlight'[i].status = "pending" =>
             Len(onWire') + 1 = Taken' /\ inFlight'[i].msg = queued'[Taken']
  BY <1>2, <1>4, <1>6, <1>8 DEF OrderInv
<1>10. /\ \A i \in DOMAIN inFlight' : inFlight'[i].status = "sent" =>
              Len(onWire') = Taken'
       /\ ~ writing' \/ pc'["io"] = "cont" => Len(onWire') = Taken'
  BY <1>2, <1>5, <1>8 DEF OrderInv
<1>11. QED
  BY <1>7, <1>9, <1>10 DEF OrderInv

(* The locked block takes the first message of the queue, which is the     *)
(* next of the history.                                                    *)
LEMMA DoWriteLockedOrder ==
    ASSUME IInv, OrderInv, NEW t \in Thread, DoWriteLocked(t)
    PROVE  OrderInv'
<1> USE DEF DoWriteLocked, netVars
<1>1. CASE WriteGoingOn(t)
  BY <1>1 DEF WriteGoingOn, OrderInv, Taken, IInv, TcpTypeOK, Thread
<1>2. CASE ~ WriteGoingOn(t) /\ outQueue = <<>>
  <2>1. Len(onWire) = Taken
    BY <1>2 DEF WriteGoingOn, OrderInv, IInv, TcpTypeOK, Thread
  <2>2. QED
    BY <1>2, <2>1 DEF WriteGoingOn, OrderInv, Taken, IInv, TcpTypeOK, Thread
<1>3. CASE ~ WriteGoingOn(t) /\ outQueue # <<>>
  <2>1. Len(onWire) = Taken
    BY <1>3 DEF WriteGoingOn, OrderInv, IInv, TcpTypeOK, Thread
  <2>2. /\ Len(outQueue') = Len(outQueue) - 1
        /\ \A i \in 1 .. Len(outQueue') : outQueue'[i] = outQueue[i + 1]
        /\ Len(outQueue) \in Nat \ {0}
    <3>1. /\ outQueue \in Seq(Message) /\ outQueue # <<>>
          /\ outQueue' = Tail(outQueue)
      BY <1>3 DEF IInv, TcpTypeOK
    <3>2. QED
      BY <3>1, HeadTailProperties, EmptySeq
  <2>3. Taken' = Taken + 1 /\ Taken \in Nat
    <3>1. /\ Len(queued) \in Nat /\ Len(outQueue) \in Nat
          /\ Len(outQueue) <= Len(queued) /\ queued' = queued
      BY <1>3, Lengths DEF IInv, OrderInv
    <3>2. QED
      BY <3>1, <2>2, TakenArithmetic DEF Taken
  <2>4. Head(outQueue) = queued[Taken + 1]
    BY <2>2 DEF OrderInv, IInv, TcpTypeOK
  <2>5. \A i \in 1 .. Len(outQueue') : outQueue'[i] = queued'[Taken' + i]
    <3>1. TAKE i \in 1 .. Len(outQueue')
    <3>2. i + 1 \in 1 .. Len(outQueue) /\ Taken' + i = Taken + (i + 1)
      BY <2>2, <2>3
    <3>3. QED
      BY <1>3, <2>2, <3>2 DEF OrderInv
  <2>6. inFlight = <<>> /\ \A u \in Thread \ {t} : ~ Owns(u)
    BY <1>3 DEF WriteGoingOn, IInv, TcpTypeOK, BufferHasOneSend, WritingGuards,
                Owns
  <2>7. \A u \in Thread : pc'[u] = "send" => u = t
    BY <1>3, <2>6 DEF IInv, TcpTypeOK, Owns
  <2>8. message'[t] = queued'[Taken'] /\ Len(onWire') + 1 = Taken'
    BY <1>3, <2>1, <2>3, <2>4 DEF IInv, TcpTypeOK
  <2>9. writing' /\ pc'["io"] # "cont"
    BY <1>3, <2>6 DEF IInv, TcpTypeOK, Owns, Thread
  <2>10. Len(outQueue') <= Len(queued')
    BY <1>3, <2>2, Lengths DEF IInv, OrderInv
  <2>11. inFlight' = <<>>
    BY <2>6
  <2>12. QED
    BY <2>5, <2>7, <2>8, <2>9, <2>10, <2>11 DEF OrderInv
<1>4. QED
  BY <1>1, <1>2, <1>3

(* The send that starts is of the last message taken.                      *)
LEMMA DoWriteSendOrder ==
    ASSUME IInv, OrderInv, NEW t \in Thread, DoWriteSend(t) \/ DoWriteMagic(t)
    PROVE  OrderInv'
<1> USE DEF DoWriteSend, DoWriteMagic, queueVars
<1>1. inFlight = <<>> /\ writing
  BY DEF IInv, BufferHasOneSend, WritingGuards, Owns
<1>2. pc["io"] # "cont" /\ \A u \in Thread \ {t} : ~ Owns(u)
  BY DEF IInv, BufferHasOneSend, Owns, TcpTypeOK, Thread
<1>3. pc'["io"] # "cont" /\ \A u \in Thread : pc'[u] # "send"
  BY <1>2 DEF IInv, TcpTypeOK, Owns, Thread
<1>4. \E st \in {"pending", "error"} :
          inFlight' = <<[msg |-> message[t], status |-> st]>>
  <2>1. CASE DoWriteSend(t)
    BY <1>1, <2>1
  <2>2. CASE DoWriteMagic(t)
    <3>1. [i \in DOMAIN inFlight |-> Aborted(inFlight[i])] = <<>>
      BY <1>1
    <3>2. QED
      BY <2>2, <3>1
  <2>3. QED
    BY <2>1, <2>2
<1>5. Len(onWire) + 1 = Taken /\ message[t] = queued[Taken]
  BY DEF OrderInv
<1>6. Taken' = Taken
  BY DEF Taken
<1>7. UNCHANGED <<outQueue, queued, onWire, writing>>
  OBVIOUS
<1>8. \A i \in DOMAIN inFlight' :
          /\ inFlight'[i].status \in {"pending", "error"}
          /\ inFlight'[i].msg = message[t]
  BY <1>4
<1>9. QED
  BY <1>1, <1>3, <1>5, <1>6, <1>7, <1>8 DEF OrderInv

(* The kernel transmits the last message taken.                            *)
LEMMA TransmitOrder ==
    ASSUME IInv, OrderInv, NEW i \in DOMAIN inFlight,
           Transmit(i) \/ TransmitFails(i)
    PROVE  OrderInv'
<1> USE DEF Transmit, TransmitFails, queueVars
<1>1. writing /\ \A t \in Thread : ~ Owns(t)
  BY DEF IInv, BufferHasOneSend, WritingGuards
<1>2. pc["io"] # "cont" /\ \A t \in Thread : pc[t] # "send"
  BY <1>1 DEF Owns, Thread
<1>3. \A j \in DOMAIN inFlight : j = i
  BY LenProperties DEF IInv, TcpTypeOK, BufferHasOneSend
<1>4. Len(onWire) + 1 = Taken
  BY DEF OrderInv
<1>5. Taken' = Taken
  BY DEF Taken
<1>6. CASE Transmit(i)
  <2>1. Len(onWire') = Len(onWire) + 1
    <3>1. messageToWrite \in Message \ {Magic}
      BY <1>6 DEF IInv, TcpTypeOK, BufferHasOneSend, SendRecord
    <3>2. QED
      BY <1>6, <3>1, AppendProperties DEF IInv, TcpTypeOK
  <2>2. DOMAIN inFlight' = DOMAIN inFlight /\ inFlight'[i].status = "sent"
    BY <1>6 DEF IInv, TcpTypeOK, SendRecord
  <2>3. QED
    BY <1>1, <1>2, <1>3, <1>4, <1>5, <1>6, <2>1, <2>2 DEF OrderInv
<1>7. CASE TransmitFails(i)
  <2>1. DOMAIN inFlight' = DOMAIN inFlight /\ inFlight'[i].status = "error"
    BY <1>7 DEF IInv, TcpTypeOK, SendRecord
  <2>2. QED
    BY <1>1, <1>2, <1>3, <1>5, <1>7, <2>1 DEF OrderInv
<1>8. QED
  BY <1>6, <1>7

(* The completion handler goes on only after a message was transmitted.    *)
LEMMA SendHandlerOrder ==
    ASSUME IInv, OrderInv, NEW i \in DOMAIN inFlight, SendHandler(i)
    PROVE  OrderInv'
<1> USE DEF SendHandler, queueVars
<1>1. inFlight' = <<>>
  BY RemoveOnly DEF IInv, TcpTypeOK, BufferHasOneSend
<1>2. writing /\ \A t \in Thread : ~ Owns(t)
  BY DEF IInv, BufferHasOneSend, WritingGuards
<1>3. \A t \in Thread : pc'[t] # "send"
  BY <1>2 DEF Owns, IInv, TcpTypeOK, Thread
<1>4. pc'["io"] = "cont" => inFlight[i].status = "sent"
  BY <1>2 DEF Owns, Thread
<1>5. Taken' = Taken
  BY DEF Taken
<1>6. outQueue' = outQueue /\ queued' = queued /\ onWire' = onWire /\ writing'
  BY <1>2
<1>7. pc'["io"] = "cont" => Len(onWire) = Taken
  BY <1>4 DEF OrderInv
<1>8. DOMAIN inFlight' = {}
  <2>1. DOMAIN <<>> = {}
    OBVIOUS
  <2>2. QED
    BY <1>1, <2>1
<1>9. QED
  BY <1>3, <1>5, <1>6, <1>7, <1>8 DEF OrderInv

(* Closing the socket turns pending sends into aborted ones.               *)
LEMMA OnEofOrder ==
    ASSUME IInv, OrderInv, OnConnectionEof
    PROVE  OrderInv'
<1> USE DEF OnConnectionEof, Close, queueVars
<1>1. /\ DOMAIN inFlight' = DOMAIN inFlight
      /\ \A i \in DOMAIN inFlight :
             /\ inFlight'[i].status = "pending" => FALSE
             /\ inFlight'[i].status = "sent" => inFlight[i].status = "sent"
  BY DEF Aborted, IInv, TcpTypeOK, SendRecord
<1>2. UNCHANGED <<outQueue, queued, onWire, writing, pc, message>>
  OBVIOUS
<1>3. QED
  BY <1>1, <1>2 DEF OrderInv, Taken

(* Every step keeps the order.                                             *)
LEMMA NextOrder == IInv /\ OrderInv /\ [TcpNext]_tcpVars => OrderInv'
<1> SUFFICES ASSUME IInv, OrderInv, [TcpNext]_tcpVars PROVE OrderInv'
  OBVIOUS
<1>1. CASE \E t \in Thread, m \in Message : WriteAsync(t, m)
  BY <1>1, WriteAsyncOrder
<1>2. CASE \E t \in Thread : DoWriteLocked(t)
  BY <1>2, DoWriteLockedOrder
<1>3. CASE \E t \in Thread : DoWriteSend(t) \/ DoWriteMagic(t)
  BY <1>3, DoWriteSendOrder
<1>4. CASE \E i \in DOMAIN inFlight : Transmit(i) \/ TransmitFails(i)
  BY <1>4, TransmitOrder
<1>5. CASE \E i \in DOMAIN inFlight : SendHandler(i)
  BY <1>5, SendHandlerOrder
<1>6. CASE OnConnectionEof
  BY <1>6, OnEofOrder
<1>7. CASE \/ ReadLoopAsync \/ ReadHandlerData \/ ReadFails \/ ReadCancelled
           \/ StopContext \/ UNCHANGED tcpVars
           \/ \E t \in Thread : WriteFreed(t)
  BY <1>7 DEF OrderInv, Taken, ReadLoopAsync, ReadHandlerData, ReadFails,
              ReadCancelled, StopContext, WriteFreed, tcpVars, queueVars, netVars
<1>8. QED
  BY <1>1, <1>2, <1>3, <1>4, <1>5, <1>6, <1>7 DEF TcpNext, Steps

(* A step of the connection is a Send of the channel (write_async), a      *)
(* Receive (the kernel transmits), or neither.                             *)
LEMMA StepSimulation ==
    IInv /\ OrderInv /\ [TcpNext]_tcpVars =>
      [Channel!ChannelNext]_(Channel!channelVars)
<1> SUFFICES ASSUME IInv, OrderInv, [TcpNext]_tcpVars
             PROVE  Channel!ChannelNext \/ UNCHANGED <<queued, onWire>>
  BY DEF Channel!channelVars
<1>1. ASSUME NEW t \in Thread, NEW m \in Message, WriteAsync(t, m)
      PROVE  Channel!Send(m)
  BY <1>1 DEF WriteAsync, netVars, Channel!Send
<1>2. ASSUME NEW i \in DOMAIN inFlight, Transmit(i)
      PROVE  Channel!Receive
  <2>1. Len(onWire) + 1 = Taken /\ messageToWrite = queued[Taken]
    BY <1>2 DEF Transmit, OrderInv, IInv, BufferHasOneSend
  <2>2. Len(onWire) < Len(queued)
    BY <2>1, Lengths DEF Taken, IInv
  <2>3. QED
    BY <1>2, <2>1, <2>2 DEF Transmit, queueVars, Channel!Receive
<1>3. ASSUME TcpNext,
             ~ \E t \in Thread, m \in Message : WriteAsync(t, m),
             ~ \E i \in DOMAIN inFlight : Transmit(i)
      PROVE  UNCHANGED <<queued, onWire>>
  BY <1>3 DEF TcpNext, Steps, DoWriteLocked, DoWriteSend, DoWriteMagic,
              SendHandler, TransmitFails, ReadLoopAsync, ReadHandlerData,
              OnConnectionEof, ReadFails, ReadCancelled, StopContext, WriteFreed,
              queueVars,
              netVars
<1>4. QED
  BY <1>1, <1>2, <1>3 DEF tcpVars, queueVars, netVars, Channel!ChannelNext

(* A fresh connection has transmitted all of nothing.                      *)
LEMMA InitOrder == TcpInit => OrderInv
<1>1. Len(<<>>) = 0
  BY EmptySeq
<1>2. QED
  BY <1>1 DEF TcpInit, OrderInv, Taken, Thread

(* The connection implements the channel: what both threads queue is       *)
(* transmitted in the order it was queued, nothing twice, nothing skipped. *)
THEOREM WritesInOrderHolds == TcpSpec => WritesInOrder
<1>1. TcpInit => Channel!ChannelInit
  BY DEF TcpInit, Channel!ChannelInit
<1>2. QED
  BY <1>1, InitIInv, NextIInv, InitOrder, NextOrder, StepSimulation, PTL
     DEF TcpSpec, WritesInOrder, Channel!ChannelSpec

-----------------------------------------------------------------------------
(* The inductive invariant.                                                *)

Phases == {"new", "add", "accepting", "wait", "disconnect", "remove", "check",
           "stop", "reset", "unregister", "gone"}

ServerRec ==
    [state : {"none", "running", "stopped", "deleted"},
     thread : {"none", "starting", "run", "done"},
     tcp : {"none", "open", "stopped"}, stopped : BOOLEAN,
     delegate : BOOLEAN, targets : SUBSET Agent,
     sessions : [Session -> Agent \cup {None}]]

AgentRec ==
    [phase : Phases, server : Server \cup {None},
     session : Session \cup {None}]

\* What Start and Stop work on.
ShareTypes ==
    /\ registry \in Server \cup {None}
    /\ srv \in [Server -> ServerRec]
    /\ agent \in [Agent -> AgentRec]

\* A server listens while it runs, and is without its delegate only after it
\* was stopped.
ServerOK(v) ==
    /\ srv[v].state = "none" => srv[v].thread = "none"
    /\ srv[v].state \in {"none", "running"} =>
         srv[v].delegate /\ ~srv[v].stopped
    /\ srv[v].state = "stopped" => srv[v].stopped
    /\ srv[v].state = "deleted" => srv[v].thread \in {"none", "done"}
    /\ srv[v].tcp = "open" => srv[v].thread = "run" /\ srv[v].state = "running"
    /\ srv[v].thread = "none" => srv[v].tcp = "none"

Made == {"running", "stopped"}

\* An agent has a server from the beginning of Start to the end of Stop.
AgentOK(a) ==
    agent[a].phase \notin {"new", "gone"} =>
      /\ agent[a].server \in Server
      /\ srv[agent[a].server].state \in Made
      /\ agent[a].phase \in {"reset", "unregister"} =>
           srv[agent[a].server].state = "stopped"

RegistryOK == registry # None => srv[registry].state \in Made

Uses     == {"add", "accepting", "wait", "disconnect", "remove"}
Listed   == {"accepting", "wait", "disconnect", "remove"}
Stopping == {"stop", "reset", "unregister"}

\* A server that was stopped has its delegate until the agent that stopped it
\* comes to reset it.
DelegateOK(v) ==
    srv[v].state = "stopped" /\ srv[v].delegate =>
      \E a \in Agent : agent[a].phase = "reset" /\ agent[a].server = v

\* The agents up to their RemoveTarget use the server that is registered, which
\* runs.  Once one of them has found it without targets there is no such agent,
\* and nothing else is registered until the agent is gone.
Shared ==
    /\ \A a, b \in Agent : agent[a].phase \in Stopping =>
         agent[b].phase \notin Uses
    /\ \A v \in Server : srv[v].state = "running" => registry = v
    /\ \A a \in Agent : agent[a].phase \in Uses =>
         /\ registry = agent[a].server
         /\ srv[agent[a].server].state = "running"
    /\ \A a \in Agent : agent[a].phase \in Listed =>
         a \in srv[agent[a].server].targets
    /\ \A a \in Agent : agent[a].phase \in Stopping =>
         registry \in {None, agent[a].server}
    /\ registry # None =>
         \/ srv[registry].state = "running"
         \/ \E a \in Agent : agent[a].phase \in {"reset", "unregister"}

ShareInv ==
    /\ ShareTypes
    /\ \A v \in Server : ServerOK(v) /\ DelegateOK(v)
    /\ \A a \in Agent : AgentOK(a)
    /\ RegistryOK
    /\ ~raced => Shared

\* What a client sends.
Requests == {"get", "bad", "upgrade"}

PartKind == Requests \cup {"head", "tail"}

Part == {p \in [kind : PartKind, of : Nat] :
           p.kind = "upgrade" => p.of \in Agent}

IoRec ==
    [step : {"idle", "http", "accept", "start", "ws"},
     ses : Session \cup {None}, data : Seq(Part)]

ConRec ==
    [server : Server \cup {None}, handler : {"none", "http", "ws"},
     first : Agent \cup {None}, listed : BOOLEAN, reading : BOOLEAN,
     aborted : BOOLEAN]

FlowTypes ==
    /\ io \in [Server -> IoRec]
    /\ tags \in [Agent -> Seq(Session \X {"connect", "disconnect"})]
    /\ con \in [Session -> ConRec]
    /\ wire \in [Session -> Seq(Part)]
    /\ client \in [Session -> [open : BOOLEAN,
                               sent : Seq({"text", "close", "bad"})]]
    /\ sends \in 0..MaxSent
    /\ \A s \in Session : Len(client[s].sent) <= 2 * sends
    /\ log \in [Session -> Seq(0..Misread)]
    /\ cut \in SUBSET Session
    /\ \A v \in Server : io[v].step = "idle" <=> io[v].data = <<>>

\* The targets were told only what was sent, in its order.
OrderOK(s) ==
    /\ log[s] # <<>> => log[s][1] = 0
    /\ s \notin cut =>
         \A i \in 2..Len(log[s]) : log[s][i] # 0 =>
           /\ log[s][i] = i - 1
           /\ i - 1 \in 1..Len(client[s].sent)
           /\ client[s].sent[i - 1] = "text"

\* A handler on the I/O thread has the connection to itself.
HandlerOK(v) ==
    /\ io[v].step = "idle" => io[v].ses = None
    /\ io[v].step # "idle" =>
         /\ srv[v].thread = "run"
         /\ io[v].ses \in Session
         /\ con[io[v].ses].server = v
         /\ con[io[v].ses].handler =
              IF io[v].step \in {"http", "accept"} THEN "http" ELSE "ws"
         /\ io[v].step # "ws" =>
              /\ \A i \in 1..(Len(io[v].data) - 1) :
                   io[v].data[i].kind # "upgrade"
         /\ io[v].step \in {"accept", "start"} =>
              io[v].data[1].kind = "upgrade"
         /\ io[v].step = "start" => log[io[v].ses] = <<>>

ConOK(s) ==
    /\ con[s].server = None => con[s].handler = "none"
    /\ con[s].server = None \/ con[s].handler = "http" =>
         log[s] = <<>> /\ client[s].sent = <<>> /\ con[s].first = None
    /\ log[s] # <<>> \/ con[s].handler = "ws" => con[s].first # None
    /\ \A v \in Server : srv[v].sessions[s] # None => log[s] # <<>>

BracketOK(s) ==
    log[s] # <<>> =>
      /\ \A i \in 2..(Len(log[s]) - 1) : log[s][i] # 0
      /\ con[s].handler = "ws" => \A i \in 2..Len(log[s]) : log[s][i] # 0
      /\ con[s].handler = "none" =>
           \/ Len(log[s]) > 1 /\ log[s][Len(log[s])] = 0
           \/ con[s].server \in Server /\ srv[con[s].server].state = "deleted"

\* Part p is the h-th half of the frames, or comes before them all.
PartAt(p, h) ==
    IF h <= 0 THEN p.kind \in Requests
    ELSE \/ p.kind = "head" /\ h = 2 * p.of - 1
         \/ p.kind = "tail" /\ h = 2 * p.of

\* What was not read yet is the end of what was sent.
WireOK(s) ==
    \A i \in 1..Len(wire[s]) :
      PartAt(wire[s][i], i + 2 * Len(client[s].sent) - Len(wire[s]))

\* The data of a read comes before what was not read yet.
DataOK(v) ==
    io[v].step = "ws" =>
      \A i \in 1..Len(io[v].data) :
        PartAt(io[v].data[i],
               i + 2 * Len(client[io[v].ses].sent) - Len(wire[io[v].ses])
                 - Len(io[v].data))

\* Messages told, halves of frames that were handled.
Count(s) == IF log[s] = <<>> THEN 0 ELSE Len(log[s]) - 1

InData(s) ==
    IF con[s].server # None /\ io[con[s].server].ses = s
       /\ io[con[s].server].step = "ws"
    THEN Len(io[con[s].server].data) ELSE 0

Handled(s) == 2 * Len(client[s].sent) - Len(wire[s]) - InData(s)

\* Every frame that was handled was told, but for a close frame.
ProgressOK(s) ==
    s \notin cut /\ con[s].handler = "ws" =>
      \/ Handled(s) <= 0 /\ Count(s) = 0
      \/ Handled(s) = 2 * Count(s)
      \/ /\ Handled(s) = 2 * Count(s) + 2
         /\ Len(client[s].sent) = Count(s) + 1
         /\ client[s].sent[Len(client[s].sent)] = "close"

CloseIsLast(s) ==
    \A i \in 1..Len(client[s].sent) :
      client[s].sent[i] = "close" => i = Len(client[s].sent)

FlowOK ==
    /\ \A v \in Server : HandlerOK(v) /\ DataOK(v)
    /\ \A s \in Session : /\ ConOK(s) /\ BracketOK(s) /\ WireOK(s)
                          /\ ProgressOK(s) /\ CloseIsLast(s)

Faults == {"none", "delegate", "target", "isolate", "check", "map", "race",
           "abort", "overrun"}

FlowInv ==
    /\ FlowTypes
    /\ fault \in Faults
    /\ \A s \in Session : OrderOK(s)
    /\ Running => FlowOK

SrvInv == ShareInv /\ FlowInv

-----------------------------------------------------------------------------
(* The agents share a server.                                              *)

(* None is no server, agent or session.                                    *)
LEMMA NoneIsNone == None \notin Server /\ None \notin Agent /\ None \notin Session
BY DEF None, Server, Agent, Session

(* No agent has started.                                                   *)
LEMMA ShareInit == Init => ShareInv
<1> SUFFICES ASSUME Init PROVE ShareInv
  OBVIOUS
<1> USE NoneIsNone
<1>1. ShareTypes
  BY Zenon DEF Init, ShareTypes, ServerRec, AgentRec, Phases
<1>2. \A v \in Server : /\ srv[v].state = "none" /\ srv[v].thread = "none"
                        /\ srv[v].tcp = "none" /\ srv[v].stopped = FALSE
                        /\ srv[v].delegate = TRUE
  BY DEF Init
<1>3. \A a \in Agent : agent[a].phase = "new"
  BY DEF Init
<1>4. registry = None
  BY DEF Init
<1>5. \A v \in Server : ServerOK(v) /\ DelegateOK(v)
  BY <1>2 DEF ServerOK, DelegateOK
<1>6. (\A a \in Agent : AgentOK(a)) /\ RegistryOK
  BY <1>3, <1>4 DEF AgentOK, RegistryOK
<1>7. Shared
  BY <1>2, <1>3, <1>4 DEF Shared, Uses, Listed, Stopping
<1>8. QED
  BY <1>1, <1>5, <1>6, <1>7 DEF ShareInv

(* Steps that leave the agents, the registry and what a server is alone;   *)
(* a server that was stopped may lose its delegate.                        *)
LEMMA ShareQuiet ==
    ASSUME ShareInv, ShareTypes', registry' = registry, raced' = raced,
           \A a \in Agent : /\ agent'[a].phase = agent[a].phase
                            /\ agent'[a].server = agent[a].server,
           \A v \in Server : /\ srv'[v].state = srv[v].state
                             /\ srv'[v].thread = srv[v].thread
                             /\ srv'[v].tcp = srv[v].tcp
                             /\ srv'[v].stopped = srv[v].stopped
                             /\ srv'[v].delegate => srv[v].delegate
                             /\ srv[v].state # "stopped" =>
                                  /\ srv'[v].delegate = srv[v].delegate
                                  /\ srv'[v].targets = srv[v].targets
    PROVE  ShareInv'
<1>1. \A v \in Server : ServerOK(v)'
  BY DEF ShareInv, ServerOK
<1>2. \A a \in Agent : AgentOK(a)'
  BY DEF ShareInv, AgentOK
<1>3. RegistryOK'
  BY DEF ShareInv, ShareTypes, RegistryOK
<1>4. ASSUME ~raced' PROVE Shared'
  <2>1. Shared
    BY <1>4 DEF ShareInv
  <2>2. \A a \in Agent : agent[a].phase \in Uses => agent[a].server \in Server
    BY DEF ShareInv, AgentOK, Uses
  <2>3. \A a \in Agent : agent[a].phase \in Listed =>
          agent[a].phase \in Uses
    BY DEF Listed, Uses
  <2>4. \A v \in Server : srv'[v].state = "running" => registry' = v
    BY <2>1 DEF Shared
  <2>5. \A a \in Agent : agent'[a].phase \in Uses =>
          /\ registry' = agent'[a].server
          /\ srv'[agent'[a].server].state = "running"
    BY <2>1, <2>2 DEF Shared
  <2>6. \A a \in Agent : agent'[a].phase \in Listed =>
          a \in srv'[agent'[a].server].targets
    BY <2>1, <2>2, <2>3 DEF Shared
  <2>7. /\ \A a, b \in Agent : agent'[a].phase \in Stopping =>
               agent'[b].phase \notin Uses
        /\ \A a \in Agent : agent'[a].phase \in Stopping =>
               registry' \in {None, agent'[a].server}
    BY <2>1 DEF Shared
  <2>8. registry' # None =>
          \/ srv'[registry'].state = "running"
          \/ \E a \in Agent : agent'[a].phase \in {"reset", "unregister"}
    BY <2>1 DEF Shared, ShareInv, ShareTypes
  <2>9. QED
    BY <2>4, <2>5, <2>6, <2>7, <2>8 DEF Shared
<1>5. \A v \in Server : DelegateOK(v)'
  BY DEF ShareInv, DelegateOK
<1>6. QED
  BY <1>1, <1>2, <1>3, <1>4, <1>5 DEF ShareInv

(* Nothing that Start and Stop work on changes.                            *)
LEMMA ShareStill ==
    ASSUME ShareInv, UNCHANGED <<agentVars, srv>>
    PROVE  ShareInv'
<1>1. registry' = registry /\ agent' = agent /\ raced' = raced
      /\ srv' = srv
  BY DEF agentVars
<1>2. ShareTypes'
  BY <1>1 DEF ShareInv, ShareTypes
<1>3. QED
  BY <1>1, <1>2, ShareQuiet

(* Another phase of an agent.                                              *)
LEMMA ShareGo ==
    ASSUME ShareInv, NEW a \in Agent, NEW p \in Phases, Go(a, p)
    PROVE  /\ agent' \in [Agent -> AgentRec]
           /\ agent'[a].phase = p /\ agent'[a].server = agent[a].server
           /\ \A b \in Agent \ {a} : agent'[b] = agent[b]
           /\ ~raced' => /\ Shared
                         /\ p \in Stopping =>
                              \A b \in Agent \ {a} : agent[b].phase # "add"
<1>1. agent \in [Agent -> AgentRec]
  BY DEF ShareInv, ShareTypes
<1>2. agent' = [agent EXCEPT ![a].phase = p]
  BY DEF Go
<1>3. agent' \in [Agent -> AgentRec]
  BY <1>1, <1>2 DEF AgentRec
<1>4. /\ agent'[a].phase = p /\ agent'[a].server = agent[a].server
      /\ \A b \in Agent \ {a} : agent'[b] = agent[b]
  BY <1>1, <1>2 DEF AgentRec
<1>5. ~raced' => ~raced /\ ~Race'
  BY DEF Go, Observe
<1>6. ~Race' /\ p \in Stopping =>
        \A b \in Agent \ {a} : agent[b].phase # "add"
  BY <1>4 DEF Race, Stopping
<1>7. QED
  BY <1>3, <1>4, <1>5, <1>6 DEF ShareInv

(* What an agent's server is, for an agent in a call.                      *)
LEMMA OwnServer ==
    ASSUME ShareInv, NEW a \in Agent, agent[a].phase \notin {"new", "gone"}
    PROVE  /\ agent[a].server \in Server
           /\ srv[agent[a].server] \in ServerRec
           /\ srv[agent[a].server].state \in Made
           /\ ServerOK(agent[a].server)
BY DEF ShareInv, ShareTypes, AgentOK

(* An agent goes to another phase before it looks for other targets, and   *)
(* of the servers only the targets of its own change: the agent is one of  *)
(* them while it is in Listed.                                             *)
LEMMA ShareMove ==
    ASSUME ShareInv, NEW a \in Agent, NEW p \in Phases, Go(a, p),
           registry' = registry, srv' \in [Server -> ServerRec],
           agent[a].phase \in Uses, p \in Uses \cup {"check"},
           \A w \in Server : /\ srv'[w].state = srv[w].state
                             /\ srv'[w].thread = srv[w].thread
                             /\ srv'[w].tcp = srv[w].tcp
                             /\ srv'[w].stopped = srv[w].stopped
                             /\ srv'[w].delegate => srv[w].delegate
                             /\ srv[w].state # "stopped" =>
                                  srv'[w].delegate = srv[w].delegate,
           Shared =>
             /\ p \in Listed => a \in srv'[agent[a].server].targets
             /\ \A b \in Agent \ {a} : b \in srv[agent[a].server].targets =>
                                       b \in srv'[agent[a].server].targets
    PROVE  ShareInv'
<1> DEFINE v == agent[a].server
<1>1. /\ v \in Server /\ srv[v] \in ServerRec
  BY OwnServer DEF Uses
<1>2. srv \in [Server -> ServerRec]
  BY DEF ShareInv, ShareTypes
<1> HIDE DEF v
<1>5. /\ agent' \in [Agent -> AgentRec]
      /\ agent'[a].phase = p /\ agent'[a].server = v
      /\ \A b \in Agent \ {a} : agent'[b] = agent[b]
      /\ ~raced' => Shared
  BY ShareGo DEF v
<1>6. ShareTypes'
  BY <1>5 DEF ShareInv, ShareTypes
<1>7. \A w \in Server : ServerOK(w)' /\ DelegateOK(w)'
  <2>1. \A w \in Server : ServerOK(w)'
    BY DEF ShareInv, ServerOK
  <2>2. \A b \in Agent : agent[b].phase = "reset" => agent'[b] = agent[b]
    BY <1>5 DEF Uses
  <2>3. \A w \in Server : DelegateOK(w)'
    BY <2>2 DEF ShareInv, DelegateOK
  <2>4. QED
    BY <2>1, <2>3
<1>8. \A b \in Agent : AgentOK(b)'
  <2>1. AgentOK(a)'
    BY <1>1, <1>5 DEF ShareInv, AgentOK, v, Uses
  <2>2. \A b \in Agent \ {a} : AgentOK(b)'
    BY <1>5 DEF ShareInv, AgentOK
  <2>3. QED
    BY <2>1, <2>2
<1>9. RegistryOK'
  BY DEF ShareInv, ShareTypes, RegistryOK
<1>10. ASSUME ~raced' PROVE Shared'
  <2>1. Shared
    BY <1>5, <1>10
  <2>2. \A b \in Agent : /\ agent[b].phase \notin Stopping
                         /\ agent'[b].phase \notin Stopping
    <3>1. \A b \in Agent : agent[b].phase \notin Stopping
      BY <2>1 DEF Shared
    <3>2. p \notin Stopping
      BY DEF Uses, Stopping
    <3>3. QED
      BY <1>5, <3>1, <3>2
  <2>3. \A w \in Server : srv'[w].state = "running" => registry' = w
    BY <2>1 DEF Shared
  <2>4. registry = v /\ srv[v].state = "running"
    BY <2>1 DEF Shared, v
  <2>5. \A b \in Agent : agent'[b].phase \in Uses =>
          agent[b].phase \in Uses /\ agent'[b].server = v
    BY <1>5, <2>1, <2>4 DEF Shared
  <2>6. \A b \in Agent : agent'[b].phase \in Uses =>
          /\ registry' = agent'[b].server
          /\ srv'[agent'[b].server].state = "running"
    BY <1>1, <2>4, <2>5
  <2>7. \A b \in Agent \ {a} : agent'[b].phase \in Listed =>
          b \in srv[v].targets /\ b \in srv'[v].targets
    BY <1>5, <2>1, <2>5 DEF Shared, v, Listed, Uses
  <2>8. \A b \in Agent : agent'[b].phase \in Listed =>
          b \in srv'[agent'[b].server].targets
    BY <1>5, <2>5, <2>7, <2>1 DEF Listed, Uses, v
  <2>9. srv'[registry'].state = "running"
    BY <1>1, <2>4
  <2>10. QED
    BY <2>2, <2>3, <2>6, <2>8, <2>9 DEF Shared
<1>11. QED
  BY <1>6, <1>7, <1>8, <1>9, <1>10 DEF ShareInv

(* The registered server runs and has its delegate while agents share it.  *)
LEMMA DelegateThere ==
    ASSUME ShareInv, Shared, NEW a \in Agent, agent[a].phase \in Uses
    PROVE  srv[agent[a].server].delegate /\ srv[agent[a].server].state = "running"
<1>1. agent[a].server \in Server /\ ServerOK(agent[a].server)
  BY OwnServer DEF Uses
<1>2. QED
  BY <1>1 DEF Shared, ServerOK

(* delegate_ is there, or the process dies.                                *)
LEMMA TargetsChange ==
    ASSUME ShareInv, NEW v \in Server, NEW T \in SUBSET Agent,
           WithDelegate(v, [srv EXCEPT ![v].targets = T])
    PROVE  /\ srv' \in [Server -> ServerRec]
           /\ \A w \in Server : /\ srv'[w].state = srv[w].state
                                /\ srv'[w].thread = srv[w].thread
                                /\ srv'[w].tcp = srv[w].tcp
                                /\ srv'[w].stopped = srv[w].stopped
                                /\ srv'[w].delegate = srv[w].delegate
                                /\ srv'[w].sessions = srv[w].sessions
           /\ srv[v].delegate => srv'[v].targets = T
           /\ fault' \in {fault, "delegate"}
<1>1. srv \in [Server -> ServerRec]
  BY DEF ShareInv, ShareTypes
<1>2. CASE srv[v].delegate
  <2>1. srv' = [srv EXCEPT ![v].targets = T] /\ fault' = fault
    BY <1>2 DEF WithDelegate
  <2>2. QED
    BY <1>1, <2>1 DEF ServerRec
<1>3. CASE ~srv[v].delegate
  <2>1. srv' = srv /\ fault' = "delegate"
    BY <1>3 DEF WithDelegate
  <2>2. QED
    BY <1>1, <1>3, <2>1
<1>4. QED
  BY <1>2, <1>3

(* The end of Start: the agent is listed by the server it uses.            *)
LEMMA ShareAddTarget ==
    ASSUME ShareInv, NEW a \in Agent, AddTarget(a) PROVE ShareInv'
<1> DEFINE v == agent[a].server
<1>1. /\ agent[a].phase = "add" /\ Go(a, "accepting") /\ registry' = registry
      /\ WithDelegate(v, [srv EXCEPT ![v].targets = srv[v].targets \cup {a}])
  BY DEF AddTarget
<1>2. v \in Server /\ srv[v] \in ServerRec
  BY <1>1, OwnServer
<1>3. srv[v].targets \cup {a} \in SUBSET Agent
  BY <1>2 DEF ServerRec
<1>4. /\ srv' \in [Server -> ServerRec]
      /\ \A w \in Server : /\ srv'[w].state = srv[w].state
                           /\ srv'[w].thread = srv[w].thread
                           /\ srv'[w].tcp = srv[w].tcp
                           /\ srv'[w].stopped = srv[w].stopped
                           /\ srv'[w].delegate = srv[w].delegate
      /\ srv[v].delegate => srv'[v].targets = srv[v].targets \cup {a}
  <2> HIDE DEF v
  <2>1. QED
    BY <1>1, <1>2, <1>3, TargetsChange
<1>5. "add" \in Uses /\ "accepting" \in Uses /\ "accepting" \in Phases
      /\ "accepting" \in Listed
  BY DEF Uses, Phases, Listed
<1>6. Shared => srv'[v].targets = srv[v].targets \cup {a}
  BY <1>1, <1>4, <1>5, DelegateThere
<1>7. Shared =>
        /\ "accepting" \in Listed => a \in srv'[v].targets
        /\ \A b \in Agent \ {a} : b \in srv[v].targets =>
                                  b \in srv'[v].targets
  BY <1>6
<1>8. QED
  BY <1>1, <1>4, <1>5, <1>7, ShareMove

(* Stop takes the agent off the list of its server.                        *)
LEMMA ShareRemoveTarget ==
    ASSUME ShareInv, NEW a \in Agent, RemoveTarget(a) PROVE ShareInv'
<1> DEFINE v == agent[a].server
<1>1. /\ agent[a].phase = "remove" /\ Go(a, "check") /\ registry' = registry
      /\ WithDelegate(v, [srv EXCEPT ![v].targets = srv[v].targets \ {a}])
  BY DEF RemoveTarget
<1>2. v \in Server /\ srv[v] \in ServerRec
  BY <1>1, OwnServer
<1>3. srv[v].targets \ {a} \in SUBSET Agent
  BY <1>2 DEF ServerRec
<1>4. /\ srv' \in [Server -> ServerRec]
      /\ \A w \in Server : /\ srv'[w].state = srv[w].state
                           /\ srv'[w].thread = srv[w].thread
                           /\ srv'[w].tcp = srv[w].tcp
                           /\ srv'[w].stopped = srv[w].stopped
                           /\ srv'[w].delegate = srv[w].delegate
      /\ srv[v].delegate => srv'[v].targets = srv[v].targets \ {a}
  <2> HIDE DEF v
  <2>1. QED
    BY <1>1, <1>2, <1>3, TargetsChange
<1>5. "remove" \in Uses /\ "check" \in Phases
      /\ "check" \notin Listed
  BY DEF Uses, Phases, Listed
<1>6. Shared => srv'[v].targets = srv[v].targets \ {a}
  BY <1>1, <1>4, <1>5, DelegateThere
<1>7. Shared =>
        /\ "check" \in Listed => a \in srv'[v].targets
        /\ \A b \in Agent \ {a} : b \in srv[v].targets =>
                                  b \in srv'[v].targets
  BY <1>5, <1>6
<1>8. QED
  BY <1>1, <1>4, <1>5, <1>7, ShareMove

(* A phase of Stop before the agent is taken off the list.                 *)
LEMMA SharePhase ==
    ASSUME ShareInv, NEW a \in Agent, NEW p \in Phases, Go(a, p),
           registry' = registry, srv' = srv,
           agent[a].phase \in Listed, p \in Listed
    PROVE  ShareInv'
<1>1. srv' \in [Server -> ServerRec]
  BY DEF ShareInv, ShareTypes
<1>2. agent[a].phase \in Uses /\ p \in Uses \cup {"check"}
  BY DEF Uses, Listed
<1>3. Shared =>
        /\ p \in Listed => a \in srv'[agent[a].server].targets
        /\ \A b \in Agent \ {a} : b \in srv[agent[a].server].targets =>
                                  b \in srv'[agent[a].server].targets
  BY DEF Shared
<1>4. QED
  BY <1>1, <1>2, <1>3, ShareMove

(* An agent begins to stop and is still listed.                            *)
LEMMA ShareStop ==
    ASSUME ShareInv, NEW a \in Agent, Stop(a) PROVE ShareInv'
<1>1. PICK p \in {"remove", "wait"} : Go(a, p)
  BY DEF Stop
<1>2. /\ agent[a].phase = "accepting" /\ registry' = registry /\ srv' = srv
  BY DEF Stop
<1>3. p \in Phases /\ p \in Listed /\ agent[a].phase \in Listed
  BY <1>2 DEF Phases, Listed
<1>4. QED
  BY <1>1, <1>2, <1>3, SharePhase

(* An agent whose session has ended goes on with Stop.                     *)
LEMMA ShareDisconnected ==
    ASSUME ShareInv, NEW a \in Agent, Disconnected(a) PROVE ShareInv'
<1>1. /\ agent[a].phase = "disconnect" /\ registry' = registry /\ srv' = srv
      /\ Go(a, "remove")
  BY DEF Disconnected
<1>2. "remove" \in Phases /\ "remove" \in Listed /\ agent[a].phase \in Listed
  BY <1>1 DEF Phases, Listed
<1>3. QED
  BY <1>1, <1>2, SharePhase

(* An agent finds no target left.  If its server was stopped meanwhile,    *)
(* the one who stopped it has yet to reset the delegate.                   *)
LEMMA ShareLast ==
    ASSUME ShareInv, NEW a \in Agent, agent[a].phase = "check",
           srv[agent[a].server].delegate, srv[agent[a].server].targets = {},
           Go(a, "stop"), registry' = registry, srv' = srv
    PROVE  ShareInv'
<1>0. PICK v \in Server : v = agent[a].server
  BY OwnServer
<1>1. srv[v] \in ServerRec /\ srv[v].state \in Made
  BY <1>0, OwnServer
<1>2. "stop" \in Phases /\ "stop" \in Stopping
  BY DEF Phases, Stopping
<1>3. /\ agent' \in [Agent -> AgentRec]
      /\ agent'[a].phase = "stop" /\ agent'[a].server = v
      /\ \A b \in Agent \ {a} : agent'[b] = agent[b]
      /\ ~raced' => /\ Shared
                    /\ \A b \in Agent \ {a} : agent[b].phase # "add"
  BY <1>0, <1>2, ShareGo
<1>4. ShareTypes'
  BY <1>3 DEF ShareInv, ShareTypes
<1>5. \A w \in Server : ServerOK(w)' /\ DelegateOK(w)'
  <2>1. \A b \in Agent : agent[b].phase = "reset" => agent'[b] = agent[b]
    BY <1>3
  <2>2. QED
    BY <2>1 DEF ShareInv, ServerOK, DelegateOK
<1>6. RegistryOK'
  BY DEF ShareInv, RegistryOK
<1>7. \A b \in Agent : AgentOK(b)'
  <2>1. AgentOK(a)'
    BY <1>1, <1>3 DEF AgentOK
  <2>2. \A b \in Agent \ {a} : AgentOK(b)'
    BY <1>3 DEF ShareInv, AgentOK
  <2>3. QED
    BY <2>1, <2>2
<1>8. ASSUME ~raced' PROVE Shared'
  <2>1. Shared /\ \A b \in Agent \ {a} : agent[b].phase # "add"
    BY <1>3, <1>8
  <2>2. registry \in {None, v} /\ \A b \in Agent : agent[b].phase \notin Uses
    <3>1. CASE srv[v].state = "running"
      <4>1. registry = v
        BY <2>1, <3>1 DEF Shared
      <4>2. ASSUME NEW b \in Agent, agent[b].phase \in Listed PROVE FALSE
        <5>1. agent[b].server = v
          BY <2>1, <4>1, <4>2 DEF Shared, Uses, Listed
        <5>2. b \in srv[v].targets
          BY <2>1, <4>2, <5>1 DEF Shared
        <5>3. QED
          BY <1>0, <5>2
      <4>3. QED
        BY <2>1, <4>1, <4>2 DEF Uses, Listed
    <3>2. CASE srv[v].state = "stopped"
      <4>1. PICK b \in Agent : agent[b].phase = "reset" /\ agent[b].server = v
        BY <1>0, <3>2 DEF ShareInv, DelegateOK
      <4>2. agent[b].phase \in Stopping
        BY <4>1 DEF Stopping
      <4>3. QED
        BY <2>1, <4>1, <4>2 DEF Shared
    <3>3. QED
      BY <1>1, <3>1, <3>2 DEF Made
  <2>3. \A b \in Agent : /\ agent'[b].phase \notin Uses
                         /\ agent'[b].phase \notin Listed
    BY <1>3, <2>2 DEF Uses, Listed
  <2>4. \A b \in Agent : agent'[b].phase \in Stopping =>
          registry' \in {None, agent'[b].server}
    BY <1>3, <2>1, <2>2 DEF Shared
  <2>5. registry' # None =>
          \/ srv'[registry'].state = "running"
          \/ \E b \in Agent : agent'[b].phase \in {"reset", "unregister"}
    BY <1>3, <2>1 DEF Shared
  <2>6. QED
    BY <2>1, <2>3, <2>4, <2>5 DEF Shared
<1>9. QED
  BY <1>4, <1>5, <1>6, <1>7, <1>8 DEF ShareInv

(* An agent that is not the last has nothing to do with the server any     *)
(* more.                                                                   *)
LEMMA ShareCheckTargets ==
    ASSUME ShareInv, NEW a \in Agent, CheckTargets(a) PROVE ShareInv'
<1> DEFINE v == agent[a].server
<1>1. /\ agent[a].phase = "check" /\ registry' = registry /\ srv' = srv
  BY DEF CheckTargets
<1>2. CASE Go(a, "stop") /\ srv[v].delegate /\ ~HasTargets(v)
  <2>1. srv[v].targets = {}
    BY <1>2 DEF HasTargets, TargetIds
  <2>2. QED
    BY <1>1, <1>2, <2>1, ShareLast
<1>3. CASE Go(a, "gone")
  <2>1. "gone" \in Phases
    BY DEF Phases
  <2>2. /\ agent' \in [Agent -> AgentRec]
        /\ agent'[a].phase = "gone"
        /\ \A b \in Agent \ {a} : agent'[b] = agent[b]
        /\ ~raced' => Shared
    BY <1>3, <2>1, ShareGo
  <2>3. ShareTypes'
    BY <1>1, <2>2 DEF ShareInv, ShareTypes
  <2>4. \A w \in Server : ServerOK(w)' /\ DelegateOK(w)'
    <3>1. \A b \in Agent : agent[b].phase = "reset" => agent'[b] = agent[b]
      BY <1>1, <2>2
    <3>2. QED
      BY <1>1, <3>1 DEF ShareInv, ServerOK, DelegateOK
  <2>5. RegistryOK'
    BY <1>1 DEF ShareInv, RegistryOK
  <2>6. \A b \in Agent : AgentOK(b)'
    BY <1>1, <2>2 DEF ShareInv, AgentOK
  <2>7. ASSUME ~raced' PROVE Shared'
    <3>1. Shared
      BY <2>2, <2>7
    <3>2. \A b \in Agent :
            agent'[b].phase \in Uses \cup Listed \cup Stopping =>
              agent'[b] = agent[b]
      BY <2>2 DEF Uses, Listed, Stopping
    <3>3. registry' # None =>
            \/ srv'[registry'].state = "running"
            \/ \E b \in Agent : agent'[b].phase \in {"reset", "unregister"}
      BY <1>1, <2>2, <3>1 DEF Shared
    <3>4. QED
      BY <1>1, <3>1, <3>2, <3>3 DEF Shared
  <2>8. QED
    BY <2>3, <2>4, <2>5, <2>6, <2>7 DEF ShareInv
<1>4. CASE UNCHANGED <<agent, raced>>
  BY <1>1, <1>4, ShareStill DEF agentVars
<1>5. QED
  BY <1>2, <1>3, <1>4 DEF CheckTargets

(* Stop of the server of an agent: the server is stopped or was stopped    *)
(* before.                                                                 *)
LEMMA ShareStopping ==
    ASSUME ShareInv, NEW a \in Agent, NEW p \in {"reset", "unregister"},
           Go(a, p), registry' = registry, srv' \in [Server -> ServerRec],
           agent[a].phase \in {"stop", "reset"},
           srv'[agent[a].server].state = "stopped",
           srv'[agent[a].server].stopped,
           srv'[agent[a].server].tcp # "open",
           srv'[agent[a].server].thread = srv[agent[a].server].thread,
           srv[agent[a].server].tcp = "none" =>
             srv'[agent[a].server].tcp = "none",
           \/ p = "reset"
           \/ ~srv'[agent[a].server].delegate
           \/ /\ agent[a].phase = "stop"
              /\ srv'[agent[a].server] = srv[agent[a].server],
           \A w \in Server \ {agent[a].server} : srv'[w] = srv[w]
    PROVE  ShareInv'
<1>0. PICK v \in Server : v = agent[a].server
  BY OwnServer
<1>1. ServerOK(v) /\ srv[v].state \in Made
  BY <1>0, OwnServer
<1>2. /\ agent' \in [Agent -> AgentRec]
      /\ agent'[a].phase = p /\ agent'[a].server = v
      /\ \A b \in Agent \ {a} : agent'[b] = agent[b]
      /\ ~raced' => Shared
  BY <1>0, ShareGo DEF Phases
<1>3. ShareTypes'
  BY <1>2 DEF ShareInv, ShareTypes
<1>4. \A w \in Server : ServerOK(w)' /\ DelegateOK(w)'
  <2>1. ServerOK(v)'
    BY <1>0, <1>1 DEF ServerOK, Made
  <2>2. \A w \in Server \ {v} : ServerOK(w)'
    BY <1>0 DEF ShareInv, ServerOK
  <2>3. DelegateOK(v)'
    <3>1. CASE p = "reset"
      BY <1>2, <3>1 DEF DelegateOK
    <3>2. CASE ~srv'[v].delegate
      BY <3>2 DEF DelegateOK
    <3>3. CASE agent[a].phase = "stop" /\ srv'[v] = srv[v]
      <4>1. \A b \in Agent : agent[b].phase = "reset" => agent'[b] = agent[b]
        BY <1>2, <3>3
      <4>2. QED
        BY <3>3, <4>1 DEF ShareInv, DelegateOK
    <3>4. QED
      BY <1>0, <3>1, <3>2, <3>3
  <2>4. ASSUME NEW w \in Server \ {v} PROVE DelegateOK(w)'
    <3>1. \A b \in Agent : agent[b].server = w => agent'[b] = agent[b]
      BY <1>0, <1>2
    <3>2. srv'[w] = srv[w] /\ DelegateOK(w)
      BY <1>0 DEF ShareInv
    <3>3. QED
      BY <3>1, <3>2 DEF DelegateOK
  <2>5. QED
    BY <2>1, <2>2, <2>3, <2>4
<1>5. \A w \in Server : srv[w].state \in Made => srv'[w].state \in Made
  BY <1>0 DEF Made
<1>6. \A w \in Server : srv[w].state = "stopped" => srv'[w].state = "stopped"
  BY <1>0
<1>7. \A b \in Agent : AgentOK(b)'
  <2>1. AgentOK(a)'
    BY <1>0, <1>1, <1>2 DEF AgentOK, Made
  <2>2. \A b \in Agent \ {a} : AgentOK(b)'
    BY <1>2, <1>5, <1>6 DEF ShareInv, AgentOK
  <2>3. QED
    BY <2>1, <2>2
<1>8. RegistryOK'
  BY <1>5 DEF ShareInv, ShareTypes, RegistryOK
<1>9. ASSUME ~raced' PROVE Shared'
  <2>1. Shared
    BY <1>2, <1>9
  <2>2. agent[a].phase \in Stopping
    BY DEF Stopping
  <2>3. registry \in {None, v} /\ \A b \in Agent : agent[b].phase \notin Uses
    BY <1>0, <2>1, <2>2 DEF Shared
  <2>4. \A b \in Agent : /\ agent'[b].phase \notin Uses
                         /\ agent'[b].phase \notin Listed
    BY <1>2, <2>3 DEF Uses, Listed
  <2>5. \A w \in Server : srv'[w].state # "running"
    BY <1>0, <2>1, <2>3, NoneIsNone DEF Shared
  <2>6. \A b \in Agent : agent'[b].phase \in Stopping =>
          registry' \in {None, agent'[b].server}
    BY <1>2, <2>1, <2>3 DEF Shared
  <2>7. QED
    BY <1>2, <2>4, <2>5, <2>6 DEF Shared
<1>10. QED
  BY <1>3, <1>4, <1>7, <1>8, <1>9 DEF ShareInv

(* The last agent stops the server.                                        *)
LEMMA ShareStopServer ==
    ASSUME ShareInv, NEW a \in Agent, StopServer(a) PROVE ShareInv'
<1> DEFINE v == agent[a].server
<1>1. agent[a].phase = "stop" /\ registry' = registry
  BY DEF StopServer
<1>2. v \in Server /\ ServerOK(v) /\ srv[v] \in ServerRec
  BY <1>1, OwnServer
<1>3. srv \in [Server -> ServerRec]
  BY DEF ShareInv, ShareTypes
<1>4. CASE srv[v].state = "stopped"
  <2>1. Go(a, "unregister") /\ srv' = srv
    BY <1>4 DEF StopServer
  <2>2. srv[v].stopped /\ srv[v].tcp # "open"
    BY <1>2, <1>4 DEF ServerOK
  <2>3. QED
    BY <1>1, <1>3, <1>4, <2>1, <2>2, ShareStopping
<1>5. CASE srv[v].state # "stopped"
  <2>1. /\ Go(a, "reset")
        /\ srv' = [srv EXCEPT ![v].state = "stopped", ![v].stopped = TRUE,
                              ![v].tcp = IF @ = "none" THEN @ ELSE "stopped"]
    BY <1>5 DEF StopServer
  <2>2. srv' \in [Server -> ServerRec]
    BY <1>2, <1>3, <2>1 DEF ServerRec
  <2>3. /\ srv'[v].state = "stopped" /\ srv'[v].stopped
        /\ srv'[v].tcp # "open" /\ srv'[v].thread = srv[v].thread
        /\ srv[v].tcp = "none" => srv'[v].tcp = "none"
        /\ \A w \in Server \ {v} : srv'[w] = srv[w]
    BY <1>2, <1>3, <2>1 DEF ServerRec
  <2>4. "reset" \in {"reset", "unregister"}
    OBVIOUS
  <2> HIDE DEF v
  <2>5. QED
    BY <1>1, <2>1, <2>2, <2>3, <2>4, ShareStopping DEF v
<1>6. QED
  BY <1>4, <1>5

(* delegate_.reset().                                                      *)
LEMMA DelegateGone ==
    ASSUME ShareTypes, NEW v \in Server
    PROVE  /\ WithoutDelegate(v) \in [Server -> ServerRec]
           /\ \A w \in Server :
                /\ WithoutDelegate(v)[w].state = srv[w].state
                /\ WithoutDelegate(v)[w].thread = srv[w].thread
                /\ WithoutDelegate(v)[w].tcp = srv[w].tcp
                /\ WithoutDelegate(v)[w].stopped = srv[w].stopped
                /\ WithoutDelegate(v)[w].sessions = srv[w].sessions
           /\ ~WithoutDelegate(v)[v].delegate
           /\ \A w \in Server \ {v} : WithoutDelegate(v)[w] = srv[w]
BY DEF ShareTypes, WithoutDelegate, ServerRec

(* The delegate goes after the server was stopped.                         *)
LEMMA ShareResetDelegate ==
    ASSUME ShareInv, NEW a \in Agent, ResetDelegate(a) PROVE ShareInv'
<1> DEFINE v == agent[a].server
<1>1. /\ agent[a].phase = "reset" /\ registry' = registry
      /\ srv' = WithoutDelegate(v) /\ Go(a, "unregister")
  BY DEF ResetDelegate
<1>2. v \in Server /\ ServerOK(v) /\ srv[v].state = "stopped"
  BY <1>1, OwnServer DEF ShareInv, AgentOK
<1>3. srv[v].stopped /\ srv[v].tcp # "open"
  BY <1>2 DEF ServerOK
<1> HIDE DEF v
<1>4. /\ srv' \in [Server -> ServerRec]
      /\ srv'[v].state = "stopped" /\ srv'[v].stopped /\ srv'[v].tcp = srv[v].tcp
      /\ srv'[v].thread = srv[v].thread /\ ~srv'[v].delegate
      /\ \A w \in Server \ {v} : srv'[w] = srv[w]
  BY <1>1, <1>2, <1>3, DelegateGone DEF ShareInv
<1>5. QED
  BY <1>1, <1>3, <1>4, ShareStopping DEF v

(* The server that was stopped is not registered any longer.               *)
LEMMA ShareRemoveServer ==
    ASSUME ShareInv, NEW a \in Agent, RemoveServer(a) PROVE ShareInv'
<1>1. /\ agent[a].phase = "unregister" /\ registry' = None
      /\ srv' = srv /\ Go(a, "gone")
  BY DEF RemoveServer
<1>2. /\ agent' \in [Agent -> AgentRec]
      /\ agent'[a].phase = "gone"
      /\ \A b \in Agent \ {a} : agent'[b] = agent[b]
      /\ ~raced' => Shared
  BY <1>1, ShareGo DEF Phases
<1>3. ShareTypes'
  BY <1>1, <1>2 DEF ShareInv, ShareTypes
<1>4. \A w \in Server : ServerOK(w)' /\ DelegateOK(w)'
  <2>1. \A b \in Agent : agent[b].phase = "reset" => agent'[b] = agent[b]
    BY <1>1, <1>2
  <2>2. QED
    BY <1>1, <2>1 DEF ShareInv, ServerOK, DelegateOK
<1>5. RegistryOK'
  BY <1>1 DEF RegistryOK
<1>6. \A b \in Agent : AgentOK(b)'
  BY <1>1, <1>2 DEF ShareInv, AgentOK
<1>7. ASSUME ~raced' PROVE Shared'
  <2>1. Shared
    BY <1>2, <1>7
  <2>2. agent[a].phase \in Stopping
    BY <1>1 DEF Stopping
  <2>3. /\ registry \in {None, agent[a].server}
        /\ srv[agent[a].server].state = "stopped"
        /\ \A b \in Agent : agent[b].phase \notin Uses
    BY <1>1, <2>1, <2>2 DEF Shared, ShareInv, AgentOK
  <2>4. \A b \in Agent : /\ agent'[b].phase \notin Uses
                         /\ agent'[b].phase \notin Listed
    BY <1>2, <2>3 DEF Uses, Listed
  <2>5. \A w \in Server : srv'[w].state # "running"
    BY <1>1, <2>1, <2>3, NoneIsNone DEF Shared
  <2>6. QED
    BY <1>1, <2>4, <2>5 DEF Shared
<1>8. QED
  BY <1>3, <1>4, <1>5, <1>6, <1>7 DEF ShareInv

(* The end of a connection takes the delegate only of a server that was    *)
(* stopped.                                                                *)
LEMMA EofServers ==
    ASSUME ShareTypes, NEW s \in Session, NEW pending, OnEof(s, pending),
           con[s].server \in Server
    PROVE  /\ srv' \in [Server -> ServerRec]
           /\ \A w \in Server : /\ srv'[w].state = srv[w].state
                                /\ srv'[w].thread = srv[w].thread
                                /\ srv'[w].tcp = srv[w].tcp
                                /\ srv'[w].stopped = srv[w].stopped
                                /\ srv'[w].sessions = srv[w].sessions
                                /\ srv'[w].delegate => srv[w].delegate
                                /\ srv[w].state # "stopped" => srv'[w] = srv[w]
<1>1. PICK v \in Server : v = con[s].server
  OBVIOUS
<1>2. \/ srv' = srv
      \/ srv[v].state = "stopped" /\ srv' = WithoutDelegate(v)
  BY <1>1 DEF OnEof
<1>3. CASE srv' = srv
  BY <1>3 DEF ShareTypes
<1>4. CASE srv[v].state = "stopped" /\ srv' = WithoutDelegate(v)
  BY <1>4, DelegateGone
<1>5. QED
  BY <1>2, <1>3, <1>4

(* A connection ends while the agents go on.                               *)
LEMMA ShareEof ==
    ASSUME ShareInv, NEW s \in Session, NEW pending, OnEof(s, pending),
           con[s].server \in Server, UNCHANGED agentVars
    PROVE  ShareInv'
<1>1. /\ srv' \in [Server -> ServerRec]
      /\ \A w \in Server : /\ srv'[w].state = srv[w].state
                           /\ srv'[w].thread = srv[w].thread
                           /\ srv'[w].tcp = srv[w].tcp
                           /\ srv'[w].stopped = srv[w].stopped
                           /\ srv'[w].delegate => srv[w].delegate
                           /\ srv[w].state # "stopped" => srv'[w] = srv[w]
  BY EofServers DEF ShareInv
<1>2. ShareTypes'
  BY <1>1 DEF ShareInv, ShareTypes, agentVars
<1>3. QED
  BY <1>1, <1>2, ShareQuiet DEF agentVars

(* The connection of an agent that stops is closed.                        *)
LEMMA ShareCloseByMessage ==
    ASSUME ShareInv, NEW a \in Agent, CloseByMessage(a),
           \A s \in Session : Held(s) => con[s].server \in Server
    PROVE  ShareInv'
<1> DEFINE s == agent[a].session
<1>1. /\ agent[a].phase = "wait" /\ Go(a, "disconnect") /\ registry' = registry
  BY DEF CloseByMessage
<1>2. s \in Session \cup {None}
  BY DEF ShareInv, ShareTypes, AgentRec
<1>3. "disconnect" \in Phases /\ "disconnect" \in Uses
      /\ "disconnect" \in Listed
      /\ agent[a].phase \in Uses /\ agent[a].phase \in Listed
  BY <1>1 DEF Phases, Uses, Listed
<1>4. CASE srv' = srv
  BY <1>1, <1>3, <1>4, SharePhase
<1>5. CASE Sends(s) /\ OnEof(s, TRUE)
  <2>1. s \in Session /\ con[s].server \in Server
    BY <1>2, <1>5 DEF Sends
  <2>2. /\ srv' \in [Server -> ServerRec]
        /\ \A w \in Server : /\ srv'[w].state = srv[w].state
                             /\ srv'[w].thread = srv[w].thread
                             /\ srv'[w].tcp = srv[w].tcp
                             /\ srv'[w].stopped = srv[w].stopped
                             /\ srv'[w].delegate => srv[w].delegate
                             /\ srv[w].state # "stopped" => srv'[w] = srv[w]
    <3> HIDE DEF s
    <3>1. QED
      BY <1>5, <2>1, EofServers DEF ShareInv
  <2>3. agent[a].server \in Server
    BY <1>1, OwnServer
  <2>4. Shared =>
          /\ srv[agent[a].server].state = "running"
          /\ a \in srv[agent[a].server].targets
    BY <1>3 DEF Shared
  <2>5. Shared =>
          /\ "disconnect" \in Listed => a \in srv'[agent[a].server].targets
          /\ \A b \in Agent \ {a} : b \in srv[agent[a].server].targets =>
                                    b \in srv'[agent[a].server].targets
    BY <2>2, <2>3, <2>4
  <2>6. QED
    BY <1>1, <1>3, <2>2, <2>5, ShareMove
<1>6. QED
  BY <1>4, <1>5 DEF CloseByMessage

(* An agent hears of a session.                                            *)
LEMMA ShareDispatchTag ==
    ASSUME ShareInv, FlowTypes, NEW a \in Agent, DispatchTag(a)
    PROVE  ShareInv'
<1>1. registry' = registry /\ raced' = raced /\ srv' = srv
  BY DEF DispatchTag
<1>2. agent \in [Agent -> AgentRec]
  BY DEF ShareInv, ShareTypes
<1>3. Head(tags[a]) \in Session \X {"connect", "disconnect"}
  BY HeadTailProperties DEF DispatchTag, FlowTypes
<1>4. PICK x \in Session \cup {None} :
        agent' = [agent EXCEPT ![a].session = x] \/ agent' = agent
  BY <1>3 DEF DispatchTag
<1>5. /\ agent' \in [Agent -> AgentRec]
      /\ \A b \in Agent : /\ agent'[b].phase = agent[b].phase
                          /\ agent'[b].server = agent[b].server
  BY <1>2, <1>4 DEF AgentRec
<1>6. ShareTypes'
  BY <1>1, <1>5 DEF ShareInv, ShareTypes
<1>7. QED
  BY <1>1, <1>5, <1>6, ShareQuiet

(* What a server is changes for one of them, in a way that leaves it as    *)
(* registered and as stopped as it was.                                    *)
LEMMA ShareThread ==
    ASSUME ShareInv, UNCHANGED agentVars, NEW v \in Server,
           srv' \in [Server -> ServerRec],
           \A w \in Server : /\ srv'[w].state = srv[w].state
                             /\ srv'[w].stopped = srv[w].stopped
                             /\ srv'[w].delegate = srv[w].delegate
                             /\ srv'[w].targets = srv[w].targets,
           \A w \in Server \ {v} : srv'[w] = srv[w],
           srv[v].state \in Made,
           srv'[v].tcp = "open" =>
             srv'[v].thread = "run" /\ srv[v].state = "running",
           srv'[v].thread # "none"
    PROVE  ShareInv'
<1>4. \A w \in Server : ServerOK(w)'
  <2>1. ServerOK(v)'
    BY DEF ShareInv, ServerOK, Made
  <2>2. \A w \in Server \ {v} : ServerOK(w)'
    BY DEF ShareInv, ServerOK
  <2>3. QED
    BY <2>1, <2>2
<1>5. ShareTypes'
  BY DEF ShareInv, ShareTypes, agentVars
<1>6. registry' = registry /\ agent' = agent /\ raced' = raced
  BY DEF agentVars
<1>7. \A a \in Agent : AgentOK(a)'
  BY <1>6 DEF ShareInv, AgentOK
<1>8. RegistryOK'
  BY <1>6 DEF ShareInv, ShareTypes, RegistryOK
<1>9. ASSUME ~raced' PROVE Shared'
  <2>1. Shared
    BY <1>6, <1>9 DEF ShareInv
  <2>2. \A a \in Agent : agent[a].phase \in Uses => agent[a].server \in Server
    BY DEF ShareInv, AgentOK, Uses
  <2>3. \A a \in Agent : agent[a].phase \in Listed => agent[a].server \in Server
    BY DEF ShareInv, AgentOK, Listed
  <2>4. \A w \in Server : srv'[w].state = "running" => registry' = w
    BY <1>6, <2>1 DEF Shared
  <2>5. \A a \in Agent : agent'[a].phase \in Uses =>
          /\ registry' = agent'[a].server
          /\ srv'[agent'[a].server].state = "running"
    BY <1>6, <2>1, <2>2 DEF Shared
  <2>6. \A a \in Agent : agent'[a].phase \in Listed =>
          a \in srv'[agent'[a].server].targets
    BY <1>6, <2>1, <2>3 DEF Shared
  <2>7. registry' # None =>
          \/ srv'[registry'].state = "running"
          \/ \E a \in Agent : agent'[a].phase \in {"reset", "unregister"}
    BY <1>6, <2>1 DEF Shared, ShareInv, ShareTypes
  <2>8. QED
    BY <1>6, <2>1, <2>4, <2>5, <2>6, <2>7 DEF Shared
<1>10. \A w \in Server : DelegateOK(w)'
  BY <1>6 DEF ShareInv, DelegateOK
<1>11. QED
  BY <1>4, <1>5, <1>7, <1>8, <1>9, <1>10 DEF ShareInv

(* The thread of a server that was not stopped listens.                    *)
LEMMA ShareMakeTcpServer ==
    ASSUME ShareInv, NEW v \in Server, MakeTcpServer(v) PROVE ShareInv'
<1>1. srv[v].thread = "starting" /\ UNCHANGED agentVars
  BY DEF MakeTcpServer
<1>2. ServerOK(v) /\ srv[v] \in ServerRec
  BY DEF ShareInv, ShareTypes
<1>3. srv[v].state \in Made
  BY <1>1, <1>2 DEF ServerOK, ServerRec, Made
<1>4. srv \in [Server -> ServerRec]
  BY DEF ShareInv, ShareTypes
<1>5. PICK t \in {"run", "done"}, c \in {"none", "open", "stopped"} :
        /\ srv' = [srv EXCEPT ![v].thread = t, ![v].tcp = c]
        /\ c = "open" => t = "run" /\ srv[v].state = "running"
  <2>1. CASE ~srv[v].stopped
    <3>1. srv[v].state = "running"
      BY <1>2, <1>3, <2>1 DEF ServerOK, Made
    <3>2. srv' = [srv EXCEPT ![v].thread = "run", ![v].tcp = "open"]
      BY <2>1 DEF MakeTcpServer, Listens
    <3>3. QED
      BY <3>1, <3>2
  <2>2. CASE srv[v].stopped
    <3>1. srv[v].state = "stopped"
      BY <1>2, <1>3, <2>2 DEF ServerOK, Made
    <3>2. srv' = [srv EXCEPT ![v].thread = "done", ![v].tcp = srv[v].tcp]
      BY <2>2 DEF MakeTcpServer, Listens
    <3>3. srv[v].tcp \in {"none", "open", "stopped"} /\ srv[v].tcp # "open"
      BY <1>2, <3>1 DEF ServerOK, ServerRec
    <3>4. QED
      BY <3>2, <3>3
  <2>3. QED
    BY <2>1, <2>2
<1>6. srv' \in [Server -> ServerRec]
  <2>1. /\ t \in {"none", "starting", "run", "done"}
        /\ srv' = [srv EXCEPT ![v].thread = t, ![v].tcp = c]
    BY <1>5
  <2>2. [srv[v] EXCEPT !.thread = t, !.tcp = c] \in ServerRec
    BY <1>2, <2>1 DEF ServerRec
  <2>3. srv' = [srv EXCEPT ![v] = [srv[v] EXCEPT !.thread = t, !.tcp = c]]
    BY <1>4, <2>1
  <2>4. QED
    BY <1>4, <2>2, <2>3
<1>7. /\ \A w \in Server : /\ srv'[w].state = srv[w].state
                           /\ srv'[w].stopped = srv[w].stopped
                           /\ srv'[w].delegate = srv[w].delegate
                           /\ srv'[w].targets = srv[w].targets
      /\ \A w \in Server \ {v} : srv'[w] = srv[w]
      /\ srv'[v].thread = t /\ srv'[v].tcp = c
  BY <1>4, <1>5 DEF ServerRec
<1>8. QED
  BY <1>1, <1>3, <1>5, <1>6, <1>7, ShareThread

(* The thread of a server ends.                                            *)
LEMMA ShareEndThread ==
    ASSUME ShareInv, NEW v \in Server, EndThread(v) PROVE ShareInv'
<1>1. /\ srv[v].thread = "run" /\ srv[v].tcp = "stopped" /\ UNCHANGED agentVars
      /\ srv' = [srv EXCEPT ![v].thread = "done"]
  BY DEF EndThread
<1>2. ServerOK(v) /\ srv[v] \in ServerRec
  BY DEF ShareInv, ShareTypes
<1>3. srv[v].state \in Made
  BY <1>1, <1>2 DEF ServerOK, ServerRec, Made
<1>4. srv \in [Server -> ServerRec]
  BY DEF ShareInv, ShareTypes
<1>5. srv' \in [Server -> ServerRec]
  BY <1>1, <1>4 DEF ServerRec
<1>6. /\ \A w \in Server : /\ srv'[w].state = srv[w].state
                           /\ srv'[w].stopped = srv[w].stopped
                           /\ srv'[w].delegate = srv[w].delegate
                           /\ srv'[w].targets = srv[w].targets
      /\ \A w \in Server \ {v} : srv'[w] = srv[w]
      /\ srv'[v].thread = "done" /\ srv'[v].tcp = "stopped"
  BY <1>1, <1>4 DEF ServerRec
<1>7. QED
  BY <1>1, <1>3, <1>5, <1>6, ShareThread

(* A server nobody refers to is not the server of an agent.                *)
LEMMA ShareDeleteServer ==
    ASSUME ShareInv, NEW v \in Server, DeleteServer(v) PROVE ShareInv'
<1>1. /\ srv[v].state \in Made /\ ~Refs(v)
      /\ srv' = [WithoutDelegate(v) EXCEPT ![v].state = "deleted"]
      /\ registry' = IF registry = v THEN None ELSE registry
      /\ agent' = agent /\ raced' = raced
  <2>1. srv' = [WithoutDelegate(v) EXCEPT ![v].state = "deleted"]
    BY Zenon DEF DeleteServer
  <2>2. QED
    BY <2>1 DEF DeleteServer, Made
<1>2. ShareTypes
  BY DEF ShareInv
<1>3. /\ WithoutDelegate(v) \in [Server -> ServerRec]
      /\ \A w \in Server :
           /\ WithoutDelegate(v)[w].thread = srv[w].thread
           /\ WithoutDelegate(v)[w].tcp = srv[w].tcp
      /\ \A w \in Server \ {v} : WithoutDelegate(v)[w] = srv[w]
  BY <1>2, DelegateGone
<1>4. /\ srv' \in [Server -> ServerRec]
      /\ srv'[v].state = "deleted"
      /\ srv'[v].thread = srv[v].thread /\ srv'[v].tcp = srv[v].tcp
      /\ \A w \in Server \ {v} : srv'[w] = srv[w]
  <2> DEFINE W == WithoutDelegate(v)
  <2>1. W \in [Server -> ServerRec] /\ srv' = [W EXCEPT ![v].state = "deleted"]
    BY <1>1, <1>3
  <2>2. W[v].thread = srv[v].thread /\ W[v].tcp = srv[v].tcp
        /\ \A w \in Server \ {v} : W[w] = srv[w]
    BY <1>3
  <2> HIDE DEF W
  <2> DEFINE new == [W[v] EXCEPT !.state = "deleted"]
  <2>3. W[v] \in ServerRec /\ srv' = [W EXCEPT ![v] = new]
    BY <2>1
  <2>4. /\ new \in ServerRec /\ new.state = "deleted"
        /\ new.thread = W[v].thread /\ new.tcp = W[v].tcp
    BY <2>3 DEF ServerRec
  <2> HIDE DEF new
  <2>5. QED
    BY <2>1, <2>2, <2>3, <2>4
<1>5. /\ \A a \in Agent : agent[a].phase # "gone" => agent[a].server # v
      /\ srv[v].thread \notin {"starting", "run"}
  BY <1>1 DEF Refs
<1>6. \A a \in Agent : agent[a].phase \notin {"new", "gone"} =>
        /\ agent[a].server \in Server \ {v}
        /\ srv'[agent[a].server] = srv[agent[a].server]
  BY <1>4, <1>5 DEF ShareInv, AgentOK
<1>7. ShareTypes'
  BY <1>1, <1>2, <1>4 DEF ShareTypes
<1>8. \A w \in Server : ServerOK(w)'
  <2>1. ServerOK(v) /\ srv[v] \in ServerRec
    BY <1>2 DEF ShareInv, ShareTypes
  <2>2. ServerOK(v)'
    BY <1>4, <1>5, <2>1 DEF ServerOK, ServerRec
  <2>3. \A w \in Server \ {v} : ServerOK(w)'
    BY <1>4 DEF ShareInv, ServerOK
  <2>4. QED
    BY <2>2, <2>3
<1>9. \A a \in Agent : AgentOK(a)'
  BY <1>1, <1>6 DEF ShareInv, AgentOK
<1>10. registry' # None => registry' = registry /\ registry \in Server \ {v}
  BY <1>1, <1>2 DEF ShareTypes
<1>11. RegistryOK'
  BY <1>4, <1>10 DEF ShareInv, RegistryOK
<1>12. ASSUME ~raced' PROVE Shared'
  <2>1. Shared
    BY <1>1, <1>12 DEF ShareInv
  <2>2. \A a \in Agent :
          agent[a].phase \in Uses \cup Listed \cup Stopping =>
            agent[a].phase \notin {"new", "gone"}
    BY DEF Uses, Listed, Stopping
  <2>3. \A w \in Server : srv'[w].state = "running" => registry' = w
    BY <1>1, <1>4, <2>1 DEF Shared
  <2>4. \A a \in Agent : agent'[a].phase \in Uses =>
          /\ registry' = agent'[a].server
          /\ srv'[agent'[a].server].state = "running"
    BY <1>1, <1>6, <2>1, <2>2 DEF Shared
  <2>5. \A a \in Agent : agent'[a].phase \in Listed =>
          a \in srv'[agent'[a].server].targets
    BY <1>1, <1>6, <2>1, <2>2 DEF Shared
  <2>6. \A a \in Agent : agent'[a].phase \in Stopping =>
          registry' \in {None, agent'[a].server}
    BY <1>1, <1>6, <2>1, <2>2 DEF Shared
  <2>7. registry' # None =>
          \/ srv'[registry'].state = "running"
          \/ \E a \in Agent : agent'[a].phase \in {"reset", "unregister"}
    BY <1>1, <1>4, <1>10, <2>1 DEF Shared
  <2>8. QED
    BY <1>1, <2>1, <2>3, <2>4, <2>5, <2>6, <2>7 DEF Shared
<1>13. \A w \in Server : DelegateOK(w)'
  <2>1. DelegateOK(v)'
    BY <1>4 DEF DelegateOK
  <2>2. \A w \in Server \ {v} : DelegateOK(w)'
    BY <1>1, <1>4 DEF ShareInv, DelegateOK
  <2>3. QED
    BY <2>1, <2>2
<1>14. QED
  BY <1>7, <1>8, <1>9, <1>11, <1>12, <1>13 DEF ShareInv

(* StartSession notes the session of the target.                           *)
LEMMA StartServers ==
    ASSUME ShareTypes, NEW v \in Server, NEW s \in Session, NEW a \in Agent,
           srv' = [srv EXCEPT ![v].sessions[s] = a]
    PROVE  /\ srv' \in [Server -> ServerRec]
           /\ \A w \in Server : /\ srv'[w].state = srv[w].state
                                /\ srv'[w].thread = srv[w].thread
                                /\ srv'[w].tcp = srv[w].tcp
                                /\ srv'[w].stopped = srv[w].stopped
                                /\ srv'[w].delegate = srv[w].delegate
                                /\ srv'[w].targets = srv[w].targets
           /\ \A w \in Server, r \in Session : r # s =>
                srv'[w].sessions[r] = srv[w].sessions[r]
<1>1. srv \in [Server -> ServerRec]
  BY DEF ShareTypes
<1>2. /\ srv[v].sessions \in [Session -> Agent \cup {None}]
      /\ srv[v] \in ServerRec
  BY <1>1 DEF ServerRec
<1>3. PICK m \in [Session -> Agent \cup {None}] :
        m = [srv[v].sessions EXCEPT ![s] = a]
  BY <1>2
<1>4. srv' = [srv EXCEPT ![v].sessions = m]
  BY <1>3
<1>5. srv' \in [Server -> ServerRec]
  <2> DEFINE new == [srv[v] EXCEPT !.sessions = m]
  <2>1. new \in ServerRec
    BY <1>2, <1>3 DEF ServerRec
  <2>2. srv' = [srv EXCEPT ![v] = new]
    BY <1>1, <1>4
  <2> HIDE DEF new
  <2>3. QED
    BY <1>1, <2>1, <2>2
<1>6. \A w \in Server : /\ srv'[w].state = srv[w].state
                        /\ srv'[w].thread = srv[w].thread
                        /\ srv'[w].tcp = srv[w].tcp
                        /\ srv'[w].stopped = srv[w].stopped
                        /\ srv'[w].delegate = srv[w].delegate
                        /\ srv'[w].targets = srv[w].targets
  BY <1>1, <1>4 DEF ServerRec
<1>7. \A w \in Server : srv'[w].sessions =
        IF w = v THEN m ELSE srv[w].sessions
  BY <1>1, <1>4 DEF ServerRec
<1>8. QED
  BY <1>2, <1>3, <1>5, <1>6, <1>7

(* Start: the registered server is used, or the first there is not is.     *)
LEMMA ShareGetServer ==
    ASSUME ShareInv, NEW a \in Agent, GetServer(a) PROVE ShareInv'
<1>1. agent[a].phase = "new" /\ Observe
  BY DEF GetServer
<1>2. agent \in [Agent -> AgentRec] /\ srv \in [Server -> ServerRec]
      /\ registry \in Server \cup {None}
  BY DEF ShareInv, ShareTypes
<1>3. ~raced' => Shared /\ ~Race'
  BY <1>1 DEF Observe, ShareInv
<1>4. PICK v \in Server :
        /\ agent' = [agent EXCEPT ![a].phase = "add", ![a].server = v]
        /\ registry' = v
        /\ \/ registry = v /\ srv' = srv
           \/ /\ registry = None /\ srv[v].state = "none"
              /\ srv' = [srv EXCEPT ![v].state = "running",
                                    ![v].thread = "starting"]
  BY <1>2 DEF GetServer, Registered
<1>5. /\ agent' \in [Agent -> AgentRec]
      /\ agent'[a].phase = "add" /\ agent'[a].server = v
      /\ \A b \in Agent \ {a} : agent'[b] = agent[b]
  BY <1>2, <1>4 DEF AgentRec, Phases
<1>6. /\ srv' \in [Server -> ServerRec]
      /\ \A w \in Server \ {v} : srv'[w] = srv[w]
      /\ srv'[v].tcp = srv[v].tcp /\ srv'[v].stopped = srv[v].stopped
      /\ srv'[v].delegate = srv[v].delegate
      /\ srv'[v].targets = srv[v].targets
      /\ \/ registry = v /\ srv'[v] = srv[v] /\ srv[v].state \in Made
         \/ /\ registry = None /\ srv[v].state = "none"
            /\ srv'[v].state = "running" /\ srv'[v].thread = "starting"
  <2>1. CASE registry = v /\ srv' = srv
    BY <1>2, <2>1, NoneIsNone DEF ShareInv, RegistryOK
  <2>2. CASE /\ registry = None /\ srv[v].state = "none"
             /\ srv' = [srv EXCEPT ![v].state = "running",
                                   ![v].thread = "starting"]
    <3>1. [srv[v] EXCEPT !.state = "running", !.thread = "starting"]
             \in ServerRec
      BY <1>2 DEF ServerRec
    <3>2. srv' = [srv EXCEPT ![v] =
             [srv[v] EXCEPT !.state = "running", !.thread = "starting"]]
      BY <1>2, <2>2
    <3>3. srv' \in [Server -> ServerRec]
      BY <1>2, <3>1, <3>2
    <3>4. /\ \A w \in Server \ {v} : srv'[w] = srv[w]
          /\ srv'[v].tcp = srv[v].tcp /\ srv'[v].stopped = srv[v].stopped
          /\ srv'[v].delegate = srv[v].delegate
          /\ srv'[v].targets = srv[v].targets
          /\ srv'[v].state = "running" /\ srv'[v].thread = "starting"
      BY <1>2, <3>2 DEF ServerRec
    <3>5. QED
      BY <2>2, <3>3, <3>4
  <2>3. QED
    BY <1>4, <2>1, <2>2
<1>7. /\ srv'[v].state \in Made
      /\ \A w \in Server : /\ srv[w].state \in Made => srv'[w].state = srv[w].state
                           /\ srv'[w].state = srv[w].state
                              \/ (w = v /\ srv'[w].state = "running")
  BY <1>6 DEF Made
<1>8. ShareTypes'
  BY <1>4, <1>5, <1>6 DEF ShareTypes
<1>9. \A w \in Server : ServerOK(w)'
  <2>1. ServerOK(v)
    BY DEF ShareInv
  <2>2. ServerOK(v)'
    <3>1. CASE srv'[v] = srv[v]
      BY <2>1, <3>1 DEF ServerOK
    <3>2. CASE /\ srv[v].state = "none"
               /\ srv'[v].state = "running" /\ srv'[v].thread = "starting"
      BY <1>6, <2>1, <3>2 DEF ServerOK
    <3>3. QED
      BY <1>6, <3>1, <3>2
  <2>3. \A w \in Server \ {v} : ServerOK(w)'
    BY <1>6 DEF ShareInv, ServerOK
  <2>4. QED
    BY <2>2, <2>3
<1>10. \A b \in Agent : AgentOK(b)'
  <2>1. AgentOK(a)'
    BY <1>5, <1>7 DEF AgentOK
  <2>2. \A b \in Agent \ {a} : AgentOK(b)'
    BY <1>5, <1>7 DEF ShareInv, AgentOK, Made
  <2>3. QED
    BY <2>1, <2>2
<1>11. RegistryOK'
  BY <1>4, <1>7 DEF RegistryOK
<1>12. ASSUME ~raced' PROVE Shared'
  <2>1. Shared /\ \A b \in Agent : /\ agent[b].phase \notin Stopping
                                  /\ agent'[b].phase \notin Stopping
    <3>1. Shared /\ ~Race'
      BY <1>3, <1>12
    <3>2. \A b \in Agent : agent'[b].phase \notin Stopping
      BY <1>5, <3>1 DEF Race, Stopping
    <3>3. \A b \in Agent : agent[b].phase \notin Stopping
      BY <1>1, <1>5, <3>2 DEF Stopping
    <3>4. QED
      BY <3>1, <3>2, <3>3
  <2>2. srv'[v].state = "running"
    <3>1. CASE registry = v /\ srv'[v] = srv[v]
      <4>1. \A b \in Agent : agent[b].phase \notin {"reset", "unregister"}
        BY <2>1 DEF Stopping
      <4>2. srv[v].state = "running"
        BY <2>1, <3>1, <4>1, NoneIsNone DEF Shared
      <4>3. QED
        BY <3>1, <4>2
    <3>2. QED
      BY <1>6, <3>1
  <2>3. \A b \in Agent \ {a} : agent[b].phase \in Uses =>
          agent[b].server = registry /\ registry = v
    BY <1>6, <2>1, NoneIsNone DEF Shared, Uses, ShareInv, AgentOK
  <2>4. \A w \in Server : srv'[w].state = "running" => registry' = w
    BY <1>4, <1>6, <1>7, <2>1, NoneIsNone DEF Shared
  <2>5. \A b \in Agent : agent'[b].phase \in Uses =>
          /\ registry' = agent'[b].server
          /\ srv'[agent'[b].server].state = "running"
    BY <1>4, <1>5, <2>2, <2>3
  <2>6. \A b \in Agent : agent'[b].phase \in Listed =>
          b \in srv'[agent'[b].server].targets
    <3>1. ASSUME NEW b \in Agent, agent'[b].phase \in Listed
          PROVE  b # a /\ agent[b].phase \in Listed /\ agent[b].phase \in Uses
      BY <1>5, <3>1 DEF Listed, Uses
    <3>2. QED
      BY <1>5, <1>6, <2>1, <2>3, <3>1 DEF Shared
  <2>7. QED
    BY <1>4, <2>1, <2>2, <2>4, <2>5, <2>6 DEF Shared
<1>13. \A w \in Server : DelegateOK(w)'
  <2>1. \A b \in Agent : agent[b].phase = "reset" => agent'[b] = agent[b]
    BY <1>1, <1>5
  <2>2. \A w \in Server : srv'[w].state = "stopped" => srv'[w] = srv[w]
    BY <1>6
  <2>3. QED
    BY <2>1, <2>2 DEF ShareInv, DelegateOK
<1>14. QED
  BY <1>8, <1>9, <1>10, <1>11, <1>12, <1>13 DEF ShareInv

(* What the invariant says of the agents.                                  *)
LEMMA SharedByAgents == ShareInv => ServersAreShared
<1> SUFFICES ASSUME ShareInv PROVE ServersAreShared
  OBVIOUS
<1>1. AcceptingAgentIsListed
  <2>1. ASSUME ~raced, NEW a \in Agent, agent[a].phase = "accepting"
        PROVE  /\ registry = agent[a].server
               /\ srv[agent[a].server].state = "running"
               /\ srv[agent[a].server].delegate
               /\ a \in srv[agent[a].server].targets
    <3>1. Shared
      BY <2>1 DEF ShareInv
    <3>2. agent[a].phase \in Uses /\ agent[a].phase \in Listed
      BY <2>1 DEF Uses, Listed
    <3>3. QED
      BY <3>1, <3>2, DelegateThere DEF Shared
  <2>2. QED
    BY <2>1 DEF AcceptingAgentIsListed
<1>2. OneListener
  <2>1. ASSUME ~raced
        PROVE  Cardinality({v \in Server : srv[v].tcp = "open"}) <= 1
    <3> DEFINE Open == {v \in Server : srv[v].tcp = "open"}
    <3>1. \A v \in Server : srv[v].tcp = "open" => v = registry
      BY <2>1 DEF ShareInv, Shared, ServerOK
    <3>2. Open \subseteq {registry}
      BY <3>1
    <3>3. IsFiniteSet({registry}) /\ Cardinality({registry}) = 1
      BY FS_Singleton
    <3>4. Cardinality(Open) <= 1
      BY <3>2, <3>3, FS_Subset
    <3>5. QED
      BY <3>4
  <2>2. QED
    BY <2>1 DEF OneListener
<1>3. QED
  BY <1>1, <1>2 DEF ServersAreShared

-----------------------------------------------------------------------------
(* The sessions.                                                           *)

\* What the invariant says of a session and of a thread.
SessionOK(s) ==
    ConOK(s) /\ BracketOK(s) /\ WireOK(s) /\ ProgressOK(s) /\ CloseIsLast(s)

ThreadOK(v) == HandlerOK(v) /\ DataOK(v)

(* The invariant, per thread and per session.                              *)
LEMMA FlowSplit ==
    FlowOK <=> /\ \A v \in Server : ThreadOK(v)
               /\ \A s \in Session : SessionOK(s)
BY DEF FlowOK, ThreadOK, SessionOK

(* An I/O thread between two handlers.                                     *)
LEMMA IdleRec == Idle \in IoRec /\ Idle.step = "idle" /\ Idle.ses = None
                 /\ Idle.data = <<>>
BY EmptySeq DEF Idle, IoRec, None

(* No client has connected.                                                *)
LEMMA FlowInit == Init => FlowInv
<1> SUFFICES ASSUME Init PROVE FlowInv
  OBVIOUS
<1> USE NoneIsNone, IdleRec
<1>1. FlowTypes
  <2>1. /\ io = [v \in Server |-> Idle]
        /\ tags = [a \in Agent |-> <<>>]
        /\ con = [s \in Session |-> [server |-> None, handler |-> "none",
                                     first |-> None, listed |-> FALSE,
                                     reading |-> FALSE, aborted |-> FALSE]]
        /\ wire = [s \in Session |-> <<>>]
        /\ client = [s \in Session |-> [open |-> TRUE, sent |-> <<>>]]
        /\ sends = 0 /\ log = [s \in Session |-> <<>>] /\ cut = {}
    BY DEF Init
  <2>2. io \in [Server -> IoRec] /\ con \in [Session -> ConRec]
    BY <2>1 DEF ConRec
  <2>3. tags \in [Agent -> Seq(Session \X {"connect", "disconnect"})]
    BY <2>1, EmptySeq
  <2>4. wire \in [Session -> Seq(Part)] /\ log \in [Session -> Seq(0..Misread)]
    BY <2>1, EmptySeq
  <2>5. client \in [Session -> [open : BOOLEAN,
                                sent : Seq({"text", "close", "bad"})]]
    BY <2>1, EmptySeq
  <2>6. sends \in 0..MaxSent
        /\ \A s \in Session : Len(client[s].sent) <= 2 * sends
    BY <2>1, EmptySeq, BoundAssumption
  <2>7. \A v \in Server : io[v].step = "idle" <=> io[v].data = <<>>
    BY <2>1
  <2>8. QED
    BY <2>1, <2>2, <2>3, <2>4, <2>5, <2>6, <2>7 DEF FlowTypes
<1>2. \A s \in Session :
        /\ log[s] = <<>> /\ wire[s] = <<>> /\ client[s].sent = <<>>
        /\ con[s].server = None /\ con[s].handler = "none"
        /\ con[s].first = None
        /\ \A v \in Server : srv[v].sessions[s] = None
  BY DEF Init
<1>3. \A v \in Server : io[v] = Idle
  BY DEF Init
<1>4. Len(<<>>) = 0
  BY EmptySeq
<1>5. \A s \in Session : OrderOK(s)
  BY <1>2, <1>4 DEF OrderOK
<1>6. \A s \in Session : SessionOK(s)
  <2>1. ASSUME NEW s \in Session PROVE SessionOK(s)
    <3>1. ConOK(s) /\ BracketOK(s) /\ ProgressOK(s)
      BY <1>2 DEF ConOK, BracketOK, ProgressOK
    <3>2. Len(wire[s]) = 0 /\ Len(client[s].sent) = 0
      BY <1>2, <1>4
    <3>3. WireOK(s) /\ CloseIsLast(s)
      BY <3>2 DEF WireOK, CloseIsLast
    <3>4. QED
      BY <3>1, <3>3 DEF SessionOK
  <2>2. QED
    BY <2>1
<1>7. \A v \in Server : ThreadOK(v)
  BY <1>3 DEF ThreadOK, HandlerOK, DataOK
<1>8. fault \in Faults
  BY DEF Init, Faults
<1>9. QED
  BY <1>1, <1>5, <1>6, <1>7, <1>8, FlowSplit DEF FlowInv

(* Steps that leave the connections alone; a thread with something to do   *)
(* runs on, and a server that is deleted stays so.                         *)
LEMMA FlowQuiet ==
    ASSUME FlowInv, FlowOK, UNCHANGED <<io, conVars>>,
           tags' \in [Agent -> Seq(Session \X {"connect", "disconnect"})],
           fault' \in Faults,
           \A v \in Server :
             /\ srv'[v].sessions = srv[v].sessions
             /\ io[v].step # "idle" => srv'[v].thread = srv[v].thread
             /\ srv[v].state = "deleted" => srv'[v].state = "deleted"
    PROVE  FlowInv'
<1>1. /\ io' = io /\ con' = con /\ wire' = wire /\ client' = client
      /\ sends' = sends /\ log' = log /\ cut' = cut
  BY DEF conVars
<1>2. FlowTypes'
  BY <1>1 DEF FlowInv, FlowTypes
<1>3. \A s \in Session : OrderOK(s)'
  BY <1>1 DEF FlowInv, OrderOK
<1>4. \A v \in Server : HandlerOK(v)'
  BY <1>1 DEF FlowOK, HandlerOK
<1>5. \A v \in Server : DataOK(v)'
  BY <1>1 DEF FlowOK, DataOK
<1>6. \A s \in Session : ConOK(s)'
  BY <1>1 DEF FlowOK, ConOK
<1>7. \A s \in Session : BracketOK(s)'
  BY <1>1 DEF FlowOK, BracketOK
<1>8. \A s \in Session : WireOK(s)'
  BY <1>1 DEF FlowOK, WireOK
<1>9. \A s \in Session : ProgressOK(s)'
  BY <1>1 DEF FlowOK, ProgressOK, Handled, InData, Count
<1>10. \A s \in Session : CloseIsLast(s)'
  BY <1>1 DEF FlowOK, CloseIsLast
<1>11. QED
  BY <1>2, <1>3, <1>4, <1>5, <1>6, <1>7, <1>8, <1>9, <1>10
     DEF FlowInv, FlowOK

(* A step of one session: it leaves the others alone, and of the threads   *)
(* all that are not with that session.                                     *)
LEMMA FlowStep ==
    ASSUME FlowInv, FlowOK, NEW s \in Session,
           \A r \in Session \ {s} :
             /\ con'[r] = con[r] /\ wire'[r] = wire[r]
             /\ client'[r].sent = client[r].sent /\ log'[r] = log[r]
             /\ r \in cut' <=> r \in cut
             /\ \A w \in Server : srv'[w].sessions[r] = srv[w].sessions[r],
           \A w \in Server :
             /\ srv'[w].thread = srv[w].thread
             /\ srv'[w].state = srv[w].state
             /\ \/ io'[w] = io[w]
                \/ io[w].ses \in {s, None} /\ io'[w].ses \in {s, None},
           FlowTypes', fault' \in Faults, OrderOK(s)',
           Running' => SessionOK(s)',
           Running' => \A w \in Server : \/ io'[w] = io[w] /\ io[w].ses # s
                                         \/ ThreadOK(w)'
    PROVE  FlowInv'
<1>1. ASSUME NEW w \in Server, io'[w] = io[w], io[w].ses # s
      PROVE  ThreadOK(w)'
  <2>1. HandlerOK(w) /\ DataOK(w)
    BY DEF FlowOK
  <2>2. CASE io[w].step = "idle"
    BY <1>1, <2>1, <2>2 DEF ThreadOK, HandlerOK, DataOK
  <2>3. CASE io[w].step # "idle"
    <3>1. PICK r \in Session : r = io[w].ses /\ r # s
      BY <1>1, <2>1, <2>3 DEF HandlerOK
    <3>2. /\ con'[r] = con[r] /\ wire'[r] = wire[r]
          /\ client'[r].sent = client[r].sent /\ log'[r] = log[r]
          /\ io'[w].ses = r /\ srv'[w].thread = srv[w].thread
      BY <1>1, <3>1
    <3>3. HandlerOK(w)'
      BY <1>1, <2>1, <2>3, <3>1, <3>2 DEF HandlerOK
    <3>4. DataOK(w)'
      BY <1>1, <2>1, <3>1, <3>2 DEF DataOK
    <3>5. QED
      BY <3>3, <3>4 DEF ThreadOK
  <2>4. QED
    BY <2>2, <2>3
<1>2. ASSUME NEW r \in Session \ {s}
      PROVE  OrderOK(r)' /\ SessionOK(r)'
  <2>1. /\ con'[r] = con[r] /\ wire'[r] = wire[r]
        /\ client'[r].sent = client[r].sent /\ log'[r] = log[r]
        /\ r \in cut' <=> r \in cut
        /\ \A w \in Server : srv'[w].sessions[r] = srv[w].sessions[r]
    BY <1>2
  <2>2. OrderOK(r) /\ ConOK(r) /\ BracketOK(r) /\ WireOK(r) /\ ProgressOK(r)
        /\ CloseIsLast(r)
    BY DEF FlowInv, FlowOK
  <2>3. OrderOK(r)'
    BY <2>1, <2>2 DEF OrderOK
  <2>4. ConOK(r)'
    BY <2>1, <2>2 DEF ConOK
  <2>5. BracketOK(r)'
    BY <2>1, <2>2 DEF BracketOK
  <2>6. WireOK(r)'
    BY <2>1, <2>2 DEF WireOK
  <2>7. CloseIsLast(r)'
    BY <2>1, <2>2 DEF CloseIsLast
  <2>8. InData(r)' = InData(r)
    <3>1. CASE con[r].server = None
      BY <2>1, <3>1 DEF InData
    <3>2. CASE con[r].server # None
      <4>1. PICK w \in Server : w = con[r].server
        BY <3>2 DEF FlowInv, FlowTypes, ConRec
      <4>2. CASE io'[w] = io[w]
        BY <2>1, <4>1, <4>2 DEF InData
      <4>3. CASE io[w].ses \in {s, None} /\ io'[w].ses \in {s, None}
        <5>1. io[w].ses # r /\ io'[w].ses # r
          BY <1>2, <4>3, NoneIsNone
        <5>2. InData(r) = 0
          BY <4>1, <5>1 DEF InData
        <5>3. InData(r)' = 0
          BY <2>1, <4>1, <5>1 DEF InData
        <5>4. QED
          BY <5>2, <5>3
      <4>4. QED
        BY <4>2, <4>3
    <3>3. QED
      BY <3>1, <3>2
  <2>9. Handled(r)' = Handled(r) /\ Count(r)' = Count(r)
    BY <2>1, <2>8 DEF Handled, Count
  <2>10. ProgressOK(r)'
    BY <2>1, <2>2, <2>9 DEF ProgressOK
  <2>11. QED
    BY <2>3, <2>4, <2>5, <2>6, <2>7, <2>10 DEF SessionOK
<1>3. \A r \in Session : OrderOK(r)'
  BY <1>2
<1>4. Running' => \A r \in Session : SessionOK(r)'
  BY <1>2
<1>5. Running' => \A w \in Server : ThreadOK(w)'
  BY <1>1
<1>6. Running' => FlowOK'
  BY <1>4, <1>5, FlowSplit DEF FlowOK, SessionOK, ThreadOK
<1>7. QED
  BY <1>3, <1>6 DEF FlowInv

(* The types of what belongs to a session.                                 *)
LEMMA SessionTypes ==
    ASSUME FlowTypes, NEW s \in Session
    PROVE  /\ con[s] \in ConRec /\ wire[s] \in Seq(Part)
           /\ Len(wire[s]) \in Nat
           /\ client[s].sent \in Seq({"text", "close", "bad"})
           /\ Len(client[s].sent) \in Nat
           /\ log[s] \in Seq(0..Misread) /\ Len(log[s]) \in Nat
           /\ log[s] = <<>> <=> Len(log[s]) = 0
<1>1. /\ con[s] \in ConRec /\ wire[s] \in Seq(Part)
      /\ client[s].sent \in Seq({"text", "close", "bad"})
      /\ log[s] \in Seq(0..Misread)
  BY DEF FlowTypes
<1>2. Len(wire[s]) \in Nat /\ Len(client[s].sent) \in Nat /\ Len(log[s]) \in Nat
  BY <1>1, LenProperties
<1>3. log[s] = <<>> <=> Len(log[s]) = 0
  BY <1>1, EmptySeq
<1>4. QED
  BY <1>1, <1>2, <1>3

(* A request follows other requests.                                       *)
LEMMA FlowSendRequest ==
    ASSUME FlowInv, FlowOK, NEW s \in Session, NEW r \in Part,
           r.kind \in Requests, SendRequest(s, r)
    PROVE  FlowInv'
<1>1. /\ con[s].handler = "http" /\ sends < MaxSent /\ sends' = sends + 1
      /\ wire' = [wire EXCEPT ![s] = Append(wire[s], r)]
      /\ srv' = srv /\ io' = io /\ tags' = tags /\ con' = con
      /\ client' = client /\ log' = log /\ cut' = cut /\ fault' = fault
  BY DEF SendRequest
<1>2. FlowTypes
  BY DEF FlowInv
<1>3. /\ wire[s] \in Seq(Part) /\ Len(wire[s]) \in Nat /\ client[s].sent = <<>>
  BY <1>1, <1>2, SessionTypes DEF FlowOK, ConOK
<1>4. /\ wire' \in [Session -> Seq(Part)]
      /\ \A q \in Session \ {s} : wire'[q] = wire[q]
      /\ wire'[s] = Append(wire[s], r)
  BY <1>1, <1>2, <1>3, AppendProperties DEF FlowTypes
<1>5. /\ Len(wire'[s]) = Len(wire[s]) + 1
      /\ \A i \in 1..Len(wire[s]) : wire'[s][i] = wire[s][i]
      /\ wire'[s][Len(wire[s]) + 1] = r
  BY <1>3, <1>4, AppendProperties
<1>6. FlowTypes'
  <2>1. sends' \in 0..MaxSent
    BY <1>1, <1>2, BoundAssumption DEF FlowTypes
  <2>2. \A q \in Session : Len(client[q].sent) <= 2 * sends'
    <3>1. ASSUME NEW q \in Session PROVE Len(client[q].sent) <= 2 * sends'
      <4>1. Len(client[q].sent) \in Nat /\ Len(client[q].sent) <= 2 * sends
            /\ sends \in Nat
        BY <1>2, SessionTypes DEF FlowTypes
      <4>2. QED
        BY <1>1, <4>1
    <3>2. QED
      BY <3>1
  <2>3. QED
    BY <1>1, <1>2, <1>4, <2>1, <2>2 DEF FlowTypes
<1>7. OrderOK(s)'
  BY <1>1 DEF FlowInv, OrderOK
<1>8. ConOK(s)' /\ BracketOK(s)' /\ CloseIsLast(s)'
  BY <1>1 DEF FlowOK, ConOK, BracketOK, CloseIsLast
<1>9. ProgressOK(s)'
  BY <1>1 DEF ProgressOK
<1>10. WireOK(s)'
  <2>1. Len(client[s].sent) = 0
    BY <1>3, EmptySeq
  <2>2. \A i \in 1..Len(wire[s]) : wire[s][i].kind \in Requests
    <3>1. \A i \in 1..Len(wire[s]) :
            PartAt(wire[s][i], i + 2 * 0 - Len(wire[s]))
      BY <2>1 DEF FlowOK, WireOK
    <3>2. \A i \in 1..Len(wire[s]) : i + 2 * 0 - Len(wire[s]) <= 0
      BY <1>3
    <3>3. QED
      BY <3>1, <3>2 DEF PartAt
  <2>3. \A i \in 1..Len(wire'[s]) : wire'[s][i].kind \in Requests
    BY <1>3, <1>5, <2>2
  <2>4. \A i \in 1..Len(wire'[s]) : i + 2 * 0 - Len(wire'[s]) <= 0
    BY <1>3, <1>5
  <2>5. QED
    BY <1>1, <2>1, <2>3, <2>4 DEF WireOK, PartAt
<1>11. \A w \in Server : ThreadOK(w)'
  <2>1. ASSUME NEW w \in Server PROVE ThreadOK(w)'
    <3>1. HandlerOK(w) /\ DataOK(w)
      BY DEF FlowOK
    <3>2. HandlerOK(w)'
      BY <1>1, <3>1 DEF HandlerOK
    <3>3. CASE io[w].step = "ws"
      <4>1. PICK q \in Session : q = io[w].ses /\ q # s
        BY <1>1, <3>1, <3>3 DEF HandlerOK
      <4>2. DataOK(w)'
        BY <1>1, <1>4, <3>1, <4>1 DEF DataOK
      <4>3. QED
        BY <3>2, <4>2 DEF ThreadOK
    <3>4. CASE io[w].step # "ws"
      BY <1>1, <3>2, <3>4 DEF ThreadOK, DataOK
    <3>5. QED
      BY <3>3, <3>4
  <2>2. QED
    BY <2>1
<1>12. SessionOK(s)'
  BY <1>8, <1>9, <1>10 DEF SessionOK
<1>13. fault' \in Faults
  BY <1>1 DEF FlowInv
<1>14. /\ \A q \in Session \ {s} :
             /\ con'[q] = con[q] /\ wire'[q] = wire[q]
             /\ client'[q].sent = client[q].sent /\ log'[q] = log[q]
             /\ q \in cut' <=> q \in cut
             /\ \A w \in Server : srv'[w].sessions[q] = srv[w].sessions[q]
       /\ \A w \in Server : /\ srv'[w].thread = srv[w].thread
                            /\ srv'[w].state = srv[w].state
                            /\ io'[w] = io[w]
  BY <1>1, <1>4
<1>15. QED
  BY <1>6, <1>7, <1>11, <1>12, <1>13, <1>14, FlowStep

(* The client goes, and its connection may not be read any more.           *)
LEMMA FlowClientGoes ==
    ASSUME FlowInv, FlowOK, NEW s \in Session,
           client' = [client EXCEPT ![s].open = FALSE], sends' = sends,
           srv' = srv, io' = io, tags' = tags, wire' = wire, log' = log,
           cut' = cut, fault' = fault, con' \in [Session -> ConRec],
           \A q \in Session : /\ con'[q].server = con[q].server
                              /\ con'[q].handler = con[q].handler
                              /\ con'[q].first = con[q].first
    PROVE  FlowInv'
<1>2. FlowTypes
  BY DEF FlowInv
<1>3. /\ client' \in [Session -> [open : BOOLEAN,
                                  sent : Seq({"text", "close", "bad"})]]
      /\ \A q \in Session : client'[q].sent = client[q].sent
  BY <1>2 DEF FlowTypes
<1>4. FlowTypes'
  BY <1>2, <1>3 DEF FlowTypes
<1>5. \A q \in Session : OrderOK(q)'
  BY <1>3 DEF FlowInv, OrderOK
<1>6. \A q \in Session : ConOK(q)' /\ BracketOK(q)' /\ CloseIsLast(q)'
  BY <1>3 DEF FlowOK, ConOK, BracketOK, CloseIsLast
<1>7. \A q \in Session : WireOK(q)'
  BY <1>3 DEF FlowOK, WireOK
<1>8. \A q \in Session : ProgressOK(q)'
  <2>1. \A q \in Session : Handled(q)' = Handled(q) /\ Count(q)' = Count(q)
    BY <1>3 DEF Handled, InData, Count
  <2>2. QED
    BY <1>3, <2>1 DEF FlowOK, ProgressOK
<1>9. \A w \in Server : HandlerOK(w)'
  BY DEF FlowOK, HandlerOK
<1>10. \A w \in Server : DataOK(w)'
  <2>1. \A w \in Server : io[w].step = "ws" => io[w].ses \in Session
    BY DEF FlowOK, HandlerOK
  <2>2. QED
    BY <1>3, <2>1 DEF FlowOK, DataOK
<1>11. QED
  BY <1>4, <1>5, <1>6, <1>7, <1>8, <1>9, <1>10
     DEF FlowInv, FlowOK

(* A client closes its end.                                                *)
LEMMA FlowCloseClient ==
    ASSUME FlowInv, FlowOK, NEW s \in Session, CloseClient(s)
    PROVE  FlowInv'
<1>1. con' = con /\ con \in [Session -> ConRec]
  BY DEF CloseClient, FlowInv, FlowTypes
<1>2. QED
  BY <1>1, FlowClientGoes DEF CloseClient

(* A read fails.                                                           *)
LEMMA FlowReadFails ==
    ASSUME FlowInv, FlowOK, NEW v \in Server, NEW s \in Session,
           ReadBroken(v, s)
    PROVE  FlowInv'
<1>1. con \in [Session -> ConRec] /\ con' = [con EXCEPT ![s].reading = FALSE]
  BY DEF ReadBroken, FlowInv, FlowTypes
<1>2. /\ con' \in [Session -> ConRec]
      /\ \A q \in Session : /\ con'[q].server = con[q].server
                             /\ con'[q].handler = con[q].handler
                             /\ con'[q].first = con[q].first
  BY <1>1 DEF ConRec
<1>3. QED
  BY <1>2, FlowClientGoes DEF ReadBroken

(* Frames follow what was sent before.                                     *)
LEMMA FramesAfterAre ==
    ASSUME NEW n \in Nat, NEW m \in 1..2
    PROVE  /\ FramesAfter(n, m) \in Seq(Part)
           /\ Len(FramesAfter(n, m)) = 2 * m
           /\ \A i \in 1..(2 * m) : PartAt(FramesAfter(n, m)[i], i + 2 * n)
<1>1. /\ \A i \in Nat : HeadOf(i) \in Part /\ TailOf(i) \in Part
      /\ \A i \in Nat \ {0} : PartAt(HeadOf(i), 2 * i - 1)
                              /\ PartAt(TailOf(i), 2 * i)
  BY DEF HeadOf, TailOf, Part, PartKind, PartAt, Requests
<1> DEFINE h1 == HeadOf(n + 1)
           t1 == TailOf(n + 1)
           h2 == HeadOf(n + 2)
           t2 == TailOf(n + 2)
<1>2. /\ h1 \in Part /\ t1 \in Part /\ h2 \in Part /\ t2 \in Part
      /\ PartAt(h1, 1 + 2 * n) /\ PartAt(t1, 2 + 2 * n)
      /\ PartAt(h2, 3 + 2 * n) /\ PartAt(t2, 4 + 2 * n)
  <2>1. n + 1 \in Nat \ {0} /\ n + 2 \in Nat \ {0}
    OBVIOUS
  <2>2. /\ PartAt(h1, 2 * (n + 1) - 1) /\ PartAt(t1, 2 * (n + 1))
        /\ PartAt(h2, 2 * (n + 2) - 1) /\ PartAt(t2, 2 * (n + 2))
    BY <1>1, <2>1
  <2>3. /\ 2 * (n + 1) - 1 = 1 + 2 * n /\ 2 * (n + 1) = 2 + 2 * n
        /\ 2 * (n + 2) - 1 = 3 + 2 * n /\ 2 * (n + 2) = 4 + 2 * n
    OBVIOUS
  <2>4. QED
    BY <1>1, <2>1, <2>2, <2>3
<1> HIDE DEF h1, t1, h2, t2
<1>3. CASE m = 1
  <2>1. FramesAfter(n, m) = <<h1, t1>>
    BY <1>3 DEF FramesAfter, h1, t1
  <2>2. <<h1, t1>> \in Seq(Part) /\ Len(<<h1, t1>>) = 2
        /\ <<h1, t1>>[1] = h1 /\ <<h1, t1>>[2] = t1
    BY <1>2
  <2>3. ASSUME NEW i \in 1..2 PROVE PartAt(<<h1, t1>>[i], i + 2 * n)
    <3>1. CASE i = 1
      BY <1>2, <2>2, <3>1
    <3>2. CASE i = 2
      BY <1>2, <2>2, <3>2
    <3>3. QED
      BY <3>1, <3>2
  <2>4. 2 * m = 2
    BY <1>3
  <2>5. QED
    BY <2>1, <2>2, <2>3, <2>4
<1>4. CASE m = 2
  <2>1. FramesAfter(n, m) = <<h1, t1, h2, t2>>
    BY <1>4 DEF FramesAfter, h1, t1, h2, t2
  <2>2. /\ <<h1, t1, h2, t2>> \in Seq(Part) /\ Len(<<h1, t1, h2, t2>>) = 4
        /\ <<h1, t1, h2, t2>>[1] = h1 /\ <<h1, t1, h2, t2>>[2] = t1
        /\ <<h1, t1, h2, t2>>[3] = h2 /\ <<h1, t1, h2, t2>>[4] = t2
    BY <1>2
  <2>3. ASSUME NEW i \in 1..4 PROVE PartAt(<<h1, t1, h2, t2>>[i], i + 2 * n)
    <3>1. CASE i = 1
      BY <1>2, <2>2, <3>1
    <3>2. CASE i = 2
      BY <1>2, <2>2, <3>2
    <3>3. CASE i = 3
      BY <1>2, <2>2, <3>3
    <3>4. CASE i = 4
      BY <1>2, <2>2, <3>4
    <3>5. QED
      BY <3>1, <3>2, <3>3, <3>4
  <2>4. 2 * m = 4
    BY <1>4
  <2>5. QED
    BY <2>1, <2>2, <2>3, <2>4
<1>5. QED
  BY <1>3, <1>4

\* What a client sends at once.
Kinds == {<<"text">>, <<"text", "text">>, <<"close">>, <<"bad">>}

(* The frames a client sends at once; a close frame comes alone.           *)
LEMMA KindsAre ==
    ASSUME NEW kinds \in Kinds
    PROVE  /\ kinds \in Seq({"text", "close", "bad"}) /\ Len(kinds) \in 1..2
           /\ \A i \in 1..Len(kinds) : kinds[i] = "close" => Len(kinds) = 1
<1>1. /\ \A x \in {"text", "close", "bad"} :
           /\ <<x>> \in Seq({"text", "close", "bad"}) /\ Len(<<x>>) = 1
           /\ <<x>>[1] = x
      /\ <<"text", "text">> \in Seq({"text", "close", "bad"})
      /\ Len(<<"text", "text">>) = 2
      /\ <<"text", "text">>[1] = "text" /\ <<"text", "text">>[2] = "text"
  OBVIOUS
<1>2. CASE kinds = <<"text", "text">>
  BY <1>1, <1>2
<1>3. CASE \E x \in {"text", "close", "bad"} : kinds = <<x>>
  BY <1>1, <1>3
<1>4. QED
  BY <1>2, <1>3 DEF Kinds

(* A client sends frames: their halves follow what was sent before.        *)
LEMMA FlowSendFrames ==
    ASSUME FlowInv, FlowOK, NEW s \in Session, NEW kinds \in Kinds,
           SendFrames(s, kinds)
    PROVE  FlowInv'
<1> DEFINE sent == client[s].sent
           new  == FramesAfter(Len(sent), Len(kinds))
<1>1. /\ con[s].handler = "ws" /\ sends < MaxSent /\ sends' = sends + 1
      /\ \A j \in 1..Len(sent) : sent[j] # "close"
      /\ client' = [client EXCEPT ![s].sent = sent \o kinds]
      /\ wire' = [wire EXCEPT ![s] = wire[s] \o new]
      /\ srv' = srv /\ io' = io /\ tags' = tags /\ con' = con
      /\ log' = log /\ cut' = cut /\ fault' = fault
  BY DEF SendFrames
<1>2. FlowTypes
  BY DEF FlowInv
<1>3. PICK n \in Nat, k \in Nat, m \in 1..2 :
        n = Len(sent) /\ k = Len(wire[s]) /\ m = Len(kinds)
  BY <1>2, SessionTypes, KindsAre
<1>4. /\ new \in Seq(Part) /\ Len(new) = 2 * m
      /\ \A i \in 1..(2 * m) : PartAt(new[i], i + 2 * n)
  BY <1>3, FramesAfterAre
<1>5. /\ wire[s] \in Seq(Part)
      /\ sent \in Seq({"text", "close", "bad"})
      /\ kinds \in Seq({"text", "close", "bad"})
      /\ \A i \in 1..Len(kinds) : kinds[i] = "close" => Len(kinds) = 1
  BY <1>2, SessionTypes, KindsAre
<1>6. /\ wire[s] \o new \in Seq(Part) /\ Len(wire[s] \o new) = k + 2 * m
      /\ \A i \in 1..(k + 2 * m) : (wire[s] \o new)[i] =
           IF i <= k THEN wire[s][i] ELSE new[i - k]
  <2> HIDE DEF new
  <2>1. PICK w \in Seq(Part), x \in Seq(Part) : w = wire[s] /\ x = new
    BY <1>4, <1>5
  <2>2. Len(w) = k /\ Len(x) = 2 * m
    BY <1>3, <1>4, <2>1
  <2>3. /\ w \o x \in Seq(Part) /\ Len(w \o x) = k + 2 * m
        /\ \A i \in 1..(k + 2 * m) : (w \o x)[i] =
             IF i <= k THEN w[i] ELSE x[i - k]
    BY <2>1, <2>2, ConcatProperties
  <2>4. QED
    BY <2>1, <2>3
<1>7. /\ sent \o kinds \in Seq({"text", "close", "bad"})
      /\ Len(sent \o kinds) = n + m
      /\ \A i \in 1..(n + m) : (sent \o kinds)[i] =
           IF i <= n THEN sent[i] ELSE kinds[i - n]
  <2> HIDE DEF sent
  <2>1. QED
    BY <1>3, <1>5, ConcatProperties
<1> HIDE DEF new
<1>8. /\ wire' \in [Session -> Seq(Part)] /\ wire'[s] = wire[s] \o new
      /\ \A q \in Session \ {s} : wire'[q] = wire[q]
  BY <1>1, <1>2, <1>6 DEF FlowTypes
<1>9. /\ client' \in [Session -> [open : BOOLEAN,
                                  sent : Seq({"text", "close", "bad"})]]
      /\ client'[s].sent = sent \o kinds
      /\ \A q \in Session \ {s} : client'[q] = client[q]
  BY <1>1, <1>2, <1>7 DEF FlowTypes
<1>10. FlowTypes'
  <2>1. sends' \in 0..MaxSent /\ sends \in Nat
    BY <1>1, <1>2, BoundAssumption DEF FlowTypes
  <2>2. ASSUME NEW q \in Session PROVE Len(client'[q].sent) <= 2 * sends'
    <3>1. Len(client[q].sent) \in Nat /\ Len(client[q].sent) <= 2 * sends
      BY <1>2, SessionTypes DEF FlowTypes
    <3>2. CASE q = s
      <4>1. n <= 2 * sends /\ Len(client'[q].sent) = n + m
        BY <1>3, <1>7, <1>9, <3>1, <3>2
      <4>2. sends' = sends + 1
        BY <1>1
      <4>3. \A x \in Nat : n <= 2 * x => n + m <= 2 * (x + 1)
        OBVIOUS
      <4>4. QED
        BY <2>1, <4>1, <4>2, <4>3
    <3>3. CASE q # s
      BY <1>1, <1>9, <2>1, <3>1, <3>3
    <3>4. QED
      BY <3>2, <3>3
  <2>3. QED
    BY <1>1, <1>2, <1>8, <1>9, <2>1, <2>2 DEF FlowTypes
<1>11. OrderOK(s)'
  <2>1. /\ log[s] # <<>> => log[s][1] = 0
        /\ s \notin cut =>
             \A i \in 2..Len(log[s]) : log[s][i] # 0 =>
               /\ log[s][i] = i - 1 /\ i - 1 \in 1..n /\ sent[i - 1] = "text"
    BY <1>3 DEF FlowInv, OrderOK
  <2>2. \A j \in 1..n : j \in 1..(n + m) /\ (sent \o kinds)[j] = sent[j]
    BY <1>7
  <2>3. s \notin cut =>
             \A i \in 2..Len(log[s]) : log[s][i] # 0 =>
               /\ log[s][i] = i - 1 /\ i - 1 \in 1..(n + m)
               /\ (sent \o kinds)[i - 1] = "text"
    BY <2>1, <2>2
  <2>4. QED
    BY <1>1, <1>7, <1>9, <2>1, <2>3 DEF OrderOK
<1>12. ConOK(s)' /\ BracketOK(s)'
  <2>1. ConOK(s) /\ BracketOK(s)
    BY DEF FlowOK
  <2>2. con[s].server # None
    BY <1>1, <2>1 DEF ConOK
  <2>3. QED
    BY <1>1, <2>1, <2>2 DEF ConOK, BracketOK
<1>13. CloseIsLast(s)'
  <2>1. ASSUME NEW i \in 1..(n + m), (sent \o kinds)[i] = "close"
        PROVE  i = n + m
    <3>1. i > n /\ kinds[i - n] = "close"
      BY <1>1, <1>3, <1>7, <2>1
    <3>2. i - n \in 1..m
      BY <3>1
    <3>3. m = 1
      BY <1>3, <1>5, <3>1, <3>2
    <3>4. QED
      BY <3>2, <3>3
  <2>2. QED
    BY <1>7, <1>9, <2>1 DEF CloseIsLast
<1>14. WireOK(s)'
  <2>1. \A i \in 1..k : PartAt(wire[s][i], i + 2 * n - k)
    BY <1>3 DEF FlowOK, WireOK
  <2>2. ASSUME NEW i \in 1..(k + 2 * m)
        PROVE  PartAt((wire[s] \o new)[i], i + 2 * (n + m) - (k + 2 * m))
    <3>1. i + 2 * (n + m) - (k + 2 * m) = i + 2 * n - k
      OBVIOUS
    <3>2. CASE i <= k
      BY <1>6, <2>1, <3>1, <3>2
    <3>3. CASE i > k
      <4>1. i - k \in 1..(2 * m) /\ (i - k) + 2 * n = i + 2 * n - k
        BY <3>3
      <4>2. PartAt(new[i - k], i + 2 * n - k)
        BY <1>4, <4>1
      <4>3. (wire[s] \o new)[i] = new[i - k]
        BY <1>6, <3>3
      <4>4. QED
        BY <3>1, <4>2, <4>3
    <3>4. i <= k \/ i > k
      OBVIOUS
    <3>5. QED
      BY <3>2, <3>3, <3>4
  <2>3. QED
    BY <1>6, <1>7, <1>8, <1>9, <2>2 DEF WireOK
<1>15. \A w \in Server : ThreadOK(w)'
  <2>1. ASSUME NEW w \in Server PROVE ThreadOK(w)'
    <3>1. HandlerOK(w) /\ DataOK(w)
      BY DEF FlowOK
    <3>2. HandlerOK(w)'
      BY <1>1, <3>1 DEF HandlerOK
    <3>3. CASE io[w].step = "ws"
      <4>1. PICK q \in Session : q = io[w].ses
        BY <3>1, <3>3 DEF HandlerOK
      <4>2. 2 * Len(client'[q].sent) - Len(wire'[q])
              = 2 * Len(client[q].sent) - Len(wire[q])
        <5>1. CASE q = s
          <6>1. /\ Len(client'[q].sent) = n + m /\ Len(client[q].sent) = n
                /\ Len(wire'[q]) = k + 2 * m /\ Len(wire[q]) = k
            BY <1>3, <1>6, <1>7, <1>8, <1>9, <5>1
          <6>2. 2 * (n + m) - (k + 2 * m) = 2 * n - k
            OBVIOUS
          <6>3. QED
            BY <6>1, <6>2
        <5>2. CASE q # s
          BY <1>8, <1>9, <5>2
        <5>3. QED
          BY <5>1, <5>2
      <4>3. /\ Len(client[q].sent) \in Nat /\ Len(wire[q]) \in Nat
            /\ Len(client'[q].sent) \in Nat /\ Len(wire'[q]) \in Nat
            /\ Len(io[w].data) \in Nat
        <5>1. io[w].data \in Seq(Part)
          BY <1>2 DEF FlowTypes, IoRec
        <5>2. QED
          BY <1>2, <1>10, <5>1, SessionTypes, LenProperties DEF FlowTypes
      <4>4. \A i \in 1..Len(io[w].data) :
              i + 2 * Len(client'[q].sent) - Len(wire'[q]) - Len(io[w].data)
                = i + 2 * Len(client[q].sent) - Len(wire[q]) - Len(io[w].data)
        BY <4>2, <4>3
      <4>5. DataOK(w)'
        BY <1>1, <3>1, <4>1, <4>4 DEF DataOK
      <4>6. QED
        BY <3>2, <4>5 DEF ThreadOK
    <3>4. CASE io[w].step # "ws"
      BY <1>1, <3>2, <3>4 DEF ThreadOK, DataOK
    <3>5. QED
      BY <3>3, <3>4
  <2>2. QED
    BY <2>1
<1>16. ProgressOK(s)'
  <2>1. InData(s)' = InData(s) /\ Count(s)' = Count(s)
    BY <1>1 DEF InData, Count
  <2>2. InData(s) \in Int /\ Count(s) \in Int
    <3>1. \A w \in Server : Len(io[w].data) \in Nat
      BY <1>2, LenProperties DEF FlowTypes, IoRec
    <3>2. con[s].server \in Server \cup {None}
      BY <1>2 DEF FlowTypes, ConRec
    <3>3. QED
      BY <1>2, <3>1, <3>2, SessionTypes DEF InData, Count
  <2>3. Handled(s) = 2 * n - k - InData(s)
    BY <1>3 DEF Handled
  <2>4. Handled(s)' = 2 * (n + m) - (k + 2 * m) - InData(s)
    BY <1>6, <1>7, <1>8, <1>9, <2>1 DEF Handled
  <2>5. Handled(s)' = Handled(s)
    BY <2>2, <2>3, <2>4
  <2>6. s \notin cut =>
          \/ Handled(s) <= 0 /\ Count(s) = 0
          \/ Handled(s) = 2 * Count(s)
    <3>1. n = Count(s) + 1 => n \in 1..n
      BY <1>2, SessionTypes DEF Count
    <3>2. n = Count(s) + 1 => sent[n] # "close"
      BY <1>1, <1>3, <3>1
    <3>3. QED
      BY <1>1, <1>3, <3>2 DEF FlowOK, ProgressOK
  <2>7. QED
    BY <1>1, <2>1, <2>5, <2>6 DEF ProgressOK
<1>17. SessionOK(s)'
  BY <1>12, <1>13, <1>14, <1>16 DEF SessionOK
<1>18. fault' \in Faults
  BY <1>1 DEF FlowInv
<1>19. /\ \A q \in Session \ {s} :
             /\ con'[q] = con[q] /\ wire'[q] = wire[q]
             /\ client'[q].sent = client[q].sent /\ log'[q] = log[q]
             /\ q \in cut' <=> q \in cut
             /\ \A w \in Server : srv'[w].sessions[q] = srv[w].sessions[q]
       /\ \A w \in Server : /\ srv'[w].thread = srv[w].thread
                            /\ srv'[w].state = srv[w].state
                            /\ io'[w] = io[w]
  BY <1>1, <1>8, <1>9
<1>20. QED
  BY <1>10, <1>11, <1>15, <1>17, <1>18, <1>19, FlowStep

(* A connection with a handler belongs to a server.                        *)
LEMMA HeldByServer ==
    ASSUME FlowTypes, FlowOK, NEW s \in Session, Held(s)
    PROVE  con[s].server \in Server
BY DEF FlowTypes, FlowOK, ConOK, ConRec, Held

(* The delegate tells the target of a session, or the process dies.        *)
LEMMA PostFaultIs ==
    ASSUME ShareTypes, NEW v \in Server, NEW s \in Session
    PROVE  /\ PostFault(v, s) \in Faults
           /\ PostFault(v, s) = "none" => srv[v].sessions[s] \in Agent
<1>1. srv[v].sessions[s] \in Agent \cup {None}
  BY DEF ShareTypes, ServerRec
<1>2. QED
  BY <1>1 DEF PostFault, Faults

(* The end of a connection: its target hears of it last.                   *)
LEMMA FlowEof ==
    ASSUME FlowInv, FlowOK, ShareTypes, NEW s \in Session,
           NEW pending \in BOOLEAN, OnEof(s, pending), Held(s),
           sends' = sends, cut' = cut, io' \in [Server -> IoRec],
           \A w \in Server : \/ io'[w] = io[w] /\ io[w].ses # s
                             \/ io[w].ses = s /\ io'[w] = Idle
    PROVE  FlowInv'
<1>1. FlowTypes
  BY DEF FlowInv
<1>2. PICK v \in Server : v = con[s].server
  BY <1>1, HeldByServer
<1> DEFINE a == srv[v].sessions[s]
           f == IF Attached(s) THEN PostFault(v, s) ELSE "none"
<1>3. /\ con' = [con EXCEPT ![s].handler = "none", ![s].listed = FALSE,
                            ![s].aborted = pending /\ con[s].reading]
      /\ wire' = [wire EXCEPT ![s] = <<>>]
      /\ client' = [client EXCEPT ![s].open = FALSE]
      /\ fault' = f
      /\ IF Attached(s) /\ f = "none"
         THEN /\ tags' = [tags EXCEPT ![a] = Append(@, <<s, "disconnect">>)]
              /\ log' = [log EXCEPT ![s] = Append(@, 0)]
         ELSE tags' = tags /\ log' = log
  BY <1>2 DEF OnEof
<1>4. /\ f \in Faults
      /\ Attached(s) /\ f = "none" => a \in Agent
  BY PostFaultIs DEF Faults
<1>5. /\ con' \in [Session -> ConRec]
      /\ con'[s].handler = "none" /\ con'[s].server = v
      /\ con'[s].first = con[s].first
      /\ \A q \in Session \ {s} : con'[q] = con[q]
  <2>1. con[s] \in ConRec /\ con \in [Session -> ConRec]
    BY <1>1 DEF FlowTypes
  <2> DEFINE new == [con[s] EXCEPT !.handler = "none", !.listed = FALSE,
                                   !.aborted = pending /\ con[s].reading]
  <2>2. new \in ConRec
    BY <2>1 DEF ConRec
  <2>3. new.handler = "none" /\ new.server = v /\ new.first = con[s].first
    BY <1>2, <2>1 DEF ConRec
  <2>4. con' = [con EXCEPT ![s] = new]
    BY <1>3, <2>1
  <2> HIDE DEF new
  <2>5. QED
    BY <2>1, <2>2, <2>3, <2>4
<1>6. /\ wire' \in [Session -> Seq(Part)] /\ wire'[s] = <<>>
      /\ \A q \in Session \ {s} : wire'[q] = wire[q]
  BY <1>1, <1>3, EmptySeq DEF FlowTypes
<1>7. /\ client' \in [Session -> [open : BOOLEAN,
                                  sent : Seq({"text", "close", "bad"})]]
      /\ \A q \in Session : client'[q].sent = client[q].sent
  BY <1>1, <1>3 DEF FlowTypes
<1>8. /\ log[s] \in Seq(0..Misread) /\ Len(log[s]) \in Nat
      /\ log[s] = <<>> <=> Len(log[s]) = 0
  BY <1>1, SessionTypes
<1>9. 0 \in 0..Misread
  BY BoundAssumption DEF Misread
<1>10. /\ log' \in [Session -> Seq(0..Misread)]
       /\ \A q \in Session \ {s} : log'[q] = log[q]
       /\ \/ log'[s] = log[s] /\ (f = "none" => ~Attached(s))
          \/ /\ log'[s] = Append(log[s], 0)
             /\ Attached(s) /\ f = "none"
  <2>1. CASE Attached(s) /\ f = "none"
    <3>1. log' = [log EXCEPT ![s] = Append(log[s], 0)]
      BY <1>3, <2>1
    <3>2. Append(log[s], 0) \in Seq(0..Misread)
      BY <1>8, <1>9, AppendProperties
    <3>3. QED
      BY <1>1, <2>1, <3>1, <3>2 DEF FlowTypes
  <2>2. CASE ~(Attached(s) /\ f = "none")
    BY <1>1, <1>3, <2>2 DEF FlowTypes
  <2>3. QED
    BY <2>1, <2>2
<1>11. tags' \in [Agent -> Seq(Session \X {"connect", "disconnect"})]
  <2>1. CASE Attached(s) /\ f = "none"
    <3>1. a \in Agent
          /\ tags' = [tags EXCEPT ![a] = Append(tags[a], <<s, "disconnect">>)]
      BY <1>3, <1>4, <2>1
    <3>2. Append(tags[a], <<s, "disconnect">>)
            \in Seq(Session \X {"connect", "disconnect"})
      <4>1. <<s, "disconnect">> \in Session \X {"connect", "disconnect"}
        OBVIOUS
      <4>2. tags[a] \in Seq(Session \X {"connect", "disconnect"})
        BY <1>1, <3>1 DEF FlowTypes
      <4>3. QED
        BY <4>1, <4>2, AppendProperties
    <3>3. QED
      BY <1>1, <3>1, <3>2 DEF FlowTypes
  <2>2. CASE ~(Attached(s) /\ f = "none")
    BY <1>1, <1>3, <2>2 DEF FlowTypes
  <2>3. QED
    BY <2>1, <2>2
<1> HIDE DEF a, f
<1>12. \A w \in Server : io'[w].step = "idle" <=> io'[w].data = <<>>
  BY <1>1, IdleRec DEF FlowTypes
<1>13. FlowTypes'
  BY <1>1, <1>5, <1>6, <1>7, <1>10, <1>11, <1>12 DEF FlowTypes
<1>14. /\ \A w \in Server : /\ srv'[w].state = srv[w].state
                            /\ srv'[w].thread = srv[w].thread
                            /\ srv'[w].sessions = srv[w].sessions
  BY <1>2, EofServers
<1>15. f = "none" /\ Attached(s) => log[s] # <<>>
  <2>1. f = "none" /\ Attached(s) => srv[v].sessions[s] # None
    BY PostFaultIs, NoneIsNone DEF f
  <2>2. QED
    BY <2>1 DEF FlowOK, ConOK
<1>16. ASSUME log'[s] = Append(log[s], 0) /\ Attached(s) /\ f = "none"
      PROVE  OrderOK(s)' /\ ConOK(s)' /\ (f = "none" => BracketOK(s)')
  <2>1. /\ Len(log'[s]) = Len(log[s]) + 1
        /\ \A i \in 1..Len(log[s]) : log'[s][i] = log[s][i]
        /\ log'[s][Len(log[s]) + 1] = 0
    BY <1>8, <1>9, <1>16, AppendProperties
  <2>2. Len(log[s]) >= 1 /\ log'[s] # <<>>
    BY <1>8, <1>9, <1>15, <1>16, AppendProperties
  <2>3. con[s].handler = "ws"
    BY <1>16 DEF FlowOK, ConOK, Held, Attached
  <2>4. \A i \in 2..Len(log[s]) : log[s][i] # 0
    BY <1>15, <1>16, <2>3 DEF FlowOK, BracketOK
  <2>5. BracketOK(s)'
    <3>1. \A i \in 2..(Len(log'[s]) - 1) : log'[s][i] # 0
      BY <1>8, <2>1, <2>4
    <3>2. Len(log'[s]) > 1 /\ log'[s][Len(log'[s])] = 0
      BY <1>8, <2>1, <2>2
    <3>3. QED
      BY <1>5, <3>1, <3>2 DEF BracketOK
  <2>6. OrderOK(s)'
    <3>1. log[s][1] = 0 /\ log'[s][1] = log[s][1]
      BY <1>8, <1>15, <1>16, <2>1, <2>2 DEF FlowInv, OrderOK
    <3>2. s \notin cut =>
            \A i \in 2..Len(log'[s]) : log'[s][i] # 0 =>
              /\ log'[s][i] = i - 1
              /\ i - 1 \in 1..Len(client[s].sent)
              /\ client[s].sent[i - 1] = "text"
      <4>1. \A i \in 2..Len(log'[s]) : log'[s][i] # 0 =>
              i \in 2..Len(log[s]) /\ log'[s][i] = log[s][i]
        BY <1>8, <2>1
      <4>2. QED
        BY <4>1 DEF FlowInv, OrderOK
    <3>3. QED
      BY <1>7, <3>1, <3>2 DEF OrderOK
  <2>7. ConOK(s)'
    BY <1>2, <1>5, <1>14, <1>16, <2>2, NoneIsNone DEF ConOK, Attached
  <2>8. QED
    BY <2>5, <2>6, <2>7
<1>17. ASSUME log'[s] = log[s] /\ (f = "none" => ~Attached(s))
      PROVE  OrderOK(s)' /\ ConOK(s)' /\ (f = "none" => BracketOK(s)')
  <2>1. OrderOK(s)'
    BY <1>7, <1>17 DEF FlowInv, OrderOK
  <2>2. ConOK(s)'
    <3>1. ConOK(s)
      BY DEF FlowOK
    <3>2. QED
      BY <1>2, <1>5, <1>14, <1>17, <3>1, NoneIsNone DEF ConOK
  <2>3. f = "none" => log[s] = <<>>
    BY <1>17 DEF FlowOK, ConOK, Attached
  <2>4. f = "none" => BracketOK(s)'
    BY <1>17, <2>3 DEF BracketOK
  <2>5. QED
    BY <2>1, <2>2, <2>4
<1>18. OrderOK(s)' /\ ConOK(s)' /\ (f = "none" => BracketOK(s)')
  BY <1>10, <1>16, <1>17
<1>19. Running' => SessionOK(s)'
  <2>1. WireOK(s)'
    BY <1>6, EmptySeq DEF WireOK
  <2>2. ProgressOK(s)'
    BY <1>5 DEF ProgressOK
  <2>3. CloseIsLast(s)'
    BY <1>7 DEF FlowOK, CloseIsLast
  <2>4. QED
    BY <1>3, <1>18, <2>1, <2>2, <2>3 DEF SessionOK, Running
<1>20. \A w \in Server : \/ io'[w] = io[w] /\ io[w].ses # s
                         \/ ThreadOK(w)'
  BY IdleRec DEF ThreadOK, HandlerOK, DataOK
<1>21. \A q \in Session \ {s} :
         /\ con'[q] = con[q] /\ wire'[q] = wire[q]
         /\ client'[q].sent = client[q].sent /\ log'[q] = log[q]
         /\ q \in cut' <=> q \in cut
         /\ \A w \in Server : srv'[w].sessions[q] = srv[w].sessions[q]
  BY <1>5, <1>6, <1>7, <1>10, <1>14
<1>22. \A w \in Server :
         /\ srv'[w].thread = srv[w].thread
         /\ srv'[w].state = srv[w].state
         /\ \/ io'[w] = io[w]
            \/ io[w].ses \in {s, None} /\ io'[w].ses \in {s, None}
  BY <1>14, IdleRec
<1>23. fault' \in Faults
  BY <1>3, <1>4
<1>24. QED
  BY <1>13, <1>18, <1>19, <1>20, <1>21, <1>22, <1>23, FlowStep

(* The threads of other servers are not with a connection of v.            *)
LEMMA OthersElsewhere ==
    ASSUME FlowOK, NEW v \in Server \cup {None}, NEW s \in Session,
           con[s].server = v, NEW w \in Server, w # v
    PROVE  io[w].ses # s
<1>1. HandlerOK(w)
  BY DEF FlowOK
<1>2. QED
  BY <1>1, NoneIsNone DEF HandlerOK

(* A connection is accepted.                                               *)
LEMMA FlowAccept ==
    ASSUME FlowInv, FlowOK, NEW v \in Server, NEW s \in Session, Accept(v, s)
    PROVE  FlowInv'
<1>1. /\ con[s].server = None /\ io[v] = Idle
      /\ con' = [con EXCEPT ![s] = NewConnection(v)]
      /\ srv' = srv /\ io' = io /\ tags' = tags /\ wire' = wire
      /\ client' = client /\ sends' = sends /\ log' = log /\ cut' = cut
      /\ fault' = fault
  BY DEF Accept, IoTurn
<1>2. FlowTypes
  BY DEF FlowInv
<1>3. /\ NewConnection(v) \in ConRec
      /\ NewConnection(v).server = v /\ NewConnection(v).handler = "http"
      /\ NewConnection(v).first = None
  BY DEF NewConnection, ConRec
<1>4. /\ con' \in [Session -> ConRec] /\ con'[s] = NewConnection(v)
      /\ \A q \in Session \ {s} : con'[q] = con[q]
  BY <1>1, <1>2, <1>3 DEF FlowTypes
<1>5. FlowTypes'
  BY <1>1, <1>2, <1>4 DEF FlowTypes
<1>6. ConOK(s)
  BY DEF FlowOK
<1>7. log[s] = <<>> /\ client[s].sent = <<>>
  BY <1>1, <1>6 DEF ConOK
<1>8. ConOK(s)'
  BY <1>1, <1>3, <1>4, <1>6, <1>7, NoneIsNone DEF ConOK
<1>9. BracketOK(s)' /\ OrderOK(s)' /\ ProgressOK(s)'
  <2>1. OrderOK(s)'
    BY <1>1 DEF FlowInv, OrderOK
  <2>2. QED
    BY <1>1, <1>3, <1>4, <1>7, <2>1 DEF BracketOK, ProgressOK
<1>10. WireOK(s)' /\ CloseIsLast(s)'
  BY <1>1 DEF FlowOK, WireOK, CloseIsLast
<1>11. SessionOK(s)'
  BY <1>8, <1>9, <1>10 DEF SessionOK
<1>12. \A w \in Server : io[w].ses # s
  BY <1>1, OthersElsewhere, NoneIsNone
<1>13. fault' \in Faults
  BY <1>1 DEF FlowInv
<1>14. /\ \A q \in Session \ {s} :
             /\ con'[q] = con[q] /\ wire'[q] = wire[q]
             /\ client'[q].sent = client[q].sent /\ log'[q] = log[q]
             /\ q \in cut' <=> q \in cut
             /\ \A w \in Server : srv'[w].sessions[q] = srv[w].sessions[q]
       /\ \A w \in Server : /\ srv'[w].thread = srv[w].thread
                            /\ srv'[w].state = srv[w].state
                            /\ io'[w] = io[w]
  BY <1>1, <1>4
<1>15. QED
  BY <1>5, <1>9, <1>11, <1>12, <1>13, <1>14, FlowStep

(* What is left of a sequence after its first parts, and those.            *)
LEMMA Cut ==
    ASSUME NEW d \in Seq(Part), NEW n \in 0..Len(d)
    PROVE  /\ SubSeq(d, n + 1, Len(d)) \in Seq(Part)
           /\ Len(SubSeq(d, n + 1, Len(d))) = Len(d) - n
           /\ \A i \in 1..(Len(d) - n) : SubSeq(d, n + 1, Len(d))[i] = d[n + i]
           /\ SubSeq(d, 1, n) \in Seq(Part)
           /\ Len(SubSeq(d, 1, n)) = n
           /\ \A i \in 1..n : SubSeq(d, 1, n)[i] = d[i]
<1>1. PICK k \in Nat : k = Len(d)
  BY LenProperties
<1>2. \A i \in 1..k : d[i] \in Part
  BY <1>1, ElementOfSeq
<1>3. /\ n + 1 \in Int /\ n \in Nat /\ n <= k
      /\ \A i \in (n + 1)..k : d[i] \in Part
      /\ \A i \in 1..n : d[i] \in Part
  BY <1>1, <1>2
<1>4. /\ SubSeq(d, n + 1, k) \in Seq(Part)
      /\ Len(SubSeq(d, n + 1, k)) =
           IF n + 1 <= k THEN k - (n + 1) + 1 ELSE 0
      /\ \A i \in 1..(k - (n + 1) + 1) :
           SubSeq(d, n + 1, k)[i] = d[n + 1 + i - 1]
  BY <1>3, SubSeqProperties
<1>5. /\ SubSeq(d, 1, n) \in Seq(Part)
      /\ Len(SubSeq(d, 1, n)) = IF 1 <= n THEN n - 1 + 1 ELSE 0
      /\ \A i \in 1..(n - 1 + 1) : SubSeq(d, 1, n)[i] = d[1 + i - 1]
  BY <1>3, SubSeqProperties
<1>6. /\ k - (n + 1) + 1 = k - n /\ n - 1 + 1 = n
      /\ (IF n + 1 <= k THEN k - (n + 1) + 1 ELSE 0) = k - n
      /\ (IF 1 <= n THEN n - 1 + 1 ELSE 0) = n
      /\ \A i \in Int : n + 1 + i - 1 = n + i /\ 1 + i - 1 = i
  BY <1>1, <1>3
<1>7. /\ \A i \in 1..(k - n) : SubSeq(d, n + 1, k)[i] = d[n + i]
      /\ \A i \in 1..n : SubSeq(d, 1, n)[i] = d[i]
  BY <1>4, <1>5, <1>6
<1>8. QED
  BY <1>1, <1>4, <1>5, <1>6, <1>7

(* A read: the data comes before what is left.                             *)
LEMMA FlowRead ==
    ASSUME FlowInv, FlowOK, NEW v \in Server, NEW s \in Session,
           NEW n \in 1..Len(wire[s]), NEW m \in 1..n,
           NEW step \in {"http", "ws"}, con[s].handler = step,
           step = "http" =>
             \A i \in 1..(m - 1) : wire[s][i].kind # "upgrade",
           step = "ws" => m = n,
           Read(v, s, n, step, SubSeq(wire[s], 1, m))
    PROVE  FlowInv'
<1> DEFINE data == SubSeq(wire[s], 1, m)
           rest == SubSeq(wire[s], n + 1, Len(wire[s]))
           got == [step |-> step, ses |-> s, data |-> data]
<1>1. /\ srv[v].thread = "run" /\ io[v] = Idle /\ con[s].server = v
      /\ wire' = [wire EXCEPT ![s] = rest]
      /\ io' = [io EXCEPT ![v] = got]
      /\ srv' = srv /\ tags' = tags /\ con' = con /\ client' = client
      /\ sends' = sends /\ log' = log /\ cut' = cut /\ fault' = fault
  BY DEF Read, IoTurn
<1>2. FlowTypes
  BY DEF FlowInv
<1>3. PICK k \in Nat, N \in Nat :
        /\ k = Len(wire[s]) /\ N = Len(client[s].sent)
        /\ wire[s] \in Seq(Part)
  BY <1>2, SessionTypes
<1>4. n \in 0..k /\ m \in 0..k /\ n \in 1..k /\ m \in 1..n /\ m >= 1
  BY <1>3
<1>5. /\ rest \in Seq(Part) /\ Len(rest) = k - n
      /\ \A i \in 1..(k - n) : rest[i] = wire[s][n + i]
  BY <1>3, <1>4, Cut
<1>6. /\ data \in Seq(Part) /\ Len(data) = m
      /\ \A i \in 1..m : data[i] = wire[s][i]
  BY <1>3, <1>4, Cut
<1> HIDE DEF rest, data
<1>7. data # <<>>
  BY <1>4, <1>6, EmptySeq
<1>8. /\ got \in IoRec /\ got.step = step /\ got.ses = s
      /\ got.data = data
  BY <1>6 DEF IoRec
<1> HIDE DEF got
<1>9. /\ wire' \in [Session -> Seq(Part)] /\ wire'[s] = rest
      /\ \A q \in Session \ {s} : wire'[q] = wire[q]
  BY <1>1, <1>2, <1>5 DEF FlowTypes
<1>10. /\ io' \in [Server -> IoRec] /\ io'[v] = got
       /\ \A w \in Server \ {v} : io'[w] = io[w]
  BY <1>1, <1>2, <1>8 DEF FlowTypes
<1>11. FlowTypes'
  <2>1. \A w \in Server : io'[w].step = "idle" <=> io'[w].data = <<>>
    BY <1>2, <1>7, <1>8, <1>10 DEF FlowTypes
  <2>2. QED
    BY <1>1, <1>2, <1>9, <1>10, <2>1 DEF FlowTypes
<1>12. OrderOK(s)'
  BY <1>1 DEF FlowInv, OrderOK
<1>13. ConOK(s)' /\ BracketOK(s)' /\ CloseIsLast(s)'
  BY <1>1 DEF FlowOK, ConOK, BracketOK, CloseIsLast
<1>14. \A i \in 1..k : PartAt(wire[s][i], i + 2 * N - k)
  BY <1>3 DEF FlowOK, WireOK
<1>15. WireOK(s)'
  <2>1. ASSUME NEW i \in 1..(k - n)
        PROVE  PartAt(rest[i], i + 2 * N - (k - n))
    <3>1. n + i \in 1..k /\ (n + i) + 2 * N - k = i + 2 * N - (k - n)
      BY <1>4
    <3>2. PartAt(wire[s][n + i], i + 2 * N - (k - n))
      BY <1>14, <3>1
    <3>3. QED
      BY <1>5, <3>2
  <2>2. QED
    BY <1>1, <1>3, <1>5, <1>9, <2>1 DEF WireOK
<1>16. ProgressOK(s)'
  <2>1. CASE step = "http"
    BY <1>1, <2>1 DEF ProgressOK
  <2>2. CASE step = "ws"
    <3>1. InData(s) = 0
      BY <1>1, IdleRec, NoneIsNone DEF InData
    <3>2. InData(s)' = n
      BY <1>1, <1>6, <1>8, <1>10, <2>2, NoneIsNone DEF InData
    <3>3. Handled(s) = 2 * N - k - 0
      BY <1>3, <3>1 DEF Handled
    <3>4. Handled(s)' = 2 * N - (k - n) - n
      BY <1>1, <1>3, <1>5, <1>9, <3>2 DEF Handled
    <3>5. Handled(s)' = Handled(s)
      <4>1. n \in Nat /\ k \in Nat /\ N \in Nat
        BY <1>3, <1>4
      <4>2. 2 * N - (k - n) - n = 2 * N - k - 0
        BY <4>1
      <4>3. QED
        BY <3>3, <3>4, <4>2
    <3>6. Count(s)' = Count(s)
      BY <1>1 DEF Count
    <3>7. ProgressOK(s)
      BY DEF FlowOK
    <3>8. QED
      BY <1>1, <3>5, <3>6, <3>7 DEF ProgressOK
  <2>3. QED
    BY <2>1, <2>2
<1>17. SessionOK(s)'
  BY <1>13, <1>15, <1>16 DEF SessionOK
<1>18. ThreadOK(v)'
  <2>1. HandlerOK(v)'
    <3>1. step = "http" =>
            \A i \in 1..(Len(data) - 1) : data[i].kind # "upgrade"
      <4>1. \A i \in 1..(m - 1) : i \in 1..m
        BY <1>4
      <4>2. QED
        BY <1>6, <4>1
    <3>2. QED
      BY <1>1, <1>8, <1>10, <3>1 DEF HandlerOK
  <2>2. DataOK(v)'
    <3>1. CASE step = "ws"
      <4>1. ASSUME NEW i \in 1..n
            PROVE  PartAt(data[i], i + 2 * N - (k - n) - n)
        <5>1. i \in 1..k /\ i + 2 * N - (k - n) - n = i + 2 * N - k
          BY <1>4
        <5>2. QED
          BY <1>6, <1>14, <3>1, <5>1
      <4>2. QED
        BY <1>1, <1>3, <1>5, <1>6, <1>8, <1>9, <1>10, <3>1, <4>1 DEF DataOK
    <3>2. CASE step = "http"
      BY <1>8, <1>10, <3>2 DEF DataOK
    <3>3. QED
      BY <3>1, <3>2
  <2>3. QED
    BY <2>1, <2>2 DEF ThreadOK
<1>19. \A w \in Server \ {v} : io'[w] = io[w] /\ io[w].ses # s
  BY <1>1, <1>10, OthersElsewhere
<1>20. fault' \in Faults
  BY <1>1 DEF FlowInv
<1>21. /\ \A q \in Session \ {s} :
             /\ con'[q] = con[q] /\ wire'[q] = wire[q]
             /\ client'[q].sent = client[q].sent /\ log'[q] = log[q]
             /\ q \in cut' <=> q \in cut
             /\ \A w \in Server : srv'[w].sessions[q] = srv[w].sessions[q]
       /\ \A w \in Server : /\ srv'[w].thread = srv[w].thread
                            /\ srv'[w].state = srv[w].state
                            /\ \/ io'[w] = io[w]
                               \/ /\ io[w].ses \in {s, None}
                                  /\ io'[w].ses \in {s, None}
  BY <1>1, <1>8, <1>9, <1>10, IdleRec
<1>22. QED
  BY <1>11, <1>12, <1>17, <1>18, <1>19, <1>20, <1>21, FlowStep

(* The data of a handler.                                                  *)
LEMMA DataTypes ==
    ASSUME FlowTypes, NEW v \in Server, io[v].step # "idle"
    PROVE  /\ io[v] \in IoRec /\ io[v].data \in Seq(Part)
           /\ Len(io[v].data) \in Nat /\ Len(io[v].data) >= 1
           /\ io[v].data # <<>>
           /\ Head(io[v].data) = io[v].data[1] /\ io[v].data[1] \in Part
<1>1. io[v] \in IoRec /\ io[v].data \in Seq(Part) /\ io[v].data # <<>>
  BY DEF FlowTypes, IoRec
<1>2. Len(io[v].data) \in Nat /\ Len(io[v].data) >= 1
  BY <1>1, EmptySeq
<1>3. 1 \in 1..Len(io[v].data)
  BY <1>2
<1>4. io[v].data[1] \in Part
  BY <1>1, <1>3, ElementOfSeq
<1>5. Head(io[v].data) = io[v].data[1]
  BY <1>1
<1>6. QED
  BY <1>1, <1>2, <1>4, <1>5

(* The loop of a handler goes on with the rest of the data, or ends.       *)
LEMMA ContinueIs ==
    ASSUME FlowTypes, NEW v \in Server, io[v].step # "idle",
           NEW st \in {"http", "ws"}, Continue(v, st)
    PROVE  \E x \in IoRec :
             /\ io' = [io EXCEPT ![v] = x]
             /\ \/ Len(io[v].data) = 1 /\ x = Idle
                \/ /\ Len(io[v].data) > 1 /\ x.step = st
                   /\ x.ses = io[v].ses /\ x.data # <<>>
                   /\ Len(x.data) = Len(io[v].data) - 1
                   /\ \A i \in 1..Len(x.data) : x.data[i] = io[v].data[i + 1]
<1>1. PICK r \in IoRec : r = io[v]
  BY DEF FlowTypes
<1>2. PICK d \in Seq(Part), n \in Nat :
        d = r.data /\ n = Len(d) /\ n >= 1 /\ d # <<>>
  BY <1>1, DataTypes
<1>3. io' = [io EXCEPT ![v] = IF n = 1 THEN Idle
                              ELSE [step |-> st, ses |-> r.ses,
                                    data |-> Tail(d)]]
  BY <1>1, <1>2 DEF Continue
<1>4. CASE n = 1
  <2>1. io' = [io EXCEPT ![v] = Idle]
    BY <1>3, <1>4
  <2>2. Len(io[v].data) = 1
    BY <1>1, <1>2, <1>4
  <2>3. QED
    BY <2>1, <2>2, IdleRec
<1>5. CASE n # 1
  <2> DEFINE x == [step |-> st, ses |-> r.ses, data |-> Tail(d)]
  <2>1. io' = [io EXCEPT ![v] = x]
    BY <1>3, <1>5
  <2>2. /\ Tail(d) \in Seq(Part) /\ Len(Tail(d)) = n - 1
        /\ \A i \in 1..(n - 1) : Tail(d)[i] = d[i + 1]
    BY <1>2, HeadTailProperties
  <2>3. n - 1 # 0 /\ n > 1
    <3>1. n \in Nat /\ n >= 1
      BY <1>2
    <3>2. QED
      BY <1>5, <3>1
  <2>4. Tail(d) # <<>>
    BY <2>2, <2>3, EmptySeq
  <2>5. x \in IoRec /\ x.step = st /\ x.ses = r.ses /\ x.data = Tail(d)
    BY <2>2 DEF IoRec
  <2> HIDE DEF x
  <2>6. /\ Len(io[v].data) > 1 /\ x.step = st
        /\ x.ses = io[v].ses /\ x.data # <<>>
        /\ Len(x.data) = Len(io[v].data) - 1
        /\ \A i \in 1..Len(x.data) : x.data[i] = io[v].data[i + 1]
    BY <1>1, <1>2, <2>2, <2>3, <2>4, <2>5
  <2>7. QED
    BY <2>1, <2>5, <2>6
<1>6. QED
  BY <1>4, <1>5

(* A step of the HTTP handler that leaves the connection alone.            *)
LEMMA FlowHttp ==
    ASSUME FlowInv, FlowOK, NEW v \in Server, io[v].step = "http",
           NEW x \in IoRec, io' = [io EXCEPT ![v] = x],
           x.step \in {"idle", "http", "accept"},
           x.step = "idle" <=> x.data = <<>>,
           x.ses = IF x.step = "idle" THEN None ELSE io[v].ses,
           \A i \in 1..(Len(x.data) - 1) : x.data[i].kind # "upgrade",
           x.step = "accept" => x.data[1].kind = "upgrade",
           UNCHANGED <<srv, tags, conVars>>, fault' \in Faults
    PROVE  FlowInv'
<1>1. /\ srv' = srv /\ tags' = tags /\ con' = con /\ wire' = wire
      /\ client' = client /\ sends' = sends /\ log' = log /\ cut' = cut
  BY DEF conVars
<1>2. FlowTypes
  BY DEF FlowInv
<1>3. HandlerOK(v)
  BY DEF FlowOK
<1>4. PICK s \in Session : /\ s = io[v].ses /\ con[s].server = v
                           /\ con[s].handler = "http"
                           /\ srv[v].thread = "run"
  BY <1>3 DEF HandlerOK
<1>5. /\ io' \in [Server -> IoRec] /\ io'[v] = x
      /\ \A w \in Server \ {v} : io'[w] = io[w]
  BY <1>2 DEF FlowTypes
<1>6. FlowTypes'
  <2>1. \A w \in Server : io'[w].step = "idle" <=> io'[w].data = <<>>
    BY <1>2, <1>5 DEF FlowTypes
  <2>2. QED
    BY <1>1, <1>2, <1>5, <2>1 DEF FlowTypes
<1>7. OrderOK(s)'
  BY <1>1 DEF FlowInv, OrderOK
<1>8. SessionOK(s)'
  <2>1. ConOK(s)' /\ BracketOK(s)' /\ CloseIsLast(s)' /\ WireOK(s)'
    BY <1>1 DEF FlowOK, ConOK, BracketOK, CloseIsLast, WireOK
  <2>2. ProgressOK(s)'
    BY <1>1, <1>4 DEF ProgressOK
  <2>3. QED
    BY <2>1, <2>2 DEF SessionOK
<1>9. ThreadOK(v)'
  <2>1. HandlerOK(v)'
    BY <1>1, <1>4, <1>5 DEF HandlerOK
  <2>2. DataOK(v)'
    BY <1>5 DEF DataOK
  <2>3. QED
    BY <2>1, <2>2 DEF ThreadOK
<1>10. \A w \in Server \ {v} : io'[w] = io[w] /\ io[w].ses # s
  BY <1>4, <1>5, OthersElsewhere
<1>11. /\ \A q \in Session \ {s} :
             /\ con'[q] = con[q] /\ wire'[q] = wire[q]
             /\ client'[q].sent = client[q].sent /\ log'[q] = log[q]
             /\ q \in cut' <=> q \in cut
             /\ \A w \in Server : srv'[w].sessions[q] = srv[w].sessions[q]
       /\ \A w \in Server : /\ srv'[w].thread = srv[w].thread
                            /\ srv'[w].state = srv[w].state
                            /\ \/ io'[w] = io[w]
                               \/ /\ io[w].ses \in {s, None}
                                  /\ io'[w].ses \in {s, None}
  BY <1>1, <1>4, <1>5
<1>12. QED
  BY <1>6, <1>7, <1>8, <1>9, <1>10, <1>11, FlowStep

(* A request that is not allowed ends the handling of the data.            *)
LEMMA FlowCancelHandshake ==
    ASSUME FlowInv, FlowOK, NEW v \in Server, CancelHandshake(v)
    PROVE  FlowInv'
<1>1. /\ io[v].step = "http" /\ io' = [io EXCEPT ![v] = Idle]
      /\ UNCHANGED <<srv, tags, conVars>> /\ fault' = fault
  BY DEF CancelHandshake, InHandler
<1>2. fault' \in Faults
  BY <1>1 DEF FlowInv
<1>3. Len(Idle.data) = 0
  BY IdleRec, EmptySeq
<1>4. \A i \in 1..(Len(Idle.data) - 1) : Idle.data[i].kind # "upgrade"
  BY <1>3
<1>5. QED
  BY <1>1, <1>2, <1>4, IdleRec, FlowHttp

(* The HTTP handler goes on after a request.                               *)
LEMMA FlowNextRequest ==
    ASSUME FlowInv, FlowOK, NEW v \in Server, io[v].step = "http",
           Continue(v, "http"), UNCHANGED <<srv, tags, conVars>>,
           fault' \in Faults
    PROVE  FlowInv'
<1>1. FlowTypes /\ HandlerOK(v)
  BY DEF FlowInv, FlowOK
<1>2. PICK x \in IoRec :
        /\ io' = [io EXCEPT ![v] = x]
        /\ \/ Len(io[v].data) = 1 /\ x = Idle
           \/ /\ Len(io[v].data) > 1 /\ x.step = "http"
              /\ x.ses = io[v].ses /\ x.data # <<>>
              /\ Len(x.data) = Len(io[v].data) - 1
              /\ \A i \in 1..Len(x.data) : x.data[i] = io[v].data[i + 1]
  BY <1>1, ContinueIs
<1>3. Len(io[v].data) \in Nat
  BY <1>1, DataTypes
<1>4. CASE x = Idle
  <2>1. Len(Idle.data) = 0
    BY IdleRec, EmptySeq
  <2>2. \A i \in 1..(Len(Idle.data) - 1) : Idle.data[i].kind # "upgrade"
    BY <2>1
  <2>3. QED
    BY <1>2, <1>4, <2>2, IdleRec, FlowHttp
<1>5. CASE /\ Len(io[v].data) > 1 /\ x.step = "http"
           /\ x.ses = io[v].ses /\ x.data # <<>>
           /\ Len(x.data) = Len(io[v].data) - 1
           /\ \A i \in 1..Len(x.data) : x.data[i] = io[v].data[i + 1]
  <2>1. \A i \in 1..(Len(io[v].data) - 1) : io[v].data[i].kind # "upgrade"
    BY <1>1 DEF HandlerOK
  <2>2. \A i \in 1..(Len(x.data) - 1) : x.data[i].kind # "upgrade"
    <3>1. PICK n \in Nat : n = Len(io[v].data) /\ Len(x.data) = n - 1
      BY <1>3, <1>5
    <3>2. ASSUME NEW i \in 1..(n - 1 - 1)
          PROVE  i \in 1..(n - 1) /\ i + 1 \in 1..(n - 1)
      BY <3>1
    <3>3. \A i \in 1..(n - 1 - 1) : x.data[i] = io[v].data[i + 1]
      BY <1>5, <3>1, <3>2
    <3>4. \A i \in 1..(n - 1 - 1) : io[v].data[i + 1].kind # "upgrade"
      BY <2>1, <3>1, <3>2
    <3>5. QED
      BY <3>1, <3>3, <3>4
  <2>3. QED
    BY <1>2, <1>5, <2>2, FlowHttp
<1>6. QED
  BY <1>2, <1>4, <1>5

(* A request for the list of targets is answered.                          *)
LEMMA FlowOnHttpGet ==
    ASSUME FlowInv, FlowOK, NEW v \in Server, OnHttpGet(v)
    PROVE  FlowInv'
<1>1. /\ io[v].step = "http" /\ Continue(v, "http")
      /\ UNCHANGED <<srv, tags, conVars>>
  BY DEF OnHttpGet, InHandler
<1>2. fault' \in Faults
  BY DEF OnHttpGet, Faults
<1>3. QED
  BY <1>1, <1>2, FlowNextRequest

(* The target of an upgrade is looked up.                                  *)
LEMMA FlowTargetExists ==
    ASSUME FlowInv, FlowOK, NEW v \in Server, TargetExists(v)
    PROVE  FlowInv'
<1>1. /\ io[v].step = "http" /\ Head(io[v].data).kind = "upgrade"
      /\ UNCHANGED <<srv, tags, conVars>>
  BY DEF TargetExists, InHandler
<1>2. fault' \in Faults
  BY DEF TargetExists, FlowInv, Faults
<1>3. FlowTypes /\ HandlerOK(v)
  BY DEF FlowInv, FlowOK
<1>4. CASE io' = io
  <2>1. tags' \in [Agent -> Seq(Session \X {"connect", "disconnect"})]
    BY <1>1, <1>3 DEF FlowTypes
  <2>2. QED
    BY <1>1, <1>2, <1>4, <2>1, FlowQuiet
<1>5. CASE Continue(v, "http")
  BY <1>1, <1>2, <1>5, FlowNextRequest
<1>6. CASE io' = [io EXCEPT ![v].step = "accept"]
  <2> DEFINE x == [io[v] EXCEPT !.step = "accept"]
  <2>1. io' = [io EXCEPT ![v] = x]
    BY <1>6
  <2>2. /\ io[v] \in IoRec /\ io[v].data # <<>>
        /\ Head(io[v].data) = io[v].data[1]
    BY <1>1, <1>3, DataTypes
  <2>3. x \in IoRec /\ x.step = "accept" /\ x.data = io[v].data
        /\ x.ses = io[v].ses
    BY <2>2 DEF IoRec
  <2> HIDE DEF x
  <2>4. \A i \in 1..(Len(io[v].data) - 1) : io[v].data[i].kind # "upgrade"
    BY <1>1, <1>3 DEF HandlerOK
  <2>5. QED
    BY <1>1, <1>2, <2>1, <2>2, <2>3, <2>4, FlowHttp
<1>7. QED
  BY <1>4, <1>5, <1>6 DEF TargetExists

(* The WebSocket handler takes over.                                       *)
LEMMA FlowAcceptUpgrade ==
    ASSUME FlowInv, FlowOK, NEW v \in Server, AcceptUpgrade(v)
    PROVE  FlowInv'
<1>1. FlowTypes /\ HandlerOK(v)
  BY DEF FlowInv, FlowOK
<1>2. io[v].step = "accept"
  BY DEF AcceptUpgrade, InHandler
<1>3. PICK s \in Session : /\ s = io[v].ses /\ con[s].server = v
                           /\ con[s].handler = "http"
                           /\ srv[v].thread = "run"
  BY <1>1, <1>2 DEF HandlerOK
<1>4. PICK a \in Agent : a = Head(io[v].data).of
  <2>1. Head(io[v].data) = io[v].data[1] /\ io[v].data[1] \in Part
    BY <1>1, <1>2, DataTypes
  <2>2. io[v].data[1].kind = "upgrade"
    BY <1>1, <1>2 DEF HandlerOK
  <2>3. QED
    BY <2>1, <2>2 DEF Part
<1>5. /\ con' = [con EXCEPT ![s].first = a, ![s].handler = "ws"]
      /\ io' = [io EXCEPT ![v].step = "start"]
      /\ srv' = srv /\ tags' = tags /\ wire' = wire
      /\ client' = client /\ sends' = sends /\ log' = log /\ cut' = cut
      /\ fault' = fault
  BY <1>3, <1>4 DEF AcceptUpgrade
<1>6. /\ con' \in [Session -> ConRec]
      /\ con'[s].first = a /\ con'[s].handler = "ws" /\ con'[s].server = v
      /\ \A q \in Session \ {s} : con'[q] = con[q]
  <2>1. con \in [Session -> ConRec] /\ con[s] \in ConRec
    BY <1>1 DEF FlowTypes
  <2> DEFINE new == [con[s] EXCEPT !.first = a, !.handler = "ws"]
  <2>2. /\ new \in ConRec /\ new.first = a /\ new.handler = "ws"
        /\ new.server = v
    BY <1>3, <2>1 DEF ConRec
  <2>3. con' = [con EXCEPT ![s] = new]
    BY <1>5, <2>1
  <2> HIDE DEF new
  <2>4. QED
    BY <2>1, <2>2, <2>3
<1>7. /\ io' \in [Server -> IoRec]
      /\ io'[v].step = "start" /\ io'[v].ses = s /\ io'[v].data = io[v].data
      /\ \A w \in Server \ {v} : io'[w] = io[w]
  BY <1>1, <1>3, <1>5 DEF FlowTypes, IoRec
<1>8. FlowTypes'
  <2>1. io[v].data # <<>>
    BY <1>1, <1>2, DataTypes
  <2>2. \A w \in Server : io'[w].step = "idle" <=> io'[w].data = <<>>
    BY <1>1, <1>7, <2>1 DEF FlowTypes
  <2>3. QED
    BY <1>1, <1>5, <1>6, <1>7, <2>2 DEF FlowTypes
<1>9. ConOK(s)
  BY DEF FlowOK
<1>10. log[s] = <<>> /\ client[s].sent = <<>>
  BY <1>3, <1>9 DEF ConOK
<1>11. OrderOK(s)'
  BY <1>5 DEF FlowInv, OrderOK
<1>12. ConOK(s)' /\ BracketOK(s)'
  BY <1>5, <1>6, <1>9, <1>10, NoneIsNone DEF ConOK, BracketOK
<1>13. WireOK(s)' /\ CloseIsLast(s)'
  BY <1>5 DEF FlowOK, WireOK, CloseIsLast
<1>14. ProgressOK(s)'
  <2>1. InData(s)' = 0
    BY <1>6, <1>7 DEF InData
  <2>2. Count(s)' = 0
    BY <1>5, <1>10 DEF Count
  <2>3. PICK k \in Nat : k = Len(wire[s])
    BY <1>1, SessionTypes
  <2>4. Handled(s)' = 2 * 0 - k - 0
    BY <1>5, <1>10, <2>1, <2>3, EmptySeq DEF Handled
  <2>5. Handled(s)' <= 0
    BY <2>3, <2>4
  <2>6. QED
    BY <2>2, <2>5 DEF ProgressOK
<1>15. SessionOK(s)'
  BY <1>12, <1>13, <1>14 DEF SessionOK
<1>16. ThreadOK(v)'
  <2>1. HandlerOK(v)'
    BY <1>1, <1>2, <1>3, <1>5, <1>6, <1>7, <1>10 DEF HandlerOK
  <2>2. DataOK(v)'
    BY <1>7 DEF DataOK
  <2>3. QED
    BY <2>1, <2>2 DEF ThreadOK
<1>17. \A w \in Server \ {v} : io'[w] = io[w] /\ io[w].ses # s
  BY <1>3, <1>7, OthersElsewhere
<1>18. fault' \in Faults
  BY <1>5 DEF FlowInv
<1>19. /\ \A q \in Session \ {s} :
             /\ con'[q] = con[q] /\ wire'[q] = wire[q]
             /\ client'[q].sent = client[q].sent /\ log'[q] = log[q]
             /\ q \in cut' <=> q \in cut
             /\ \A w \in Server : srv'[w].sessions[q] = srv[w].sessions[q]
       /\ \A w \in Server : /\ srv'[w].thread = srv[w].thread
                            /\ srv'[w].state = srv[w].state
                            /\ \/ io'[w] = io[w]
                               \/ /\ io[w].ses \in {s, None}
                                  /\ io'[w].ses \in {s, None}
  BY <1>3, <1>5, <1>6, <1>7
<1>20. QED
  BY <1>8, <1>11, <1>15, <1>16, <1>17, <1>18, <1>19, FlowStep

(* Where StartSession finds the upgrade: it is the last of the data.       *)
LEMMA StartFacts ==
    ASSUME FlowInv, FlowOK, NEW v \in Server, StartSession(v)
    PROVE  /\ io[v].step = "start" /\ Len(io[v].data) = 1
           /\ io' = [io EXCEPT ![v] = Idle]
           /\ Head(io[v].data).of \in Agent
           /\ io[v].ses \in Session /\ con[io[v].ses].server = v
           /\ con[io[v].ses].handler = "ws" /\ log[io[v].ses] = <<>>
<1>1. FlowTypes /\ HandlerOK(v)
  BY DEF FlowInv, FlowOK
<1>2. io[v].step = "start" /\ Continue(v, "http")
  BY DEF StartSession, InHandler
<1>3. PICK n \in Nat : /\ n = Len(io[v].data) /\ n >= 1
                       /\ Head(io[v].data) = io[v].data[1]
                       /\ io[v].data[1] \in Part
  BY <1>1, <1>2, DataTypes
<1>4. /\ io[v].data[1].kind = "upgrade"
      /\ \A i \in 1..(n - 1) : io[v].data[i].kind # "upgrade"
      /\ io[v].ses \in Session /\ con[io[v].ses].server = v
      /\ con[io[v].ses].handler = "ws" /\ log[io[v].ses] = <<>>
  BY <1>1, <1>2, <1>3 DEF HandlerOK
<1>5. n = 1
  <2>1. n \in Nat /\ n >= 1
    BY <1>3
  <2>2. 1 \notin 1..(n - 1)
    BY <1>4
  <2>3. QED
    BY <2>1, <2>2
<1>6. io' = [io EXCEPT ![v] = Idle]
  <2>1. Len(io[v].data) = 1
    BY <1>3, <1>5
  <2>2. QED
    BY <1>2, <2>1 DEF Continue
<1>7. Head(io[v].data).of \in Agent
  BY <1>3, <1>4 DEF Part
<1>8. QED
  BY <1>2, <1>3, <1>4, <1>5, <1>6, <1>7

(* A log with one entry more.                                              *)
LEMMA OneMore ==
    ASSUME NEW q \in Seq(0..Misread), NEW e \in 0..Misread
    PROVE  /\ Append(q, e) \in Seq(0..Misread) /\ Append(q, e) # <<>>
           /\ Len(Append(q, e)) = Len(q) + 1
           /\ Append(q, e)[Len(q) + 1] = e
           /\ \A i \in 1..Len(q) : Append(q, e)[i] = q[i]
<1> DEFINE S == 0..Misread
<1>1. q \in Seq(S) /\ e \in S
  OBVIOUS
<1> HIDE DEF S
<1>2. /\ Append(q, e) \in Seq(S)
      /\ Len(Append(q, e)) = Len(q) + 1
      /\ Append(q, e)[Len(q) + 1] = e
      /\ \A i \in 1..Len(q) : Append(q, e)[i] = q[i]
  BY <1>1, AppendProperties
<1>3. Append(q, e) # <<>>
  <2>1. Len(q) \in Nat
    BY <1>1, LenProperties
  <2>2. Len(Append(q, e)) # 0
    BY <1>2, <2>1
  <2>3. QED
    BY <1>2, <2>2, EmptySeq
<1>4. QED
  BY <1>2, <1>3 DEF S

(* The target hears that a session begins.                                 *)
LEMMA FlowStartSession ==
    ASSUME FlowInv, FlowOK, ShareTypes, NEW v \in Server, StartSession(v)
    PROVE  FlowInv'
<1>1. FlowTypes
  BY DEF FlowInv
<1>2. /\ io[v].step = "start" /\ io' = [io EXCEPT ![v] = Idle]
  BY StartFacts
<1>3. PICK s \in Session, a \in Agent :
        /\ s = io[v].ses /\ a = Head(io[v].data).of
        /\ con[s].server = v /\ con[s].handler = "ws" /\ log[s] = <<>>
  BY StartFacts
<1>4. /\ con' = con /\ wire' = wire /\ client' = client /\ sends' = sends
      /\ cut' = cut
  BY DEF StartSession
<1>5. /\ io' \in [Server -> IoRec] /\ io'[v] = Idle
      /\ \A w \in Server \ {v} : io'[w] = io[w]
  BY <1>1, <1>2, IdleRec DEF FlowTypes
<1>6. \A w \in Server : io'[w].step = "idle" <=> io'[w].data = <<>>
  BY <1>1, <1>5, IdleRec DEF FlowTypes
<1>7. \A w \in Server \ {v} : io'[w] = io[w] /\ io[w].ses # s
  BY <1>3, <1>5, OthersElsewhere
<1>8. \A w \in Server : \/ io'[w] = io[w]
                        \/ /\ io[w].ses \in {s, None}
                           /\ io'[w].ses \in {s, None}
  BY <1>3, <1>5, IdleRec
<1>9. CASE srv[v].delegate /\ a \in srv[v].targets
  <2>1. /\ srv' = [srv EXCEPT ![v].sessions[s] = a]
        /\ tags' = [tags EXCEPT ![a] = Append(tags[a], <<s, "connect">>)]
        /\ log' = [log EXCEPT ![s] = Append(log[s], 0)]
        /\ fault' = IF Len(io[v].data) > 1 THEN "freed" ELSE "none"
    BY <1>3, <1>9 DEF StartSession
  <2>2. fault' \in Faults
    <3>1. Len(io[v].data) = 1
      BY StartFacts
    <3>2. QED
      BY <2>1, <3>1 DEF Faults
  <2>3. /\ \A w \in Server : /\ srv'[w].state = srv[w].state
                             /\ srv'[w].thread = srv[w].thread
        /\ \A w \in Server, r \in Session : r # s =>
             srv'[w].sessions[r] = srv[w].sessions[r]
    BY <2>1, StartServers
  <2>4. tags' \in [Agent -> Seq(Session \X {"connect", "disconnect"})]
    <3>1. <<s, "connect">> \in Session \X {"connect", "disconnect"}
      OBVIOUS
    <3>2. tags[a] \in Seq(Session \X {"connect", "disconnect"})
      BY <1>1 DEF FlowTypes
    <3>3. Append(tags[a], <<s, "connect">>)
            \in Seq(Session \X {"connect", "disconnect"})
      BY <3>1, <3>2, AppendProperties
    <3>4. QED
      BY <1>1, <2>1, <3>3 DEF FlowTypes
  <2>5. /\ log[s] \in Seq(0..Misread) /\ 0 \in 0..Misread /\ Len(log[s]) = 0
    BY <1>1, <1>3, SessionTypes, BoundAssumption DEF Misread
  <2>6. /\ Append(log[s], 0) \in Seq(0..Misread)
        /\ Append(log[s], 0) # <<>> /\ Len(Append(log[s], 0)) = 1
        /\ Append(log[s], 0)[1] = 0
    <3>1. /\ Append(log[s], 0) \in Seq(0..Misread)
          /\ Append(log[s], 0) # <<>>
          /\ Len(Append(log[s], 0)) = Len(log[s]) + 1
          /\ Append(log[s], 0)[Len(log[s]) + 1] = 0
      BY <2>5, OneMore
    <3>2. Len(log[s]) + 1 = 1
      BY <2>5
    <3>3. QED
      BY <3>1, <3>2
  <2>7. /\ log' \in [Session -> Seq(0..Misread)]
        /\ log'[s] # <<>> /\ Len(log'[s]) = 1 /\ log'[s][1] = 0
        /\ \A q \in Session \ {s} : log'[q] = log[q]
    BY <1>1, <2>1, <2>6 DEF FlowTypes
  <2>8. FlowTypes'
    BY <1>1, <1>4, <1>5, <1>6, <2>4, <2>7 DEF FlowTypes
  <2>9. OrderOK(s)'
    BY <2>7 DEF OrderOK
  <2>10. ConOK(s)'
    <3>1. ConOK(s)
      BY DEF FlowOK
    <3>2. QED
      BY <1>3, <1>4, <2>7, <3>1, NoneIsNone DEF ConOK
  <2>11. BracketOK(s)'
    BY <1>3, <1>4, <2>7 DEF BracketOK
  <2>12. WireOK(s)' /\ CloseIsLast(s)'
    BY <1>4 DEF FlowOK, WireOK, CloseIsLast
  <2>13. ProgressOK(s)'
    <3>1. InData(s) = 0 /\ InData(s)' = 0
      BY <1>2, <1>3, <1>4, <1>5, IdleRec DEF InData
    <3>2. Handled(s)' = Handled(s)
      BY <1>4, <3>1 DEF Handled
    <3>3. Count(s) = 0 /\ Count(s)' = 0
      BY <1>3, <2>7 DEF Count
    <3>4. ProgressOK(s)
      BY DEF FlowOK
    <3>5. QED
      BY <1>4, <3>2, <3>3, <3>4 DEF ProgressOK
  <2>14. SessionOK(s)'
    BY <2>10, <2>11, <2>12, <2>13 DEF SessionOK
  <2>15. ThreadOK(v)'
    BY <1>5, IdleRec DEF ThreadOK, HandlerOK, DataOK
  <2>16. \A q \in Session \ {s} :
           /\ con'[q] = con[q] /\ wire'[q] = wire[q]
           /\ client'[q].sent = client[q].sent /\ log'[q] = log[q]
           /\ q \in cut' <=> q \in cut
           /\ \A w \in Server : srv'[w].sessions[q] = srv[w].sessions[q]
    BY <1>4, <2>3, <2>7
  <2>17. QED
    BY <1>7, <1>8, <2>2, <2>3, <2>8, <2>9, <2>14, <2>15, <2>16, FlowStep
<1>10. CASE ~(srv[v].delegate /\ a \in srv[v].targets)
  <2>1. /\ srv' = srv /\ tags' = tags /\ log' = log
        /\ fault' \in {"target", "delegate"}
    BY <1>3, <1>10 DEF StartSession
  <2>2. fault' \in Faults /\ ~Running'
    BY <2>1 DEF Faults, Running
  <2>3. FlowTypes'
    BY <1>1, <1>4, <1>5, <1>6, <2>1 DEF FlowTypes
  <2>4. \A q \in Session : OrderOK(q)'
    BY <1>4, <2>1 DEF FlowInv, OrderOK
  <2>5. QED
    BY <2>2, <2>3, <2>4 DEF FlowInv
<1>11. QED
  BY <1>9, <1>10


(* Where the WebSocket handler is.                                         *)
LEMMA WsFacts ==
    ASSUME FlowInv, FlowOK, NEW v \in Server, io[v].step = "ws"
    PROVE  \E s \in Session :
             /\ s = io[v].ses /\ con[s].server = v /\ con[s].handler = "ws"
             /\ con[s].first # None /\ srv[v].thread = "run"
             /\ InData(s) = Len(io[v].data)
<1>1. HandlerOK(v)
  BY DEF FlowOK
<1>2. PICK s \in Session : /\ s = io[v].ses /\ con[s].server = v
                           /\ con[s].handler = "ws" /\ srv[v].thread = "run"
  BY <1>1 DEF HandlerOK
<1>3. con[s].first # None
  BY <1>2 DEF FlowOK, ConOK
<1>4. InData(s) = Len(io[v].data)
  BY <1>2, NoneIsNone DEF InData
<1>5. QED
  BY <1>2, <1>3, <1>4

(* Where the first half of the data is among the halves that were sent.    *)
LEMMA FirstHalf ==
    ASSUME FlowInv, FlowOK, NEW v \in Server, io[v].step = "ws",
           NEW s \in Session, s = io[v].ses
    PROVE  \E R \in Int : R = Handled(s) /\ PartAt(io[v].data[1], 1 + R)
<1>1. FlowTypes /\ DataOK(v)
  BY DEF FlowInv, FlowOK
<1>2. PICK n \in Nat : n = Len(io[v].data) /\ n >= 1
  BY <1>1, DataTypes
<1>3. PICK k \in Nat, N \in Nat : k = Len(wire[s]) /\ N = Len(client[s].sent)
  BY <1>1, SessionTypes
<1>4. InData(s) = n
  BY <1>2, WsFacts
<1>5. Handled(s) = 2 * N - k - n
  BY <1>3, <1>4 DEF Handled
<1>6. PartAt(io[v].data[1], 1 + 2 * N - k - n)
  <2>1. 1 \in 1..n
    BY <1>2
  <2>2. QED
    BY <1>1, <1>2, <1>3, <2>1 DEF DataOK
<1>7. 1 + 2 * N - k - n = 1 + (2 * N - k - n) /\ 2 * N - k - n \in Int
  BY <1>2, <1>3
<1>8. PartAt(io[v].data[1], 1 + (2 * N - k - n))
  BY <1>6, <1>7
<1>9. QED
  BY <1>5, <1>7, <1>8

(* The frame that is complete is the next of those that were sent.         *)
LEMMA FrameAt ==
    ASSUME FlowInv, FlowOK, NEW v \in Server, io[v].step = "ws",
           NEW s \in Session, s = io[v].ses, Complete(io[v].data)
    PROVE  \E N, f, c, n, k \in Nat :
             /\ N = Len(client[s].sent) /\ f \in 1..N
             /\ f = io[v].data[1].of /\ c = Count(s)
             /\ n = Len(io[v].data) /\ n >= 2 /\ k = Len(wire[s])
             /\ FrameKind(v) = client[s].sent[f] /\ f \in 1..(2 * MaxSent)
             /\ 2 * N - k - n = 2 * f - 2
             /\ s \notin cut => f = c + 1
<1>1. FlowTypes
  BY DEF FlowInv
<1>2. PICK n \in Nat : n = Len(io[v].data) /\ n >= 2
                       /\ io[v].data[1].kind = "head"
  BY <1>1, DataTypes DEF Complete
<1>3. PICK k \in Nat, N \in Nat : k = Len(wire[s]) /\ N = Len(client[s].sent)
  BY <1>1, SessionTypes
<1>4. InData(s) = n
  BY <1>2, WsFacts
<1>5. PICK R \in Int : R = Handled(s) /\ PartAt(io[v].data[1], 1 + R)
  BY FirstHalf
<1>6. R = 2 * N - k - n
  BY <1>3, <1>4, <1>5 DEF Handled
<1>7. PICK f \in Nat : f = io[v].data[1].of
  BY <1>1, DataTypes DEF Part
<1>8. 1 + R > 0 /\ 1 + R = 2 * f - 1
  <2>1. ~(1 + R <= 0)
    BY <1>2, <1>5 DEF PartAt, Requests
  <2>2. 1 + R = 2 * f - 1
    BY <1>2, <1>5, <1>7, <2>1 DEF PartAt
  <2>3. 1 + R \in Int
    BY <1>5
  <2>4. QED
    BY <2>1, <2>2, <2>3
<1>9. f >= 1 /\ f <= N /\ 2 * N - k - n = 2 * f - 2
  <2>1. n >= 2
    BY <1>2
  <2>2. QED
    BY <1>6, <1>8, <2>1
<1>10. f \in 1..N
  BY <1>9
<1>11. f \in 1..(2 * MaxSent)
  <2>1. PICK t \in 0..MaxSent : N <= 2 * t
    BY <1>1, <1>3 DEF FlowTypes
  <2>2. MaxSent \in Nat
    BY BoundAssumption
  <2>3. QED
    BY <1>9, <2>1, <2>2
<1>12. PICK c \in Nat : c = Count(s)
  <2>1. /\ Len(log[s]) \in Nat /\ (log[s] = <<>> <=> Len(log[s]) = 0)
    BY <1>1, SessionTypes
  <2>2. CASE log[s] = <<>>
    BY <2>2 DEF Count
  <2>3. CASE log[s] # <<>>
    <3>1. Count(s) = Len(log[s]) - 1
      BY <2>3 DEF Count
    <3>2. PICK l \in Nat : l = Len(log[s]) /\ l # 0
      BY <2>1, <2>3
    <3>3. l - 1 \in Nat
      BY <3>2
    <3>4. QED
      BY <3>1, <3>2, <3>3
  <2>4. QED
    BY <2>2, <2>3
<1>13. s \notin cut => f = c + 1
  <2>1. SUFFICES ASSUME s \notin cut PROVE f = c + 1
    OBVIOUS
  <2>2. con[s].handler = "ws"
    BY WsFacts
  <2>3. \/ R <= 0 /\ c = 0
        \/ R = 2 * c
        \/ R = 2 * c + 2 /\ N = c + 1
    BY <1>3, <1>5, <1>12, <2>1, <2>2 DEF FlowOK, ProgressOK
  <2>4. QED
    BY <1>8, <1>9, <2>3
<1>14. FrameKind(v) = client[s].sent[f]
  <2>1. Head(io[v].data) = io[v].data[1]
    BY <1>1, DataTypes
  <2>2. Head(io[v].data).of = f
    BY <1>7, <2>1
  <2>3. QED
    BY <2>2 DEF FrameKind
<1>15. /\ N = Len(client[s].sent) /\ f \in 1..N
       /\ f = io[v].data[1].of /\ c = Count(s)
       /\ n = Len(io[v].data) /\ n >= 2 /\ k = Len(wire[s])
       /\ FrameKind(v) = client[s].sent[f] /\ f \in 1..(2 * MaxSent)
       /\ 2 * N - k - n = 2 * f - 2
       /\ s \notin cut => f = c + 1
  BY <1>2, <1>3, <1>7, <1>9, <1>10, <1>11, <1>12, <1>13, <1>14
<1>16. QED
  BY <1>15, <1>2, <1>3, <1>7, <1>12, Zenon

(* Only a connection of which a read ended within a frame is misread.      *)
LEMMA TailIsCut ==
    ASSUME FlowInv, FlowOK, NEW v \in Server, io[v].step = "ws",
           NEW s \in Session, s = io[v].ses, io[v].data[1].kind = "tail"
    PROVE  s \in cut
<1>1. FlowTypes
  BY DEF FlowInv
<1>2. PICK R \in Int : R = Handled(s) /\ PartAt(io[v].data[1], 1 + R)
  BY FirstHalf
<1>3. PICK f \in Nat : f = io[v].data[1].of
  BY <1>1, DataTypes DEF Part
<1>4. ~(1 + R <= 0)
  BY <1>2 DEF PartAt, Requests
<1>5. 1 + R = 2 * f
  BY <1>2, <1>3, <1>4 DEF PartAt
<1>6. SUFFICES ASSUME s \notin cut PROVE FALSE
  OBVIOUS
<1>7. con[s].handler = "ws"
  BY WsFacts
<1>8. PICK c \in Int : c = Count(s)
  <2>1. Len(log[s]) \in Nat
    BY <1>1, SessionTypes
  <2>2. QED
    BY <2>1 DEF Count
<1>9. R <= 0 \/ R = 2 * c \/ R = 2 * c + 2
  BY <1>2, <1>6, <1>7, <1>8 DEF FlowOK, ProgressOK
<1>10. QED
  BY <1>2, <1>3, <1>4, <1>5, <1>8, <1>9

(* A step of the WebSocket handler that keeps the connection.              *)
LEMMA FlowWs ==
    ASSUME FlowInv, FlowOK, NEW v \in Server, io[v].step = "ws",
           NEW s \in Session, s = io[v].ses,
           NEW x \in IoRec, io' = [io EXCEPT ![v] = x],
           NEW j \in 1..2,
           \/ x = Idle
           \/ /\ x.step = "ws" /\ x.ses = s /\ x.data # <<>>
              /\ Len(x.data) = Len(io[v].data) - j
              /\ \A i \in 1..Len(x.data) : x.data[i] = io[v].data[i + j],
           UNCHANGED <<srv, tags, con, wire, client, sends>>,
           cut' \in SUBSET Session,
           \A q \in Session \ {s} : q \in cut' <=> q \in cut,
           NEW m \in 1..Misread,
           \/ log' = log
           \/ log[s] # <<>> /\ log' = [log EXCEPT ![s] = Append(log[s], m)],
           fault' \in Faults, OrderOK(s)', Running' => ProgressOK(s)'
    PROVE  FlowInv'
<1>1. FlowTypes
  BY DEF FlowInv
<1>2. /\ con[s].server = v /\ con[s].handler = "ws" /\ con[s].first # None
      /\ srv[v].thread = "run"
  BY WsFacts
<1>3. /\ io' \in [Server -> IoRec] /\ io'[v] = x
      /\ \A w \in Server \ {v} : io'[w] = io[w]
  BY <1>1 DEF FlowTypes
<1>4. \A w \in Server : io'[w].step = "idle" <=> io'[w].data = <<>>
  BY <1>1, <1>3, IdleRec DEF FlowTypes
<1>5. log[s] \in Seq(0..Misread) /\ m \in 0..Misread /\ m # 0
  <2>1. m \in 0..Misread /\ m # 0
    BY BoundAssumption DEF Misread
  <2>2. QED
    BY <1>1, <2>1, SessionTypes
<1>6. /\ log' \in [Session -> Seq(0..Misread)]
      /\ \A q \in Session \ {s} : log'[q] = log[q]
      /\ \/ log'[s] = log[s]
         \/ log[s] # <<>> /\ log'[s] = Append(log[s], m)
  <2>1. Append(log[s], m) \in Seq(0..Misread)
    BY <1>5, OneMore
  <2>2. log \in [Session -> Seq(0..Misread)]
    BY <1>1 DEF FlowTypes
  <2> DEFINE S == Seq(0..Misread)
             l == Append(log[s], m)
  <2>3. log \in [Session -> S] /\ l \in S
    BY <2>1, <2>2
  <2>4. log' = log \/ (log[s] # <<>> /\ log' = [log EXCEPT ![s] = l])
    OBVIOUS
  <2> HIDE DEF S, l
  <2>5. /\ log' \in [Session -> S]
        /\ \A q \in Session \ {s} : log'[q] = log[q]
        /\ log'[s] = log[s] \/ (log[s] # <<>> /\ log'[s] = l)
    BY <2>3, <2>4
  <2>6. QED
    BY <2>5 DEF S, l
<1>7. FlowTypes'
  BY <1>1, <1>3, <1>4, <1>6 DEF FlowTypes
<1>8. ConOK(s)'
  <2>1. ConOK(s)
    BY DEF FlowOK
  <2>2. log[s] # <<>> => log'[s] # <<>>
    BY <1>5, <1>6, OneMore
  <2>3. QED
    BY <1>2, <2>1, <2>2, NoneIsNone DEF ConOK
<1>9. BracketOK(s)'
  <2>1. BracketOK(s)
    BY DEF FlowOK
  <2>2. CASE log'[s] = log[s]
    BY <2>1, <2>2 DEF BracketOK
  <2>3. CASE log[s] # <<>> /\ log'[s] = Append(log[s], m)
    <3>1. PICK l \in Nat : l = Len(log[s])
      BY <1>1, SessionTypes
    <3>2. /\ Len(log'[s]) = l + 1 /\ log'[s][l + 1] = m
          /\ \A i \in 1..l : log'[s][i] = log[s][i]
      BY <1>5, <2>3, <3>1, OneMore
    <3>3. \A i \in 2..l : log[s][i] # 0
      BY <1>2, <2>1, <2>3, <3>1 DEF BracketOK
    <3>4. \A i \in 2..(l + 1) : log'[s][i] # 0
      <4>1. ASSUME NEW i \in 2..(l + 1) PROVE log'[s][i] # 0
        <5>1. (i \in 2..l /\ i \in 1..l) \/ i = l + 1
          BY <3>1
        <5>2. QED
          BY <1>5, <3>2, <3>3, <5>1
      <4>2. QED
        BY <4>1
    <3>5. \A i \in 2..(l + 1 - 1) : i \in 2..(l + 1)
      BY <3>1
    <3>6. QED
      BY <1>2, <3>2, <3>4, <3>5 DEF BracketOK
  <2>4. QED
    BY <1>6, <2>2, <2>3
<1>10. WireOK(s)' /\ CloseIsLast(s)'
  BY DEF FlowOK, WireOK, CloseIsLast
<1>11. Running' => SessionOK(s)'
  BY <1>8, <1>9, <1>10 DEF SessionOK
<1>12. ThreadOK(v)'
  <2>1. CASE x = Idle
    BY <1>3, <2>1, IdleRec DEF ThreadOK, HandlerOK, DataOK
  <2>2. CASE /\ x.step = "ws" /\ x.ses = s /\ x.data # <<>>
             /\ Len(x.data) = Len(io[v].data) - j
             /\ \A i \in 1..Len(x.data) : x.data[i] = io[v].data[i + j]
    <3>1. HandlerOK(v)'
      BY <1>2, <1>3, <2>2 DEF HandlerOK
    <3>2. PICK n \in Nat : n = Len(io[v].data)
      BY <1>1, DataTypes
    <3>3. PICK k \in Nat, N \in Nat :
            k = Len(wire[s]) /\ N = Len(client[s].sent)
      BY <1>1, SessionTypes
    <3>4. \A i \in 1..n : PartAt(io[v].data[i], i + 2 * N - k - n)
      BY <3>2, <3>3 DEF FlowOK, DataOK
    <3>5. ASSUME NEW i \in 1..(n - j)
          PROVE  PartAt(x.data[i], i + 2 * N - k - (n - j))
      <4>1. /\ i + j \in 1..n
            /\ (i + j) + 2 * N - k - n = i + 2 * N - k - (n - j)
        <5>1. /\ n \in Nat /\ k \in Nat /\ N \in Nat /\ j \in 1..2
              /\ i \in 1..(n - j)
          BY <3>2, <3>3, <3>5
        <5>2. i + j \in 1..n
          BY <5>1
        <5>3. (i + j) + 2 * N - k - n = i + 2 * N - k - (n - j)
          BY <5>1
        <5>4. QED
          BY <5>2, <5>3
      <4>2. x.data[i] = io[v].data[i + j]
        BY <2>2, <3>2
      <4>3. PartAt(io[v].data[i + j], i + 2 * N - k - (n - j))
        BY <3>4, <4>1
      <4>4. QED
        BY <4>2, <4>3
    <3>6. DataOK(v)'
      BY <1>3, <2>2, <3>2, <3>3, <3>5 DEF DataOK
    <3>7. QED
      BY <3>1, <3>6 DEF ThreadOK
  <2>3. QED
    BY <2>1, <2>2
<1>13. \A w \in Server \ {v} : io'[w] = io[w] /\ io[w].ses # s
  BY <1>2, <1>3, OthersElsewhere
<1>14. /\ \A q \in Session \ {s} :
             /\ con'[q] = con[q] /\ wire'[q] = wire[q]
             /\ client'[q].sent = client[q].sent /\ log'[q] = log[q]
             /\ q \in cut' <=> q \in cut
             /\ \A w \in Server : srv'[w].sessions[q] = srv[w].sessions[q]
       /\ \A w \in Server : /\ srv'[w].thread = srv[w].thread
                            /\ srv'[w].state = srv[w].state
                            /\ \/ io'[w] = io[w]
                               \/ /\ io[w].ses \in {s, None}
                                  /\ io'[w].ses \in {s, None}
  BY <1>3, <1>6, IdleRec
<1>15. QED
  BY <1>7, <1>11, <1>12, <1>13, <1>14, FlowStep

(* A message is told if the session has its target, and the log of such a  *)
(* session has begun.                                                      *)
LEMMA DeliverIs ==
    ASSUME FlowOK, ShareTypes, NEW v \in Server, NEW s \in Session,
           s = io[v].ses, NEW m, Deliver(v, m)
    PROVE  /\ fault' \in Faults
           /\ \/ log' = log /\ ~Running'
              \/ /\ log[s] # <<>>
                 /\ log' = [log EXCEPT ![s] = Append(log[s], m)]
<1>1. fault' = PostFault(v, s)
  BY DEF Deliver
<1>2. fault' \in Faults
  BY <1>1, PostFaultIs
<1>3. CASE fault' = "none"
  <2>1. srv[v].sessions[s] # None
    BY <1>1, <1>3, PostFaultIs, NoneIsNone
  <2>2. log[s] # <<>>
    BY <2>1 DEF FlowOK, ConOK
  <2>3. log' = [log EXCEPT ![s] = Append(log[s], m)]
    BY <1>3 DEF Deliver
  <2>4. QED
    BY <1>2, <2>2, <2>3
<1>4. CASE fault' # "none"
  BY <1>2, <1>4 DEF Deliver, Running
<1>5. QED
  BY <1>3, <1>4

(* A frame is told, and the loop goes on after it.                         *)
LEMMA FlowOnWsFrame ==
    ASSUME FlowInv, FlowOK, ShareTypes, NEW v \in Server, OnWsFrame(v)
    PROVE  FlowInv'
<1>1. /\ io[v].step = "ws" /\ Complete(io[v].data) /\ FrameKind(v) = "text"
      /\ Deliver(v, io[v].data[1].of) /\ Rest(v, AfterFrame(io[v].data))
      /\ UNCHANGED <<srv, tags, con, wire, client, sends>> /\ cut' = cut
  BY DEF OnWsFrame, InHandler
<1>2. FlowTypes
  BY DEF FlowInv
<1>3. PICK s \in Session : /\ s = io[v].ses /\ con[s].server = v
                           /\ InData(s) = Len(io[v].data)
  BY <1>1, WsFacts
<1>4. PICK N, f, c, n, k \in Nat :
        /\ N = Len(client[s].sent) /\ f \in 1..N
        /\ f = io[v].data[1].of /\ c = Count(s)
        /\ n = Len(io[v].data) /\ n >= 2 /\ k = Len(wire[s])
        /\ FrameKind(v) = client[s].sent[f] /\ f \in 1..(2 * MaxSent)
        /\ 2 * N - k - n = 2 * f - 2
        /\ s \notin cut => f = c + 1
  BY <1>1, <1>3, FrameAt
<1>5. /\ N \in Nat /\ f \in 1..N /\ f \in Nat /\ c \in Nat /\ n \in Nat
      /\ k \in Nat /\ n >= 2 /\ 2 * N - k - n = 2 * f - 2
      /\ s \notin cut => f = c + 1
  BY <1>4
<1>6. f \in 1..Misread
  <2>1. f \in 1..(2 * MaxSent) /\ MaxSent \in Nat
    BY <1>4, BoundAssumption
  <2>2. QED
    BY <2>1 DEF Misread
<1>7. /\ fault' \in Faults
      /\ \/ log' = log /\ ~Running'
         \/ /\ log[s] # <<>>
            /\ log' = [log EXCEPT ![s] = Append(log[s], f)]
  BY <1>1, <1>3, <1>4, <1>5, DeliverIs
<1>8. PICK x \in IoRec :
        /\ io' = [io EXCEPT ![v] = x]
        /\ \/ x = Idle /\ n = 2
           \/ /\ x.step = "ws" /\ x.ses = s /\ x.data # <<>>
              /\ Len(x.data) = n - 2
              /\ \A i \in 1..Len(x.data) : x.data[i] = io[v].data[i + 2]
  <2> DEFINE d == AfterFrame(io[v].data)
  <2>1. io[v] \in IoRec /\ io[v].data \in Seq(Part)
    BY <1>1, <1>2, DataTypes
  <2>2. 2 \in 0..Len(io[v].data)
    BY <1>4, <1>5
  <2>3. d = SubSeq(io[v].data, 2 + 1, Len(io[v].data))
    BY DEF AfterFrame
  <2>4. /\ d \in Seq(Part) /\ Len(d) = n - 2
        /\ \A i \in 1..(n - 2) : d[i] = io[v].data[2 + i]
    BY <1>4, <1>5, <2>1, <2>2, <2>3, Cut
  <2>5. io' = [io EXCEPT ![v] = IF d = <<>> THEN Idle
                                ELSE [io[v] EXCEPT !.data = d]]
    BY <1>1 DEF Rest
  <2> HIDE DEF d
  <2>6. CASE d = <<>>
    <3>1. n = 2
      <4>1. n - 2 = 0
        BY <2>4, <2>6, EmptySeq
      <4>2. QED
        BY <1>4, <1>5, <4>1
    <3>2. QED
      BY <2>5, <2>6, <3>1, IdleRec
  <2>7. CASE d # <<>>
    <3> DEFINE y == [io[v] EXCEPT !.data = d]
    <3>1. /\ y \in IoRec /\ y.step = "ws" /\ y.ses = s /\ y.data = d
      BY <1>1, <1>3, <2>1, <2>4 DEF IoRec
    <3>2. io' = [io EXCEPT ![v] = y]
      BY <2>5, <2>7
    <3> HIDE DEF y
    <3>3. \A i \in 1..(n - 2) : 2 + i = i + 2
      BY <1>5
    <3>4. /\ Len(y.data) = n - 2 /\ y.data # <<>>
          /\ \A i \in 1..Len(y.data) : y.data[i] = io[v].data[i + 2]
      BY <2>4, <2>7, <3>1, <3>3
    <3>5. QED
      BY <3>1, <3>2, <3>4
  <2>8. QED
    BY <2>6, <2>7
<1>9. \/ x = Idle
       \/ /\ x.step = "ws" /\ x.ses = s /\ x.data # <<>>
          /\ Len(x.data) = Len(io[v].data) - 2
          /\ \A i \in 1..Len(x.data) : x.data[i] = io[v].data[i + 2]
  BY <1>4, <1>8
<1>10. io' = [io EXCEPT ![v] = x] /\ x \in IoRec
  BY <1>8
<1>11. fault' \in Faults
  BY <1>7
<1>12. CASE log' = log /\ ~Running'
  <2>1. OrderOK(s)'
    BY <1>1, <1>12 DEF FlowInv, OrderOK
  <2>2. cut' \in SUBSET Session
    BY <1>1, <1>2 DEF FlowTypes
  <2>3. 2 \in 1..2
    OBVIOUS
  <2>4. QED
    BY <1>1, <1>3, <1>6, <1>12, <1>9, <1>10, <1>11, <2>1, <2>2, <2>3,
       FlowWs
<1>13. CASE /\ log[s] # <<>>
            /\ log' = [log EXCEPT ![s] = Append(log[s], f)]
  <2>1. PICK l \in Nat : l = Len(log[s]) /\ l >= 1
    BY <1>2, <1>13, SessionTypes
  <2>2. f \in 0..Misread /\ f # 0
    BY <1>6
  <2>3. /\ Len(log'[s]) = l + 1 /\ log'[s][l + 1] = f /\ log'[s] # <<>>
        /\ \A i \in 1..l : log'[s][i] = log[s][i]
    <3>1. log[s] \in Seq(0..Misread) /\ log'[s] = Append(log[s], f)
      BY <1>2, <1>13 DEF FlowTypes
    <3>2. QED
      BY <2>1, <2>2, <3>1, OneMore
  <2>4. c = l - 1
    BY <1>4, <1>5, <1>13, <2>1 DEF Count
  <2>5. Count(s)' = l
    <3>1. Count(s)' = l + 1 - 1
      BY <2>3 DEF Count
    <3>2. QED
      BY <2>1, <3>1
  <2>6. OrderOK(s)'
    <3>1. OrderOK(s)
      BY DEF FlowInv
    <3>2. log'[s][1] = 0
      <4>1. 1 \in 1..l
        BY <2>1
      <4>2. QED
        BY <1>13, <2>3, <3>1, <4>1 DEF OrderOK
    <3>3. ASSUME s \notin cut, NEW i \in 2..(l + 1), log'[s][i] # 0
          PROVE  /\ log'[s][i] = i - 1 /\ i - 1 \in 1..N
                 /\ client[s].sent[i - 1] = "text"
      <4>1. CASE i = l + 1
        <5>1. f = l /\ i - 1 = l
          <6>1. f = c + 1
            BY <1>4, <1>5, <3>3
          <6>2. QED
            BY <2>1, <2>4, <4>1, <6>1
        <5>2. QED
          BY <1>1, <1>4, <1>5, <2>3, <4>1, <5>1
      <4>2. CASE i # l + 1
        <5>1. i \in 2..l /\ i \in 1..l
          BY <2>1, <4>2
        <5>2. log'[s][i] = log[s][i]
          BY <2>3, <5>1
        <5>3. QED
          BY <1>4, <2>1, <3>1, <3>3, <5>1, <5>2 DEF OrderOK
      <4>3. QED
        BY <4>1, <4>2
    <3>4. QED
      BY <1>1, <1>4, <2>3, <3>2, <3>3 DEF OrderOK
  <2>7. ProgressOK(s)'
    <3>1. SUFFICES ASSUME s \notin cut PROVE Handled(s)' = 2 * Count(s)'
      BY <1>1 DEF ProgressOK
    <3>2. PICK e \in Nat : e = InData(s)' /\ e = n - 2
      <4>1. io'[v] = x
        BY <1>2, <1>8 DEF FlowTypes
      <4>2. con'[s].server = v /\ v # None
        BY <1>1, <1>3, NoneIsNone
      <4>3. CASE x = Idle /\ n = 2
        BY <1>4, <1>5, <4>1, <4>2, <4>3, IdleRec DEF InData
      <4>4. CASE /\ x.step = "ws" /\ x.ses = s /\ x.data # <<>>
                 /\ Len(x.data) = n - 2
        <5>1. InData(s)' = n - 2
          BY <4>1, <4>2, <4>4 DEF InData
        <5>2. n \in Nat /\ n >= 2
          BY <1>4, <1>5
        <5>3. n - 2 \in Nat
          BY <5>2
        <5>4. QED
          BY <5>1, <5>3
      <4>5. QED
        BY <1>8, <4>3, <4>4
    <3>3. Handled(s)' = 2 * N - k - e
      BY <1>1, <1>4, <1>5, <3>2 DEF Handled
    <3>4. f = l
      <4>1. f = c + 1
        BY <1>4, <1>5, <3>1
      <4>2. QED
        BY <2>1, <2>4, <4>1
    <3>5. 2 * N - k - e = 2 * l
      <4>1. /\ 2 * N - k - n = 2 * f - 2 /\ e = n - 2 /\ f = l
            /\ N \in Nat /\ k \in Nat /\ n \in Nat /\ f \in Nat
            /\ e \in Nat /\ l \in Nat
        BY <1>5, <2>1, <3>2, <3>4
      <4>2. QED
        BY <4>1
    <3>6. QED
      BY <2>5, <3>3, <3>5
  <2>8. cut' \in SUBSET Session
    BY <1>1, <1>2 DEF FlowTypes
  <2>9. 2 \in 1..2
    OBVIOUS
  <2>10. QED
    BY <1>1, <1>3, <1>6, <1>13, <1>9, <1>10, <1>11, <2>6, <2>7, <2>8, <2>9,
       FlowWs
<1>14. QED
  BY <1>7, <1>12, <1>13

(* A close frame is the last.                                              *)
LEMMA FlowCloseFrame ==
    ASSUME FlowInv, FlowOK, NEW v \in Server, CloseFrameReceived(v)
    PROVE  FlowInv'
<1>1. /\ io[v].step = "ws" /\ Complete(io[v].data) /\ FrameKind(v) = "close"
      /\ io' = [io EXCEPT ![v] = Idle]
      /\ UNCHANGED <<srv, tags, con, wire, client, sends>>
      /\ log' = log /\ cut' = cut /\ fault' = fault
  BY DEF CloseFrameReceived, InHandler, conVars
<1>2. FlowTypes /\ fault' \in Faults /\ cut' \in SUBSET Session
  BY <1>1 DEF FlowInv, FlowTypes
<1>3. PICK s \in Session : s = io[v].ses /\ con[s].server = v
  BY <1>1, WsFacts
<1>4. PICK N, f, c, n, k \in Nat :
        /\ N = Len(client[s].sent) /\ f \in 1..N
        /\ f = io[v].data[1].of /\ c = Count(s)
        /\ n = Len(io[v].data) /\ n >= 2 /\ k = Len(wire[s])
        /\ FrameKind(v) = client[s].sent[f] /\ f \in 1..(2 * MaxSent)
        /\ 2 * N - k - n = 2 * f - 2
        /\ s \notin cut => f = c + 1
  BY <1>1, <1>3, FrameAt
<1>5. /\ N \in Nat /\ f \in 1..N /\ f \in Nat /\ c \in Nat /\ n \in Nat
      /\ k \in Nat /\ n >= 2 /\ 2 * N - k - n = 2 * f - 2
      /\ s \notin cut => f = c + 1
  BY <1>4
<1>6. OrderOK(s)'
  BY <1>1 DEF FlowInv, OrderOK
<1>7. ProgressOK(s)'
  <2>1. SUFFICES ASSUME s \notin cut
                 PROVE  /\ Handled(s)' = 2 * Count(s)' + 2
                        /\ Len(client[s].sent) = Count(s)' + 1
                        /\ client[s].sent[Len(client[s].sent)] = "close"
    BY <1>1 DEF ProgressOK
  <2>2. f = N /\ client[s].sent[N] = "close"
    BY <1>1, <1>4, <1>5 DEF FlowOK, CloseIsLast
  <2>3. Count(s)' = c
    BY <1>1, <1>4, <1>5 DEF Count
  <2>4. io'[v] = Idle
    BY <1>1, <1>2 DEF FlowTypes
  <2>5. InData(s)' = 0
    BY <1>1, <1>3, <2>4, IdleRec DEF InData
  <2>6. Handled(s)' = 2 * N - k - 0
    BY <1>1, <1>4, <1>5, <2>5 DEF Handled
  <2>7. N = c + 1 /\ 2 * N - k - 0 = 2 * c + 2
    <3>1. /\ 2 * N - k - n = 2 * f - 2 /\ f = N /\ f = c + 1
          /\ n \in Nat /\ n >= 2 /\ k \in Nat /\ c \in Nat /\ N \in Nat
      BY <1>4, <1>5, <2>1, <2>2
    <3>2. QED
      BY <3>1
  <2>8. QED
    BY <1>4, <2>2, <2>3, <2>6, <2>7
<1>8. 1 \in 1..Misread /\ 1 \in 1..2
  BY BoundAssumption DEF Misread
<1>9. QED
  BY <1>1, <1>2, <1>3, <1>6, <1>7, <1>8, IdleRec, FlowWs

(* What there is of a frame is dropped.                                    *)
LEMMA FlowFrameIncomplete ==
    ASSUME FlowInv, FlowOK, NEW v \in Server, FrameIncomplete(v)
    PROVE  FlowInv'
<1>1. /\ io[v].step = "ws" /\ cut' = cut \cup {io[v].ses}
      /\ fault' \in {"none", "overrun"} /\ io' = [io EXCEPT ![v] = Idle]
      /\ UNCHANGED <<srv, tags, con, wire, client, sends>> /\ log' = log
  BY DEF FrameIncomplete, InHandler
<1>2. PICK s \in Session : s = io[v].ses
  BY <1>1, WsFacts
<1>3. /\ cut' \in SUBSET Session /\ s \in cut'
      /\ \A q \in Session \ {s} : q \in cut' <=> q \in cut
  BY <1>1, <1>2 DEF FlowInv, FlowTypes
<1>4. fault' \in Faults
  BY <1>1 DEF Faults
<1>5. OrderOK(s)'
  BY <1>1, <1>3 DEF FlowInv, OrderOK
<1>6. ProgressOK(s)'
  BY <1>3 DEF ProgressOK
<1>7. 1 \in 1..Misread /\ 1 \in 1..2
  BY BoundAssumption DEF Misread
<1>8. QED
  BY <1>1, <1>2, <1>3, <1>4, <1>5, <1>6, <1>7, IdleRec, FlowWs

(* What comes after a cut is taken for a frame.                            *)
LEMMA FlowFrameMisread ==
    ASSUME FlowInv, FlowOK, ShareTypes, NEW v \in Server, FrameMisread(v)
    PROVE  FlowInv'
<1>1. /\ io[v].step = "ws" /\ Head(io[v].data).kind = "tail"
      /\ Deliver(v, Misread) /\ Continue(v, "ws")
      /\ UNCHANGED <<srv, tags, con, wire, client, sends>> /\ cut' = cut
  BY DEF FrameMisread, InHandler
<1>2. FlowTypes
  BY DEF FlowInv
<1>3. PICK s \in Session : s = io[v].ses
  BY <1>1, WsFacts
<1>4. io[v].data[1].kind = "tail"
  BY <1>1, <1>2, DataTypes
<1>5. s \in cut
  BY <1>1, <1>3, <1>4, TailIsCut
<1>6. Misread \in 1..Misread /\ Misread \in 0..Misread /\ 1 \in 1..2
  BY BoundAssumption DEF Misread
<1>7. /\ fault' \in Faults
      /\ \/ log' = log /\ ~Running'
         \/ /\ log[s] # <<>>
            /\ log' = [log EXCEPT ![s] = Append(log[s], Misread)]
  BY <1>1, <1>3, DeliverIs
<1>8. PICK x \in IoRec :
        /\ io' = [io EXCEPT ![v] = x]
        /\ \/ x = Idle
           \/ /\ x.step = "ws" /\ x.ses = s /\ x.data # <<>>
              /\ Len(x.data) = Len(io[v].data) - 1
              /\ \A i \in 1..Len(x.data) : x.data[i] = io[v].data[i + 1]
  BY <1>1, <1>2, <1>3, ContinueIs
<1>9. cut' \in SUBSET Session
  BY <1>1, <1>2 DEF FlowTypes
<1>10. OrderOK(s)'
  <2>1. OrderOK(s)
    BY DEF FlowInv
  <2>2. CASE log' = log
    BY <1>1, <2>1, <2>2 DEF OrderOK
  <2>3. CASE /\ log[s] # <<>>
             /\ log' = [log EXCEPT ![s] = Append(log[s], Misread)]
    <3>1. /\ log[s] \in Seq(0..Misread)
          /\ log'[s] = Append(log[s], Misread)
      BY <1>2, <2>3 DEF FlowTypes
    <3>2. 1 \in 1..Len(log[s])
      BY <1>2, <2>3, SessionTypes
    <3>3. log'[s][1] = log[s][1]
      BY <1>6, <3>1, <3>2, OneMore
    <3>4. QED
      BY <1>1, <1>5, <2>1, <2>3, <3>3 DEF OrderOK
  <2>4. QED
    BY <1>7, <2>2, <2>3
<1>11. ProgressOK(s)'
  BY <1>1, <1>5 DEF ProgressOK
<1>12. QED
  BY <1>1, <1>3, <1>6, <1>7, <1>8, <1>9, <1>10, <1>11, FlowWs

(* A frame that is not understood ends the connection.                     *)
LEMMA FlowFrameError ==
    ASSUME FlowInv, FlowOK, ShareTypes, NEW v \in Server, FrameError(v)
    PROVE  FlowInv'
<1>1. /\ io[v].step = "ws" /\ OnEof(io[v].ses, FALSE)
      /\ io' = [io EXCEPT ![v] = Idle] /\ sends' = sends /\ cut' = cut
  BY DEF FrameError, InHandler
<1>2. PICK s \in Session : /\ s = io[v].ses /\ con[s].server = v
                           /\ con[s].handler = "ws"
  BY <1>1, WsFacts
<1>3. Held(s)
  BY <1>2 DEF Held
<1>4. /\ io' \in [Server -> IoRec] /\ io'[v] = Idle
      /\ \A w \in Server \ {v} : io'[w] = io[w]
  BY <1>1, IdleRec DEF FlowInv, FlowTypes
<1>5. \A w \in Server : \/ io'[w] = io[w] /\ io[w].ses # s
                        \/ io[w].ses = s /\ io'[w] = Idle
  BY <1>2, <1>4, OthersElsewhere
<1>6. FALSE \in BOOLEAN /\ OnEof(s, FALSE)
  BY <1>1, <1>2
<1>7. QED
  BY <1>1, <1>3, <1>4, <1>5, <1>6, FlowEof

(* The reads.                                                              *)
LEMMA FlowReads ==
    ASSUME FlowInv, FlowOK, ShareTypes, NEW v \in Server, NEW s \in Session,
           ReadStep(v, s)
    PROVE  FlowInv'
<1>1. CASE Accept(v, s)
  BY <1>1, FlowAccept
<1>2. CASE ReadEof(v, s)
  <2>1. PICK p \in BOOLEAN : OnEof(s, p)
    BY <1>2 DEF ReadEof
  <2>2. /\ con[s].server = v /\ Held(s) /\ io[v] = Idle /\ io' = io
        /\ sends' = sends /\ cut' = cut
    BY <1>2 DEF ReadEof, IoTurn
  <2>3. \A w \in Server : io'[w] = io[w] /\ io[w].ses # s
    BY <2>2, OthersElsewhere, IdleRec, NoneIsNone
  <2>4. io' \in [Server -> IoRec]
    BY <2>2 DEF FlowInv, FlowTypes
  <2>5. QED
    BY <2>1, <2>2, <2>3, <2>4, FlowEof
<1>3. CASE ReadAborted(v, s)
  <2>1. /\ UNCHANGED <<io, conVars>> /\ srv' = srv /\ tags' = tags
        /\ fault' = "abort"
    BY <1>3 DEF ReadAborted
  <2>2. /\ fault' \in Faults
        /\ tags' \in [Agent -> Seq(Session \X {"connect", "disconnect"})]
    BY <2>1 DEF Faults, FlowInv, FlowTypes
  <2>3. QED
    BY <2>1, <2>2, FlowQuiet
<1>4. ASSUME NEW n \in 1..Len(wire[s]), ReadHttp(v, s, n)
      PROVE  FlowInv'
  <2>1. PICK m \in 1..n : /\ Events(wire[s], n, m)
                          /\ Read(v, s, n, "http", SubSeq(wire[s], 1, m))
    BY <1>4 DEF ReadHttp
  <2>2. \A i \in 1..(m - 1) : wire[s][i].kind # "upgrade"
    BY <2>1 DEF Events
  <2>3. con[s].handler = "http"
    BY <1>4 DEF ReadHttp
  <2>4. QED
    BY <2>1, <2>2, <2>3, FlowRead
<1>5. ASSUME NEW n \in 1..Len(wire[s]), ReadWs(v, s, n)
      PROVE  FlowInv'
  <2>1. Read(v, s, n, "ws", SubSeq(wire[s], 1, n)) /\ con[s].handler = "ws"
    BY <1>5 DEF ReadWs
  <2>2. n \in 1..n
    <3>1. Len(wire[s]) \in Nat
      BY SessionTypes DEF FlowInv
    <3>2. QED
      BY <3>1
  <2>3. QED
    BY <2>1, <2>2, FlowRead
<1>6. CASE ReadBroken(v, s)
  BY <1>6, FlowReadFails
<1>7. QED
  BY <1>1, <1>2, <1>3, <1>4, <1>5, <1>6 DEF ReadStep

(* The handlers.                                                           *)
LEMMA FlowHandlers ==
    ASSUME FlowInv, FlowOK, ShareTypes, NEW v \in Server, HandlerStep(v)
    PROVE  FlowInv'
BY FlowCancelHandshake, FlowOnHttpGet, FlowTargetExists, FlowAcceptUpgrade,
   FlowStartSession, FlowOnWsFrame, FlowCloseFrame, FlowFrameError,
   FlowFrameIncomplete, FlowFrameMisread DEF HandlerStep

(* What clients do.                                                        *)
LEMMA FlowClients ==
    ASSUME FlowInv, FlowOK, NEW s \in Session, ClientStep(s)
    PROVE  FlowInv'
<1>1. ASSUME NEW r \in {Get, BadRequest} \cup {Upgrade(a) : a \in Agent},
             SendRequest(s, r)
      PROVE  FlowInv'
  <2>1. r \in Part /\ r.kind \in Requests
    <3>1. CASE r \in {Get, BadRequest}
      BY <3>1 DEF Get, BadRequest, Part, PartKind, Requests
    <3>2. ASSUME NEW a \in Agent, r = Upgrade(a)
          PROVE  r \in Part /\ r.kind \in Requests
      <4>1. a \in Nat
        BY BoundAssumption DEF Agent
      <4>2. QED
        BY <3>2, <4>1 DEF Upgrade, Part, PartKind, Requests
    <3>3. QED
      BY <3>1, <3>2
  <2>2. QED
    BY <1>1, <2>1, FlowSendRequest
<1>2. ASSUME NEW kinds \in {<<"text">>, <<"text", "text">>, <<"close">>,
                            <<"bad">>},
             SendFrames(s, kinds)
      PROVE  FlowInv'
  BY <1>2, FlowSendFrames DEF Kinds
<1>3. CASE CloseClient(s)
  BY <1>3, FlowCloseClient
<1>4. QED
  BY <1>1, <1>2, <1>3 DEF ClientStep

(* The agents.                                                             *)
LEMMA FlowGetServer ==
    ASSUME ShareInv, FlowInv, FlowOK, NEW a \in Agent, GetServer(a)
    PROVE  FlowInv'
<1>1. /\ UNCHANGED <<io, conVars>> /\ tags' = tags /\ fault' = fault
  BY DEF GetServer
<1>2. /\ fault' \in Faults
      /\ tags' \in [Agent -> Seq(Session \X {"connect", "disconnect"})]
  BY <1>1 DEF FlowInv, FlowTypes
<1>3. CASE srv' = srv
  BY <1>1, <1>2, <1>3, FlowQuiet
<1>4. ASSUME NEW v \in Server, srv[v].state = "none",
             srv' = [srv EXCEPT ![v].state = "running",
                                ![v].thread = "starting"]
      PROVE  FlowInv'
  <2>1. srv \in [Server -> ServerRec] /\ srv[v] \in ServerRec
    BY DEF ShareInv, ShareTypes
  <2>2. /\ \A w \in Server \ {v} : srv'[w] = srv[w]
        /\ srv'[v].sessions = srv[v].sessions
    BY <1>4, <2>1 DEF ServerRec
  <2>3. io[v].step = "idle"
    <3>1. srv[v].thread = "none"
      BY <1>4 DEF ShareInv, ServerOK
    <3>2. QED
      BY <3>1 DEF FlowOK, HandlerOK
  <2>4. \A w \in Server :
          /\ srv'[w].sessions = srv[w].sessions
          /\ io[w].step # "idle" => srv'[w].thread = srv[w].thread
          /\ srv[w].state = "deleted" => srv'[w].state = "deleted"
    BY <1>4, <2>2, <2>3
  <2>5. QED
    BY <1>1, <1>2, <2>4, FlowQuiet
<1>5. QED
  BY <1>3, <1>4 DEF GetServer

(* A step of an agent that leaves the threads of the servers alone.        *)
LEMMA FlowServersKept ==
    ASSUME FlowInv, FlowOK, UNCHANGED <<io, conVars>>,
           tags' \in [Agent -> Seq(Session \X {"connect", "disconnect"})],
           fault' \in Faults,
           \A w \in Server : /\ srv'[w].sessions = srv[w].sessions
                             /\ srv'[w].thread = srv[w].thread
                             /\ srv'[w].state = srv[w].state
    PROVE  FlowInv'
BY FlowQuiet

(* The list of targets changes; the connections do not.                    *)
LEMMA FlowTargets ==
    ASSUME ShareInv, FlowInv, FlowOK, NEW a \in Agent,
           AddTarget(a) \/ RemoveTarget(a)
    PROVE  FlowInv'
<1>1. agent[a].phase \notin {"new", "gone"}
  BY DEF AddTarget, RemoveTarget
<1>2. PICK v \in Server : v = agent[a].server
  BY <1>1, OwnServer
<1>3. srv[v].targets \in SUBSET Agent
  BY DEF ShareInv, ShareTypes, ServerRec
<1>4. PICK T \in SUBSET Agent : WithDelegate(v, [srv EXCEPT ![v].targets = T])
  <2>1. CASE AddTarget(a)
    <3>1. WithDelegate(v, [srv EXCEPT ![v].targets = @ \cup {a}])
      BY <1>2, <2>1 DEF AddTarget
    <3>2. QED
      BY <1>3, <3>1
  <2>2. CASE RemoveTarget(a)
    <3>1. WithDelegate(v, [srv EXCEPT ![v].targets = @ \ {a}])
      BY <1>2, <2>2 DEF RemoveTarget
    <3>2. QED
      BY <1>3, <3>1
  <2>3. QED
    BY <2>1, <2>2
<1>5. /\ fault' \in {fault, "delegate"}
      /\ \A w \in Server : /\ srv'[w].sessions = srv[w].sessions
                           /\ srv'[w].thread = srv[w].thread
                           /\ srv'[w].state = srv[w].state
  BY <1>4, TargetsChange
<1>6. UNCHANGED <<io, conVars>> /\ tags' = tags
  BY DEF AddTarget, RemoveTarget
<1>7. /\ fault' \in Faults
      /\ tags' \in [Agent -> Seq(Session \X {"connect", "disconnect"})]
  BY <1>5, <1>6 DEF FlowInv, FlowTypes, Faults
<1>8. QED
  BY <1>5, <1>6, <1>7, FlowServersKept

(* An agent that is gone has no messages.                                  *)
LEMMA QuitTags ==
    ASSUME FlowTypes, NEW a \in Agent, Quit(a)
    PROVE  tags' \in [Agent -> Seq(Session \X {"connect", "disconnect"})]
<1>1. <<>> \in Seq(Session \X {"connect", "disconnect"})
  BY EmptySeq
<1>2. QED
  BY <1>1 DEF Quit, FlowTypes

(* Steps of Stop that leave the server alone.                              *)
LEMMA FlowPhases ==
    ASSUME FlowInv, FlowOK, NEW a \in Agent,
           \/ Stop(a) \/ Disconnected(a) \/ CheckTargets(a) \/ RemoveServer(a)
    PROVE  FlowInv'
<1>1. /\ UNCHANGED <<io, conVars>> /\ srv' = srv
      /\ fault' = fault \/ fault' = "delegate"
      /\ tags' = tags \/ Quit(a)
  BY DEF Stop, Disconnected, CheckTargets, RemoveServer
<1>2. FlowTypes
  BY DEF FlowInv
<1>3. fault' \in Faults
  BY <1>1 DEF FlowInv, Faults
<1>4. tags' \in [Agent -> Seq(Session \X {"connect", "disconnect"})]
  BY <1>1, <1>2, QuitTags DEF FlowTypes
<1>5. QED
  BY <1>1, <1>3, <1>4, FlowServersKept

(* A server is stopped; a handler that runs goes on.                       *)
LEMMA FlowStopServer ==
    ASSUME ShareInv, FlowInv, FlowOK, NEW a \in Agent, StopServer(a)
    PROVE  FlowInv'
<1>1. /\ UNCHANGED <<io, conVars>> /\ tags' = tags /\ fault' = fault
      /\ agent[a].phase = "stop"
  BY DEF StopServer
<1>2. /\ fault' \in Faults
      /\ tags' \in [Agent -> Seq(Session \X {"connect", "disconnect"})]
  BY <1>1 DEF FlowInv, FlowTypes
<1>3. PICK v \in Server : v = agent[a].server /\ srv[v].state \in Made
                          /\ srv[v] \in ServerRec
  BY <1>1, OwnServer
<1>4. CASE srv' = srv
  BY <1>1, <1>2, <1>4, FlowServersKept
<1>5. ASSUME srv' = [srv EXCEPT ![v].state = "stopped",
                                ![v].stopped = TRUE,
                                ![v].tcp = IF @ = "none" THEN @
                                           ELSE "stopped"]
      PROVE  FlowInv'
  <2>1. srv \in [Server -> ServerRec]
    BY DEF ShareInv, ShareTypes
  <2> DEFINE tcp == IF srv[v].tcp = "none" THEN srv[v].tcp ELSE "stopped"
             new == [srv[v] EXCEPT !.state = "stopped", !.stopped = TRUE,
                                   !.tcp = tcp]
  <2> HIDE DEF tcp
  <2>2. /\ new.sessions = srv[v].sessions /\ new.thread = srv[v].thread
    BY <1>3 DEF ServerRec
  <2>3. srv' = [srv EXCEPT ![v] = new]
    BY <1>5, <2>1 DEF tcp
  <2> HIDE DEF new
  <2>4. srv'[v] = new /\ \A w \in Server \ {v} : srv'[w] = srv[w]
    BY <2>1, <2>3
  <2>5. srv[v].state # "deleted"
    BY <1>3 DEF Made
  <2>6. \A w \in Server :
          /\ srv'[w].sessions = srv[w].sessions
          /\ io[w].step # "idle" => srv'[w].thread = srv[w].thread
          /\ srv[w].state = "deleted" => srv'[w].state = "deleted"
    BY <2>2, <2>4, <2>5
  <2>7. QED
    BY <1>1, <1>2, <2>6, FlowQuiet
<1>6. QED
  BY <1>3, <1>4, <1>5 DEF StopServer

(* The delegate goes with its targets and not the sessions that were told. *)
LEMMA FlowResetDelegate ==
    ASSUME ShareInv, FlowInv, FlowOK, NEW a \in Agent, ResetDelegate(a)
    PROVE  FlowInv'
<1>1. /\ UNCHANGED <<io, conVars>> /\ tags' = tags /\ fault' = fault
      /\ agent[a].phase = "reset" /\ srv' = WithoutDelegate(agent[a].server)
  BY DEF ResetDelegate
<1>2. /\ fault' \in Faults
      /\ tags' \in [Agent -> Seq(Session \X {"connect", "disconnect"})]
  BY <1>1 DEF FlowInv, FlowTypes
<1>3. PICK v \in Server : v = agent[a].server
  BY <1>1, OwnServer
<1>4. \A w \in Server : /\ srv'[w].sessions = srv[w].sessions
                        /\ srv'[w].thread = srv[w].thread
                        /\ srv'[w].state = srv[w].state
  BY <1>1, <1>3, DelegateGone DEF ShareInv
<1>5. QED
  BY <1>1, <1>2, <1>4, FlowServersKept

(* An agent hears of a session: its queue has one tag less.                *)
LEMMA FlowDispatchTag ==
    ASSUME FlowInv, FlowOK, NEW a \in Agent, DispatchTag(a)
    PROVE  FlowInv'
<1>1. /\ UNCHANGED <<io, conVars>> /\ srv' = srv
      /\ fault' = fault \/ fault' = "check"
      /\ tags[a] # <<>> /\ tags' = [tags EXCEPT ![a] = Tail(tags[a])]
  BY DEF DispatchTag
<1>2. fault' \in Faults
  BY <1>1 DEF FlowInv, Faults
<1>3. tags' \in [Agent -> Seq(Session \X {"connect", "disconnect"})]
  <2> DEFINE S == Session \X {"connect", "disconnect"}
  <2>1. tags \in [Agent -> Seq(S)] /\ tags[a] \in Seq(S)
    BY DEF FlowInv, FlowTypes
  <2> HIDE DEF S
  <2>2. Tail(tags[a]) \in Seq(S)
    BY <1>1, <2>1, HeadTailProperties
  <2>3. tags' \in [Agent -> Seq(S)]
    BY <1>1, <2>1, <2>2
  <2>4. QED
    BY <2>3 DEF S
<1>4. QED
  BY <1>1, <1>2, <1>3, FlowServersKept

(* An agent that stops closes its connection, or finds it gone, or meets   *)
(* its handler on the I/O thread.                                          *)
LEMMA FlowCloseByMessage ==
    ASSUME ShareInv, FlowInv, FlowOK, NEW a \in Agent, CloseByMessage(a)
    PROVE  FlowInv'
<1>1. /\ io' = io /\ sends' = sends /\ cut' = cut
  BY DEF CloseByMessage
<1>2. PICK s : s = agent[a].session
  OBVIOUS
<1>3. ASSUME UNCHANGED <<con, wire, client, tags, log, srv>>,
             fault' = fault \/ fault' = "race"
      PROVE  FlowInv'
  <2>1. UNCHANGED <<io, conVars>>
    BY <1>1, <1>3 DEF conVars
  <2>2. /\ fault' \in Faults
        /\ tags' \in [Agent -> Seq(Session \X {"connect", "disconnect"})]
    BY <1>3 DEF FlowInv, FlowTypes, Faults
  <2>3. QED
    BY <1>3, <2>1, <2>2, FlowServersKept
<1>4. ASSUME Sends(s), io[con[s].server].ses # s, OnEof(s, TRUE)
      PROVE  FlowInv'
  <2>1. s \in Session /\ Held(s)
    BY <1>2, <1>4 DEF Sends, ShareInv, ShareTypes, AgentRec
  <2>2. PICK v \in Server : v = con[s].server
    BY <2>1, HeldByServer DEF FlowInv
  <2>3. \A w \in Server : io'[w] = io[w] /\ io[w].ses # s
    BY <1>1, <1>4, <2>1, <2>2, OthersElsewhere
  <2>4. io' \in [Server -> IoRec] /\ TRUE \in BOOLEAN /\ ShareTypes
    BY <1>1 DEF FlowInv, FlowTypes, ShareInv
  <2>5. QED
    BY <1>1, <1>4, <2>1, <2>3, <2>4, FlowEof
<1>5. QED
  BY <1>2, <1>3, <1>4 DEF CloseByMessage

(* The steps of agents, for the connections.                               *)
LEMMA FlowAgents ==
    ASSUME ShareInv, FlowInv, FlowOK, NEW a \in Agent, AgentStep(a)
    PROVE  FlowInv'
BY FlowGetServer, FlowTargets, FlowPhases, FlowStopServer, FlowResetDelegate,
   FlowDispatchTag, FlowCloseByMessage DEF AgentStep

(* The server goes with its connections; its thread has ended.             *)
LEMMA FlowDeleteServer ==
    ASSUME ShareInv, FlowInv, FlowOK, NEW v \in Server, DeleteServer(v)
    PROVE  FlowInv'
<1>1. /\ con' = [s \in Session |->
                   IF con[s].server = v
                   THEN [con[s] EXCEPT !.handler = "none", !.listed = FALSE]
                   ELSE con[s]]
      /\ srv' = [WithoutDelegate(v) EXCEPT ![v].state = "deleted"]
      /\ io' = io /\ tags' = tags /\ wire' = wire /\ client' = client
      /\ sends' = sends /\ log' = log /\ cut' = cut
  BY DEF DeleteServer
<1>2. fault' \in Faults
  BY DEF DeleteServer, Faults
<1>3. FlowTypes /\ ShareTypes
  BY DEF FlowInv, ShareInv
<1>4. /\ \A w \in Server : /\ srv'[w].thread = srv[w].thread
                           /\ srv'[w].sessions = srv[w].sessions
      /\ \A w \in Server \ {v} : srv'[w].state = srv[w].state
      /\ srv'[v].state = "deleted"
  <2> DEFINE W == WithoutDelegate(v)
  <2>1. /\ W \in [Server -> ServerRec] /\ W[v] \in ServerRec
        /\ \A w \in Server : /\ W[w].state = srv[w].state
                             /\ W[w].thread = srv[w].thread
                             /\ W[w].sessions = srv[w].sessions
    BY <1>3, DelegateGone
  <2>2. srv' = [W EXCEPT ![v].state = "deleted"]
    BY <1>1
  <2> HIDE DEF W
  <2>3. /\ srv'[v].state = "deleted" /\ srv'[v].thread = W[v].thread
        /\ srv'[v].sessions = W[v].sessions
        /\ \A w \in Server \ {v} : srv'[w] = W[w]
    BY <2>1, <2>2 DEF ServerRec
  <2>4. QED
    BY <2>1, <2>3
<1>5. io[v].step = "idle"
  <2>1. srv[v].thread # "run"
    BY DEF DeleteServer, Refs
  <2>2. QED
    BY <2>1 DEF FlowOK, HandlerOK
<1>6. /\ con' \in [Session -> ConRec]
      /\ \A s \in Session :
           /\ con'[s].server = con[s].server /\ con'[s].first = con[s].first
           /\ con[s].server = v => con'[s].handler = "none"
           /\ con[s].server # v => con'[s] = con[s]
  <2>1. ASSUME NEW s \in Session
        PROVE  /\ con'[s] \in ConRec
               /\ con'[s].server = con[s].server
               /\ con'[s].first = con[s].first
               /\ con[s].server = v => con'[s].handler = "none"
               /\ con[s].server # v => con'[s] = con[s]
    <3>1. con[s] \in ConRec
      BY <1>3 DEF FlowTypes
    <3> DEFINE new == [con[s] EXCEPT !.handler = "none", !.listed = FALSE]
    <3>2. /\ new \in ConRec /\ new.server = con[s].server
          /\ new.first = con[s].first /\ new.handler = "none"
      BY <3>1 DEF ConRec
    <3>3. con'[s] = IF con[s].server = v THEN new ELSE con[s]
      BY <1>1
    <3> HIDE DEF new
    <3>4. QED
      BY <3>1, <3>2, <3>3
  <2>2. \E f : con' = [s \in Session |-> f[s]]
    <3> DEFINE f == [s \in Session |->
                       IF con[s].server = v
                       THEN [con[s] EXCEPT !.handler = "none",
                                           !.listed = FALSE]
                       ELSE con[s]]
    <3>1. con' = [s \in Session |-> f[s]]
      BY <1>1
    <3>2. QED
      BY <3>1
  <2>3. QED
    BY <2>1, <2>2
<1>7. FlowTypes'
  BY <1>1, <1>3, <1>6 DEF FlowTypes
<1>8. \A s \in Session : OrderOK(s)'
  BY <1>1 DEF FlowInv, OrderOK
<1>9. ASSUME NEW w \in Server PROVE ThreadOK(w)'
  <2>1. HandlerOK(w) /\ DataOK(w)
    BY DEF FlowOK
  <2>2. DataOK(w)'
    BY <1>1, <2>1 DEF DataOK
  <2>3. HandlerOK(w)'
    <3>1. CASE w = v
      BY <1>1, <1>5, <2>1, <3>1 DEF HandlerOK
    <3>2. CASE w # v /\ io[w].step # "idle"
      <4>1. con'[io[w].ses] = con[io[w].ses]
        BY <1>6, <2>1, <3>2 DEF HandlerOK
      <4>2. QED
        BY <1>1, <1>4, <2>1, <4>1 DEF HandlerOK
    <3>3. CASE io[w].step = "idle"
      BY <1>1, <2>1, <3>3 DEF HandlerOK
    <3>4. QED
      BY <3>1, <3>2, <3>3
  <2>4. QED
    BY <2>2, <2>3 DEF ThreadOK
<1>10. ASSUME NEW s \in Session PROVE SessionOK(s)'
  <2>1. /\ ConOK(s) /\ BracketOK(s) /\ WireOK(s) /\ ProgressOK(s)
        /\ CloseIsLast(s)
    BY DEF FlowOK
  <2>2. ConOK(s)'
    BY <1>1, <1>4, <1>6, <2>1, NoneIsNone DEF ConOK
  <2>3. BracketOK(s)'
    <3>1. CASE con[s].server = v
      <4>1. /\ con'[s].handler = "none" /\ con'[s].server = v
            /\ srv'[v].state = "deleted" /\ log' = log
        BY <1>1, <1>4, <1>6, <3>1
      <4>2. QED
        BY <2>1, <4>1 DEF BracketOK
    <3>2. CASE con[s].server # v
      <4>1. /\ con'[s] = con[s] /\ log' = log
            /\ con[s].server \in Server =>
                 srv'[con[s].server].state = srv[con[s].server].state
        BY <1>1, <1>4, <1>6, <3>2
      <4>2. QED
        BY <2>1, <4>1 DEF BracketOK
    <3>3. QED
      BY <3>1, <3>2
  <2>4. WireOK(s)' /\ CloseIsLast(s)'
    BY <1>1, <2>1 DEF WireOK, CloseIsLast
  <2>5. ProgressOK(s)'
    <3>1. CASE con[s].server = v
      BY <1>6, <3>1 DEF ProgressOK
    <3>2. CASE con[s].server # v
      <4>1. con'[s] = con[s]
        BY <1>6, <3>2
      <4>2. /\ io' = io /\ wire' = wire /\ client' = client /\ log' = log
            /\ cut' = cut
        BY <1>1
      <4>3. InData(s)' = InData(s)
        BY <4>1, <4>2 DEF InData
      <4>4. Count(s)' = Count(s)
        BY <4>2 DEF Count
      <4>5. Handled(s)' = Handled(s)
        BY <4>2, <4>3 DEF Handled
      <4>6. QED
        BY <2>1, <4>1, <4>2, <4>4, <4>5 DEF ProgressOK
    <3>3. QED
      BY <3>1, <3>2
  <2>6. QED
    BY <2>2, <2>3, <2>4, <2>5 DEF SessionOK
<1>11. FlowOK'
  BY <1>9, <1>10 DEF FlowOK, ThreadOK, SessionOK
<1>12. QED
  BY <1>2, <1>7, <1>8, <1>11 DEF FlowInv

(* The thread of a server starts and ends between the handlers.            *)
LEMMA FlowThread ==
    ASSUME ShareInv, FlowInv, FlowOK, NEW v \in Server,
           MakeTcpServer(v) \/ EndThread(v)
    PROVE  FlowInv'
<1>1. UNCHANGED <<io, conVars>> /\ tags' = tags /\ fault' = fault
  BY DEF MakeTcpServer, EndThread
<1>2. /\ fault' \in Faults
      /\ tags' \in [Agent -> Seq(Session \X {"connect", "disconnect"})]
  BY <1>1 DEF FlowInv, FlowTypes
<1>3. io[v].step = "idle"
  <2>1. CASE MakeTcpServer(v)
    BY <2>1 DEF MakeTcpServer, FlowOK, HandlerOK
  <2>2. CASE EndThread(v)
    BY <2>2, IdleRec DEF EndThread
  <2>3. QED
    BY <2>1, <2>2
<1>4. /\ \A w \in Server \ {v} : srv'[w] = srv[w]
      /\ srv'[v].sessions = srv[v].sessions /\ srv'[v].state = srv[v].state
  <2>1. srv \in [Server -> ServerRec] /\ srv[v] \in ServerRec
    BY DEF ShareInv, ShareTypes
  <2>2. CASE MakeTcpServer(v)
    <3>1. PICK t, p : srv' = [srv EXCEPT ![v].thread = t, ![v].tcp = p]
      BY <2>2 DEF MakeTcpServer
    <3>2. QED
      BY <2>1, <3>1 DEF ServerRec
  <2>3. CASE EndThread(v)
    BY <2>1, <2>3 DEF EndThread, ServerRec
  <2>4. QED
    BY <2>2, <2>3
<1>5. \A w \in Server :
        /\ srv'[w].sessions = srv[w].sessions
        /\ io[w].step # "idle" => srv'[w].thread = srv[w].thread
        /\ srv[w].state = "deleted" => srv'[w].state = "deleted"
  BY <1>3, <1>4
<1>6. QED
  BY <1>1, <1>2, <1>5, FlowQuiet

(* The handlers and the reads leave alone what Start and Stop work on, but *)
(* for the sessions of a server and the end of one that was stopped.       *)
LEMMA ShareHandlers ==
    ASSUME ShareInv, FlowInv, FlowOK, NEW v \in Server, HandlerStep(v)
    PROVE  ShareInv'
<1>1. CASE StartSession(v)
  <2>1. UNCHANGED agentVars
    BY <1>1 DEF StartSession
  <2>2. CASE srv' = srv
    BY <2>1, <2>2, ShareStill
  <2>3. CASE srv' # srv
    <3>1. PICK s \in Session, a \in Agent :
            s = io[v].ses /\ a = Head(io[v].data).of
      BY <1>1, StartFacts
    <3>2. srv' = [srv EXCEPT ![v].sessions[s] = a]
      BY <1>1, <2>3, <3>1 DEF StartSession
    <3>3. /\ srv' \in [Server -> ServerRec]
          /\ \A w \in Server : /\ srv'[w].state = srv[w].state
                               /\ srv'[w].thread = srv[w].thread
                               /\ srv'[w].tcp = srv[w].tcp
                               /\ srv'[w].stopped = srv[w].stopped
                               /\ srv'[w].delegate = srv[w].delegate
                               /\ srv'[w].targets = srv[w].targets
      BY <3>2, StartServers DEF ShareInv
    <3>4. registry' = registry /\ agent' = agent /\ raced' = raced
      BY <2>1 DEF agentVars
    <3>5. ShareTypes'
      BY <3>3, <3>4 DEF ShareInv, ShareTypes
    <3>6. QED
      BY <3>3, <3>4, <3>5, ShareQuiet
  <2>4. QED
    BY <2>2, <2>3
<1>2. CASE FrameError(v)
  <2>1. /\ io[v].step = "ws" /\ OnEof(io[v].ses, FALSE)
        /\ UNCHANGED agentVars
    BY <1>2 DEF FrameError, InHandler
  <2>2. PICK s \in Session : s = io[v].ses /\ con[s].server = v
    BY <2>1, WsFacts
  <2>3. QED
    BY <2>1, <2>2, ShareEof
<1>3. CASE \/ CancelHandshake(v) \/ OnHttpGet(v) \/ TargetExists(v)
           \/ AcceptUpgrade(v) \/ OnWsFrame(v) \/ CloseFrameReceived(v)
           \/ FrameIncomplete(v) \/ FrameMisread(v)
  <2>1. UNCHANGED <<agentVars, srv>>
    BY <1>3 DEF CancelHandshake, OnHttpGet, TargetExists, AcceptUpgrade,
                OnWsFrame, CloseFrameReceived, FrameIncomplete, FrameMisread
  <2>2. QED
    BY <2>1, ShareStill
<1>4. QED
  BY <1>1, <1>2, <1>3 DEF HandlerStep

(* Accepting and reading, for the servers.                                 *)
LEMMA ShareReads ==
    ASSUME ShareInv, NEW v \in Server, NEW s \in Session, ReadStep(v, s)
    PROVE  ShareInv'
<1>1. CASE ReadEof(v, s)
  <2>1. OnEof(s, FALSE) /\ con[s].server = v /\ UNCHANGED agentVars
    BY <1>1 DEF ReadEof
  <2>2. QED
    BY <2>1, ShareEof
<1>2. CASE \/ Accept(v, s) \/ ReadAborted(v, s) \/ ReadBroken(v, s)
           \/ \E n \in 1..Len(wire[s]) : ReadHttp(v, s, n) \/ ReadWs(v, s, n)
  <2>1. UNCHANGED <<agentVars, srv>>
    BY <1>2 DEF Accept, ReadAborted, ReadBroken, ReadHttp, ReadWs, Read
  <2>2. QED
    BY <2>1, ShareStill
<1>3. QED
  BY <1>1, <1>2 DEF ReadStep

(* What clients do changes no server.                                      *)
LEMMA ShareClients ==
    ASSUME ShareInv, NEW s \in Session, ClientStep(s)
    PROVE  ShareInv'
<1>1. UNCHANGED <<agentVars, srv>>
  BY DEF ClientStep, SendRequest, SendFrames, CloseClient
<1>2. QED
  BY <1>1, ShareStill

(* The steps of agents, for the servers.                                   *)
LEMMA ShareAgents ==
    ASSUME ShareInv, FlowInv, FlowOK, NEW a \in Agent, AgentStep(a)
    PROVE  ShareInv'
<1>1. FlowTypes
  BY DEF FlowInv
<1>2. CASE CloseByMessage(a)
  <2>1. \A s \in Session : Held(s) => con[s].server \in Server
    BY <1>1, HeldByServer
  <2>2. QED
    BY <1>2, <2>1, ShareCloseByMessage
<1>3. CASE DispatchTag(a)
  BY <1>1, <1>3, ShareDispatchTag
<1>4. CASE \/ GetServer(a) \/ AddTarget(a) \/ Stop(a) \/ Disconnected(a)
           \/ RemoveTarget(a) \/ CheckTargets(a) \/ StopServer(a)
           \/ ResetDelegate(a) \/ RemoveServer(a)
  BY <1>4, ShareGetServer, ShareAddTarget, ShareStop, ShareDisconnected,
     ShareRemoveTarget, ShareCheckTargets, ShareStopServer,
     ShareResetDelegate, ShareRemoveServer
<1>5. QED
  BY <1>2, <1>3, <1>4 DEF AgentStep

(* All steps keep the invariant: no step is taken once the process died.   *)
LEMMA NextSrvInv == SrvInv /\ [Next]_vars => SrvInv'
<1>1. SUFFICES ASSUME ShareInv, FlowInv, [Next]_vars
               PROVE  ShareInv' /\ FlowInv'
  BY DEF SrvInv
<1>2. ShareTypes /\ FlowTypes
  BY <1>1 DEF ShareInv, FlowInv
<1>3. ASSUME NEW a \in Agent, AgentStep(a) PROVE ShareInv' /\ FlowInv'
  <2>1. Running
    BY <1>3 DEF AgentStep, GetServer, AddTarget, Stop, CloseByMessage,
                Disconnected, RemoveTarget, CheckTargets, StopServer,
                ResetDelegate, RemoveServer, DispatchTag
  <2>2. FlowOK
    BY <1>1, <2>1 DEF FlowInv
  <2>3. QED
    BY <1>1, <1>3, <2>2, ShareAgents, FlowAgents
<1>4. ASSUME NEW s \in Session, ClientStep(s) PROVE ShareInv' /\ FlowInv'
  <2>1. Running
    BY <1>4 DEF ClientStep, SendRequest, SendFrames, CloseClient
  <2>2. FlowOK
    BY <1>1, <2>1 DEF FlowInv
  <2>3. QED
    BY <1>1, <1>4, <2>2, ShareClients, FlowClients
<1>5. ASSUME NEW v \in Server, MakeTcpServer(v) \/ EndThread(v)
      PROVE  ShareInv' /\ FlowInv'
  <2>1. Running
    BY <1>5 DEF MakeTcpServer, EndThread
  <2>2. FlowOK
    BY <1>1, <2>1 DEF FlowInv
  <2>3. QED
    BY <1>1, <1>5, <2>2, ShareMakeTcpServer, ShareEndThread, FlowThread
<1>6. ASSUME NEW v \in Server, DeleteServer(v) PROVE ShareInv' /\ FlowInv'
  <2>1. Running
    BY <1>6 DEF DeleteServer
  <2>2. FlowOK
    BY <1>1, <2>1 DEF FlowInv
  <2>3. QED
    BY <1>1, <1>6, <2>2, ShareDeleteServer, FlowDeleteServer
<1>7. ASSUME NEW v \in Server, HandlerStep(v) PROVE ShareInv' /\ FlowInv'
  <2>1. Running
    BY <1>7 DEF HandlerStep, CancelHandshake, OnHttpGet, TargetExists,
                AcceptUpgrade, StartSession, OnWsFrame, CloseFrameReceived,
                FrameError, FrameIncomplete, FrameMisread, InHandler
  <2>2. FlowOK
    BY <1>1, <2>1 DEF FlowInv
  <2>3. QED
    BY <1>1, <1>2, <1>7, <2>2, ShareHandlers, FlowHandlers
<1>8. ASSUME NEW v \in Server, NEW s \in Session, ReadStep(v, s)
      PROVE  ShareInv' /\ FlowInv'
  <2>1. Running
    BY <1>8 DEF ReadStep, Accept, ReadEof, ReadBroken, ReadAborted, ReadHttp,
                ReadWs, Read, IoTurn
  <2>2. FlowOK
    BY <1>1, <2>1 DEF FlowInv
  <2>3. QED
    BY <1>1, <1>2, <1>8, <2>2, ShareReads, FlowReads
<1>9. CASE UNCHANGED vars
  <2>1. /\ UNCHANGED <<agentVars, srv>> /\ io' = io /\ tags' = tags
        /\ con' = con /\ wire' = wire /\ client' = client /\ sends' = sends
        /\ log' = log /\ cut' = cut /\ fault' = fault /\ srv' = srv
    BY <1>9 DEF vars, conVars
  <2>2. ShareInv'
    BY <1>1, <2>1, ShareStill
  <2>3. FlowTypes' /\ fault' \in Faults
    BY <1>1, <1>2, <2>1 DEF FlowInv, FlowTypes
  <2>4. \A s \in Session : OrderOK(s)'
    BY <1>1, <2>1 DEF FlowInv, OrderOK
  <2>5. ASSUME Running PROVE FlowInv'
    <3>1. UNCHANGED <<io, conVars>>
      BY <2>1 DEF conVars
    <3>2. tags' \in [Agent -> Seq(Session \X {"connect", "disconnect"})]
      BY <1>2, <2>1 DEF FlowTypes
    <3>3. FlowOK
      BY <1>1, <2>5 DEF FlowInv
    <3>4. QED
      BY <1>1, <2>1, <2>3, <3>1, <3>2, <3>3, FlowServersKept
  <2>6. ASSUME ~Running PROVE FlowInv'
    BY <2>1, <2>3, <2>4, <2>6 DEF FlowInv, Running
  <2>7. QED
    BY <2>2, <2>5, <2>6
<1>10. QED
  BY <1>1, <1>3, <1>4, <1>5, <1>6, <1>7, <1>8, <1>9 DEF Next

(* What a session was told, as the run states it.                          *)
LEMMA ToldAsSent == SrvInv => SessionsAreTold
<1>1. SUFFICES ASSUME ShareInv, FlowInv PROVE SessionsAreTold
  BY DEF SrvInv
<1>2. ShareTypes /\ FlowTypes
  BY <1>1 DEF ShareInv, FlowInv
<1>3. TypeOK
  <2>1. \A v \in Server :
          /\ srv[v].state \in {"none", "running", "stopped", "deleted"}
          /\ srv[v].thread \in {"none", "starting", "run", "done"}
          /\ srv[v].tcp \in {"none", "open", "stopped"}
          /\ srv[v].targets \subseteq Agent
    BY <1>2 DEF ShareTypes, ServerRec
  <2>2. \A v \in Server :
          /\ io[v].step \in {"idle", "http", "accept", "start", "ws"}
          /\ io[v].step = "idle" <=> io[v].data = <<>>
    BY <1>2 DEF FlowTypes, IoRec
  <2>3. \A a \in Agent : /\ agent[a].server \in Server \cup {None}
                         /\ agent[a].session \in Session \cup {None}
    BY <1>2 DEF ShareTypes, AgentRec
  <2>4. \A s \in Session : /\ con[s].handler \in {"none", "http", "ws"}
                           /\ con[s].first \in Agent \cup {None}
                           /\ log[s] \in Seq(0..Misread)
    BY <1>2 DEF FlowTypes, ConRec
  <2>5. fault \in {"none", "delegate", "target", "isolate", "check", "map",
                   "freed", "race", "abort", "overrun"}
    BY <1>1 DEF FlowInv, Faults
  <2>6. registry \in Server \cup {None}
    BY <1>2 DEF ShareTypes
  <2>7. QED
    BY <2>1, <2>2, <2>3, <2>4, <2>5, <2>6 DEF TypeOK
<1>4. NoFreedHandler
  BY <1>1 DEF FlowInv, Faults, NoFreedHandler
<1>5. TagsBracketMessages
  <2>1. SUFFICES ASSUME Running, NEW s \in Session, log[s] # <<>>
                 PROVE  LET ended == Len(log[s]) > 1 /\ Last(log[s]) = 0
                        IN  /\ \A i \in 2..(Len(log[s]) - 1) : log[s][i] # 0
                            /\ log[s][1] = 0
                            /\ ended => con[s].handler = "none"
                            /\ con[s].handler = "none" =>
                                 \/ ended
                                 \/ srv[con[s].server].state = "deleted"
    BY DEF TagsBracketMessages
  <2>2. BracketOK(s) /\ ConOK(s) /\ OrderOK(s)
    BY <1>1, <2>1 DEF FlowInv, FlowOK
  <2>3. PICK l \in Nat : l = Len(log[s]) /\ l >= 1
    BY <1>2, <2>1, SessionTypes
  <2>4. Last(log[s]) = log[s][l]
    BY <2>3 DEF Last
  <2>5. log[s][1] = 0
    BY <2>1, <2>2 DEF OrderOK
  <2>6. con[s].handler # "http" /\ con[s].handler \in {"none", "http", "ws"}
    BY <1>2, <2>1, <2>2 DEF ConOK, FlowTypes, ConRec
  <2>7. l > 1 /\ log[s][l] = 0 => con[s].handler # "ws"
    <3>1. SUFFICES ASSUME l > 1, con[s].handler = "ws"
                   PROVE  log[s][l] # 0
      OBVIOUS
    <3>2. l \in 2..l
      BY <2>3, <3>1
    <3>3. QED
      BY <2>1, <2>2, <2>3, <3>1, <3>2 DEF BracketOK
  <2>8. QED
    BY <2>1, <2>2, <2>3, <2>4, <2>5, <2>6, <2>7 DEF BracketOK
<1>6. DeliveredAsSent
  <2>1. SUFFICES ASSUME NEW s \in Session, s \notin cut
                 PROVE  /\ \A i \in 1..Len(log[s]) : log[s][i] # 0 =>
                             log[s][i] = i - 1 /\ i - 1 \in Texts(s)
                        /\ Running /\ con[s].handler = "ws"
                             /\ wire[s] = <<>>
                             /\ io[con[s].server].ses # s
                           => Told(s) = Texts(s)
    BY DEF DeliveredAsSent
  <2>2. OrderOK(s)
    BY <1>1 DEF FlowInv
  <2>3. PICK l \in Nat : /\ l = Len(log[s])
                         /\ (log[s] = <<>> <=> l = 0)
    BY <1>2, SessionTypes
  <2>4. ASSUME NEW i \in 1..l, log[s][i] # 0
        PROVE  log[s][i] = i - 1 /\ i - 1 \in Texts(s)
    <3>1. i # 1
      <4>1. log[s] # <<>>
        BY <2>3, <2>4
      <4>2. QED
        BY <2>2, <2>4, <4>1 DEF OrderOK
    <3>2. i \in 2..l
      BY <3>1, <2>3
    <3>3. QED
      BY <2>1, <2>2, <2>3, <2>4, <3>2 DEF OrderOK, Texts
  <2>5. ASSUME Running, con[s].handler = "ws", wire[s] = <<>>,
               io[con[s].server].ses # s
        PROVE  Told(s) = Texts(s)
    <3>1. /\ ProgressOK(s) /\ ConOK(s) /\ BracketOK(s) /\ CloseIsLast(s)
      BY <1>1, <2>5 DEF FlowInv, FlowOK
    <3>2. PICK N \in Nat : /\ N = Len(client[s].sent)
                           /\ client[s].sent \in Seq({"text", "close", "bad"})
      BY <1>2, SessionTypes
    <3>3. Handled(s) = 2 * N
      <4>1. InData(s) = 0 /\ Len(wire[s]) = 0
        BY <2>5, EmptySeq DEF InData
      <4>2. Handled(s) = 2 * N - 0 - 0
        BY <3>2, <4>1 DEF Handled
      <4>3. QED
        BY <3>2, <4>2
    <3>4. PICK c \in Nat : c = Count(s) /\ (c = 0 \/ c = l - 1)
                           /\ (l = 0 \/ l - 1 = c)
      <4>1. CASE l = 0
        BY <2>3, <4>1 DEF Count
      <4>2. CASE l # 0
        <5>1. Count(s) = l - 1
          BY <2>3, <4>2 DEF Count
        <5>2. l - 1 \in Nat
          BY <2>3, <4>2
        <5>3. QED
          BY <5>1, <5>2
      <4>3. QED
        BY <4>1, <4>2
    <3>5. \/ N = c
          \/ N = c + 1 /\ client[s].sent[N] = "close"
      <4>1. \/ 2 * N <= 0 /\ c = 0
            \/ 2 * N = 2 * c
            \/ /\ N = c + 1 /\ client[s].sent[N] = "close"
        BY <2>1, <2>5, <3>1, <3>2, <3>3, <3>4 DEF ProgressOK
      <4>2. QED
        BY <3>2, <3>4, <4>1
    <3>6. \A i \in 1..c : i + 1 \in 2..l /\ log[s][i + 1] # 0
      <4>1. SUFFICES ASSUME NEW i \in 1..c
                     PROVE  i + 1 \in 2..l /\ log[s][i + 1] # 0
        OBVIOUS
      <4>2. i + 1 \in 2..l /\ l # 0
        BY <2>3, <3>4
      <4>3. QED
        BY <2>3, <2>5, <3>1, <4>2 DEF BracketOK
    <3>7. ASSUME NEW t \in Told(s) PROVE t \in Texts(s)
      <4>1. PICK i \in 1..l : t = log[s][i] /\ log[s][i] # 0
        BY <2>3, <3>7 DEF Told
      <4>2. QED
        BY <2>4, <4>1
    <3>8. ASSUME NEW t \in Texts(s) PROVE t \in Told(s)
      <4>1. t \in 1..N /\ client[s].sent[t] = "text"
        BY <3>2, <3>8 DEF Texts
      <4>2. t \in 1..c
        BY <3>2, <3>4, <3>5, <4>1
      <4>3. PICK i \in 1..l : i - 1 = t /\ log[s][i] # 0
        BY <2>3, <3>4, <3>6, <4>2
      <4>4. log[s][i] = t
        BY <2>4, <4>3
      <4>5. QED
        BY <2>3, <4>3, <4>4 DEF Told
    <3>9. QED
      BY <3>7, <3>8
  <2>6. QED
    BY <2>3, <2>4, <2>5
<1>7. QED
  BY <1>3, <1>4, <1>5, <1>6 DEF SessionsAreTold

(* The invariant holds in every behaviour.                                 *)
LEMMA Invariance == Spec => []SrvInv
<1>1. Init => SrvInv
  BY ShareInit, FlowInit DEF SrvInv
<1>2. QED
  BY <1>1, NextSrvInv, PTL DEF Spec

(***************************************************************************)
(* Unless two agents are in Start or Stop at once, the agents of a port    *)
(* share the one server that listens, and one that stops does not take it  *)
(* from the others, for any number of agents, servers and sessions         *)
(* (ServerCollection::getServer and removeServer, AgentImpl::Stop).        *)
(***************************************************************************)
THEOREM ServersAreSharedHolds == Spec => []ServersAreShared
<1>1. SrvInv => ServersAreShared
  BY SharedByAgents DEF SrvInv
<1>2. QED
  BY <1>1, Invariance, PTL

(***************************************************************************)
(* A target hears of a session its start, then the texts of the client as  *)
(* they were sent while no read ended within a frame, all of them once     *)
(* they were read, and last its end; the HTTP handler is never used after  *)
(* the upgrade destroyed it (WsHandler::OnData, HttpHandler::OnData,       *)
(* SessionStarted and SessionTerminated).                                  *)
(***************************************************************************)
THEOREM SessionsAreToldHolds == Spec => []SessionsAreTold
<1>1. SrvInv => SessionsAreTold
  BY ToldAsSent
<1>2. QED
  BY <1>1, Invariance, PTL
=============================================================================
