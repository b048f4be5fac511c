------------------------ MODULE InspectorAgentProofs ------------------------
(***************************************************************************)
(* Proofs about InspectorAgent for any number of sessions and messages:    *)
(* messages are processed in the order they were posted, one that waits    *)
(* has a task, and the agent is connected to a frontend that is there.     *)
(***************************************************************************)
EXTENDS InspectorAgent, SequenceTheorems, TLAPS

\* What was posted and not yet processed.
Pending == batch \o incoming_message_queue

\* Entry i of P is of session s; it is message m of s.
Of(P, i, s) == P[i][1] = s
Is(P, i, s, m) == P[i] = <<s, m>>
Has(P, s, m) == \E i \in 1 .. Len(P) : Is(P, i, s, m)

\* The messages of a session wait in the order connect, protocol, disconnect,
\* and the connect is missing only if the agent has seen it.
Ordered(P, s) ==
    /\ \A i, j \in 1 .. Len(P) : Is(P, i, s, "connect") /\ Of(P, j, s) => i <= j
    /\ \A i, j \in 1 .. Len(P) : Is(P, i, s, "disconnect") /\ Of(P, j, s) => j <= i
Started(P, s) ==
    IF session = s THEN ~Has(P, s, "connect")
    ELSE (\E j \in 1 .. Len(P) : Of(P, j, s)) => Has(P, s, "connect")

\* What the server has for the session agrees with them.
ServerAgrees(P, s) ==
    /\ conn[s] = "new" => session # s /\ \A j \in 1 .. Len(P) : ~Of(P, j, s)
    /\ conn[s] \in {"attached", "closing"} =>
          /\ session = s \/ Has(P, s, "connect")
          /\ ~Has(P, s, "disconnect")
    /\ conn[s] = "ended" /\ (session = s \/ Has(P, s, "connect")) =>
          Has(P, s, "disconnect")

SessionInv(s) ==
    Ordered(Pending, s) /\ Started(Pending, s) /\ ServerAgrees(Pending, s)

\* What may call what on the JS thread.
Calls(f, g) ==
    \/ g = "dispatch" /\ f \in {"script", "loop", "spin"}
    \/ g = "evaluate" /\ f = "dispatch"
    \/ g = "loop" /\ f \in {"script", "evaluate", "stop"}
    \/ g = "wait" /\ f \in {"loop", "attach"}

Shape(st) ==
    /\ st # <<>> => st[1] \in {"script", "dispatch", "attach", "spin", "stop"}
    /\ \A i \in 1 .. Len(st) : i > 1 => Calls(st[i - 1], st[i])
    /\ \A i, j \in 1 .. Len(st) :
          st[i] = st[j] /\ st[i] \in {"dispatch", "loop"} => i = j
StackShape == Shape(stack)

\* dispatching_messages_ is set while DispatchMessages is active; before the
\* first message of waitForDebugger nothing was dispatched; and Stop leaves
\* its loop when the session is gone.
StackInv ==
    /\ StackShape
    /\ dispatching_messages <=> \E i \in 1 .. Len(stack) : stack[i] = "dispatch"
    /\ stack # <<>> /\ stack[1] = "attach" => state = "kAccepting"
    /\ stack # <<>> /\ stack[1] = "stop" =>
          /\ shutting_down
          /\ state \in {"kConnected", "kDone"}
          /\ Len(stack) = 1 \/ ~waiting_for_resume => state = "kDone"

RunningInv ==
    /\ StackInv
    /\ state = "kConnected" <=> session # NoSession
    /\ \A s \in Session : SessionInv(s)
    /\ incoming_message_queue # <<>> /\ ~dispatching_messages =>
          tasks > 0 \/ io = "trigger"

IInv ==
    /\ TypeOK
    /\ posted = delivered \o Pending
    /\ Running => RunningInv
    /\ DisconnectChecked

-----------------------------------------------------------------------------
(* The stack of the JS thread.                                             *)

Function == {"script", "evaluate", "dispatch", "loop", "wait", "stop",
             "attach", "spin"}
Entry == {"script", "dispatch", "attach", "spin", "stop"}
InDispatch == \E i \in 1 .. Len(stack) : stack[i] = "dispatch"

(* The agent's functions nest at most five deep.                           *)
LEMMA ShapeBound ==
    ASSUME NEW st \in Seq(Function), Shape(st)
    PROVE  Len(st) <= 5
<1>1. SUFFICES ASSUME Len(st) > 5 PROVE FALSE
  BY LenProperties
<1>2. /\ Len(st) \in Nat
      /\ 1 \in 1 .. Len(st) /\ 2 \in 1 .. Len(st) /\ 3 \in 1 .. Len(st)
      /\ 4 \in 1 .. Len(st) /\ 5 \in 1 .. Len(st) /\ 6 \in 1 .. Len(st)
  BY <1>1, LenProperties
<1>3. /\ Calls(st[1], st[2]) /\ Calls(st[2], st[3])
      /\ Calls(st[3], st[4]) /\ Calls(st[4], st[5])
      /\ Calls(st[5], st[6])
  <2>1. \A i \in 1 .. Len(st) : i > 1 => Calls(st[i - 1], st[i])
    BY DEF Shape
  <2>2. /\ Calls(st[2 - 1], st[2]) /\ Calls(st[3 - 1], st[3])
        /\ Calls(st[4 - 1], st[4]) /\ Calls(st[5 - 1], st[5])
        /\ Calls(st[6 - 1], st[6])
    BY <1>2, <2>1
  <2>3. 2 - 1 = 1 /\ 3 - 1 = 2 /\ 4 - 1 = 3 /\ 5 - 1 = 4 /\ 6 - 1 = 5
    OBVIOUS
  <2>4. QED
    BY <2>2, <2>3
<1>4. \A i, j \in {2, 3, 4, 5, 6} :
         st[i] = st[j] /\ st[i] \in {"dispatch", "loop"} => i = j
  BY <1>2 DEF Shape
<1>5. QED
  BY <1>3, <1>4 DEF Calls

(* A function that nothing calls is at the bottom.                         *)
LEMMA BottomOnly ==
    ASSUME stack \in Seq(Function), StackShape, NEW f, Top(f),
           f \in {"script", "attach", "spin", "stop"}
    PROVE  Len(stack) = 1 /\ stack[1] = f
<1>1. Len(stack) \in Nat \ {0} /\ stack[Len(stack)] = f
  BY EmptySeq, LenProperties DEF Top
<1>2. ASSUME Len(stack) > 1 PROVE FALSE
  <2>1. Len(stack) \in 1 .. Len(stack)
    BY <1>1
  <2>2. Calls(stack[Len(stack) - 1], f)
    BY <1>1, <1>2, <2>1 DEF StackShape, Shape
  <2>3. QED
    BY <2>2 DEF Calls
<1>3. Len(stack) = 1
  <2>1. \A n \in Nat \ {0} : n > 1 \/ n = 1
    OBVIOUS
  <2>2. QED
    BY <1>1, <1>2, <2>1
<1>4. QED
  BY <1>1, <1>3

(* A call.                                                                 *)
LEMMA Pushed ==
    ASSUME stack \in Seq(Function), StackShape, NEW f \in Function,
           stack' = Append(stack, f),
           IF stack = <<>> THEN f \in Entry
           ELSE Calls(stack[Len(stack)], f),
           f \in {"dispatch", "loop"} => \A i \in 1 .. Len(stack) : stack[i] # f
    PROVE  /\ stack' \in Seq(Function) /\ StackShape'
           /\ Len(stack') = Len(stack) + 1 /\ stack' # <<>>
           /\ stack # <<>> => stack'[1] = stack[1]
           /\ stack = <<>> => stack'[1] = f
           /\ InDispatch' <=> InDispatch \/ f = "dispatch"
<1> DEFINE n == Len(stack)
<1>1. /\ n \in Nat /\ stack' \in Seq(Function) /\ Len(stack') = n + 1
      /\ \A i \in 1 .. n : stack'[i] = stack[i]
      /\ stack'[n + 1] = f
      /\ stack = <<>> <=> n = 0
  BY AppendProperties, LenProperties, EmptySeq
<1>2. stack' # <<>>
  BY <1>1, EmptySeq
<1>3. \A i \in 1 .. n : i > 1 => Calls(stack[i - 1], stack[i])
  BY DEF StackShape, Shape
<1>4. \A i, j \in 1 .. n :
         stack[i] = stack[j] /\ stack[i] \in {"dispatch", "loop"} => i = j
  BY DEF StackShape, Shape
<1>5. ASSUME NEW i \in 1 .. n + 1, i > 1 PROVE Calls(stack'[i - 1], stack'[i])
  <2>1. CASE i = n + 1
    <3>1. n \in 1 .. n /\ i - 1 = n /\ stack # <<>>
      BY <1>1, <1>5, <2>1
    <3>2. QED
      BY <1>1, <2>1, <3>1
  <2>2. CASE i \in 1 .. n
    <3>1. i - 1 \in 1 .. n
      BY <1>1, <1>5, <2>2
    <3>2. QED
      BY <1>1, <1>3, <1>5, <2>2, <3>1
  <2>3. i = n + 1 \/ i \in 1 .. n
    BY <1>1
  <2>4. QED
    BY <2>1, <2>2, <2>3
<1>6. stack'[1] \in Entry
  BY <1>1 DEF StackShape, Shape, Entry
<1>7. ASSUME NEW i \in 1 .. n + 1, NEW j \in 1 .. n + 1,
             stack'[i] = stack'[j], stack'[i] \in {"dispatch", "loop"}
      PROVE  i = j
  BY <1>1, <1>4, <1>7
<1>8. StackShape'
  BY <1>1, <1>5, <1>6, <1>7 DEF StackShape, Shape, Entry
<1>9. InDispatch' <=> InDispatch \/ f = "dispatch"
  BY <1>1 DEF InDispatch
<1>10. QED
  BY <1>1, <1>2, <1>8, <1>9

(* A return.                                                               *)
LEMMA Returned ==
    ASSUME stack \in Seq(Function), StackShape, stack # <<>>, Return
    PROVE  /\ stack' \in Seq(Function) /\ StackShape'
           /\ Len(stack') = Len(stack) - 1 /\ Len(stack) \in Nat \ {0}
           /\ stack' = <<>> <=> Len(stack) = 1
           /\ stack' # <<>> => stack'[1] = stack[1]
           /\ InDispatch' <=> InDispatch /\ ~Top("dispatch")
<1>1. Len(stack) \in Nat \ {0} /\ \A i \in 1 .. Len(stack) : stack[i] \in Function
  BY EmptySeq, LenProperties, ElementOfSeq
<1>2. PICK n \in Nat : n = Len(stack) - 1
  BY <1>1
<1>3. \A i \in 1 .. n : stack[i] \in Function
  BY <1>1, <1>2
<1>4. /\ SubSeq(stack, 1, n) \in Seq(Function) /\ Len(SubSeq(stack, 1, n)) = n
      /\ \A i \in 1 .. n : SubSeq(stack, 1, n)[i] = stack[i]
  BY <1>3, SubSeqProperties
<1>5. /\ stack' \in Seq(Function) /\ Len(stack') = n
      /\ \A i \in 1 .. n : stack'[i] = stack[i]
      /\ stack' = <<>> <=> n = 0
  <2>1. stack' = SubSeq(stack, 1, n)
    BY <1>2 DEF Return
  <2>2. QED
    BY <1>4, <2>1, EmptySeq
<1>6. Len(stack) = n + 1
  BY <1>1, <1>2
<1>7. /\ \A i \in 1 .. n + 1 : i > 1 => Calls(stack[i - 1], stack[i])
      /\ \A i, j \in 1 .. n + 1 :
            stack[i] = stack[j] /\ stack[i] \in {"dispatch", "loop"} => i = j
      /\ stack[1] \in Entry
  BY <1>6 DEF StackShape, Shape, Entry
<1>8. ASSUME NEW i \in 1 .. n, i > 1 PROVE Calls(stack'[i - 1], stack'[i])
  <2>1. i - 1 \in 1 .. n /\ i \in 1 .. n + 1
    BY <1>8
  <2>2. QED
    BY <1>5, <1>7, <1>8, <2>1
<1>9. ASSUME NEW i \in 1 .. n, NEW j \in 1 .. n, stack'[i] = stack'[j],
             stack'[i] \in {"dispatch", "loop"}
      PROVE  i = j
  <2>1. i \in 1 .. n + 1 /\ j \in 1 .. n + 1
    OBVIOUS
  <2>2. QED
    BY <1>5, <1>7, <1>9, <2>1
<1>10. StackShape'
  BY <1>5, <1>7, <1>8, <1>9 DEF StackShape, Shape, Entry
<1>11. InDispatch' <=> InDispatch /\ ~Top("dispatch")
  BY <1>5, <1>6, <1>7 DEF InDispatch, Top
<1>12. QED
  BY <1>1, <1>2, <1>5, <1>10, <1>11

-----------------------------------------------------------------------------
(* The messages that wait.                                                 *)

QueueTypes ==
    /\ incoming_message_queue \in Seq(Message) /\ batch \in Seq(Message)
    /\ posted \in Seq(Message) /\ delivered \in Seq(Message)
    /\ posted = delivered \o Pending

LEMMA PendingType ==
    ASSUME QueueTypes
    PROVE  Pending \in Seq(Message) /\ Len(Pending) \in Nat
BY ConcatProperties, LenProperties DEF Pending, QueueTypes

(* A message is posted behind all that wait.                               *)
LEMMA Appended ==
    ASSUME QueueTypes, NEW s \in Session, NEW m \in Tags \cup Protocol,
           AppendMessage(s, m), UNCHANGED <<batch, delivered>>
    PROVE  /\ QueueTypes' /\ Pending' = Append(Pending, <<s, m>>)
           /\ incoming_message_queue' # <<>>
           /\ posted' = Append(posted, <<s, m>>) /\ <<s, m>> \in Message
<1>1. PICK x \in Message : x = <<s, m>>
  BY DEF Message
<1>2. /\ incoming_message_queue' = Append(incoming_message_queue, x)
      /\ posted' = Append(posted, x)
  BY <1>1 DEF AppendMessage
<1>3. /\ incoming_message_queue' \in Seq(Message) /\ posted' \in Seq(Message)
      /\ incoming_message_queue' # <<>>
  <2>1. /\ incoming_message_queue' \in Seq(Message) /\ posted' \in Seq(Message)
        /\ Len(incoming_message_queue') = Len(incoming_message_queue) + 1
        /\ Len(incoming_message_queue) \in Nat
    BY <1>2, AppendProperties, LenProperties DEF QueueTypes
  <2>2. QED
    BY <2>1, EmptySeq
<1>4. Pending' = Append(Pending, x)
  BY <1>2 DEF Pending, QueueTypes
<1>5. posted' = delivered' \o Pending'
  <2>1. delivered \o Append(Pending, x) = Append(delivered \o Pending, x)
    BY PendingType DEF QueueTypes
  <2>2. QED
    BY <1>2, <1>4, <2>1 DEF QueueTypes
<1>6. QED
  BY <1>1, <1>2, <1>3, <1>4, <1>5 DEF QueueTypes

(* The first of them is processed.                                         *)
LEMMA Taken ==
    ASSUME QueueTypes, NEW s \in Session, NEW m \in Tags \cup Protocol,
           NextIs(s, m)
    PROVE  /\ QueueTypes' /\ Len(Pending) \in Nat \ {0}
           /\ Pending[1] = <<s, m>> /\ Len(Pending') = Len(Pending) - 1
           /\ \A i \in 1 .. Len(Pending) - 1 : Pending'[i] = Pending[i + 1]
           /\ Len(delivered) < Len(posted)
           /\ delivered' = Append(delivered, posted[Len(delivered) + 1])
<1>1. PICK x \in Message : x = <<s, m>>
  BY DEF Message
<1>2. /\ batch \in Seq(Message) /\ batch # <<>> /\ Head(batch) = x
      /\ batch' = Tail(batch) /\ delivered' = Append(delivered, x)
      /\ UNCHANGED <<incoming_message_queue, posted>>
  BY <1>1 DEF NextIs, QueueTypes, queueVars
<1>3. PICK q \in Seq(Message) : q = incoming_message_queue
  BY DEF QueueTypes
<1>4. PICK r \in Seq(Message) : r = batch' /\ batch = <<x>> \o r
  <2>1. Tail(batch) \in Seq(Message) /\ batch = <<Head(batch)>> \o Tail(batch)
    BY <1>2, HeadTailProperties
  <2>2. QED
    BY <1>2, <2>1
<1>5. Pending = <<x>> \o Pending' /\ Pending' = r \o q /\ Pending' \in Seq(Message)
  BY <1>2, <1>3, <1>4 DEF Pending
<1>6. PICK P \in Seq(Message) : P = Pending'
  BY <1>5
<1>7. /\ Len(P) \in Nat /\ Len(<<x>> \o P) = Len(P) + 1
      /\ (<<x>> \o P)[1] = x /\ \A i \in 1 .. Len(P) : (<<x>> \o P)[i + 1] = P[i]
  <2>1. /\ <<x>> \in Seq(Message) /\ Len(<<x>>) = 1 /\ <<x>>[1] = x
        /\ Len(P) \in Nat
    BY LenProperties
  <2>2. /\ Len(<<x>> \o P) = Len(<<x>>) + Len(P)
        /\ \A i \in 1 .. Len(<<x>>) + Len(P) :
              (<<x>> \o P)[i] = IF i <= Len(<<x>>) THEN <<x>>[i]
                                ELSE P[i - Len(<<x>>)]
    BY <2>1, ConcatProperties
  <2>3. \A i \in 1 .. 1 + Len(P) :
           (<<x>> \o P)[i] = IF i <= 1 THEN x ELSE P[i - 1]
    BY <2>1, <2>2
  <2>4. ASSUME NEW i \in 1 .. Len(P) PROVE (<<x>> \o P)[i + 1] = P[i]
    <3>1. i + 1 \in 1 .. 1 + Len(P) /\ ~(i + 1 <= 1) /\ (i + 1) - 1 = i
      BY <2>1
    <3>2. QED
      BY <2>3, <3>1
  <2>5. QED
    BY <2>1, <2>2, <2>3, <2>4
<1>8. PICK d \in Seq(Message) : d = delivered
  BY DEF QueueTypes
<1>9. posted = d \o (<<x>> \o P) /\ posted = Append(d, x) \o P
  <2>1. posted = d \o (<<x>> \o P)
    BY <1>5, <1>6, <1>8 DEF QueueTypes
  <2>2. <<x>> \in Seq(Message) /\ Append(d, x) = d \o <<x>>
    BY AppendIsConcat
  <2>3. d \o (<<x>> \o P) = (d \o <<x>>) \o P
    BY <2>2, ConcatAssociative, SMTT(40)
  <2>4. QED
    BY <2>1, <2>2, <2>3
<1>10. /\ Len(d) \in Nat /\ Len(posted) = Len(d) + (Len(P) + 1)
       /\ posted[Len(d) + 1] = x
  <2>1. /\ Append(d, x) \in Seq(Message) /\ Len(Append(d, x)) = Len(d) + 1
        /\ Len(d) \in Nat /\ Append(d, x)[Len(d) + 1] = x
    BY AppendProperties, LenProperties
  <2>2. /\ Len(Append(d, x) \o P) = Len(Append(d, x)) + Len(P)
        /\ \A i \in 1 .. Len(Append(d, x)) + Len(P) :
              (Append(d, x) \o P)[i] =
                 IF i <= Len(Append(d, x)) THEN Append(d, x)[i]
                 ELSE P[i - Len(Append(d, x))]
    BY <2>1, ConcatProperties
  <2>3. QED
    BY <1>7, <1>9, <2>1, <2>2
<1>11. QueueTypes'
  BY <1>1, <1>2, <1>4, <1>6, <1>8, <1>9, AppendProperties DEF QueueTypes
<1>12. QED
  <2>1. Len(Pending) = Len(P) + 1 /\ Pending[1] = x
        /\ \A i \in 1 .. Len(P) : Pending[i + 1] = P[i]
    BY <1>5, <1>6, <1>7
  <2>2. Len(Pending) - 1 = Len(P)
    BY <1>7, <2>1
  <2>3. QED
    BY <1>1, <1>2, <1>6, <1>7, <1>8, <1>10, <1>11, <2>1, <2>2

-----------------------------------------------------------------------------
(* The sessions.                                                           *)

ConnType == conn \in [Session -> {"new", "attached", "closing", "ended"}]

LEMMA SessionsSame ==
    ASSUME \A q \in Session : SessionInv(q), Pending' = Pending,
           UNCHANGED <<session, conn>>
    PROVE  \A q \in Session : SessionInv(q)'
BY DEF SessionInv, Ordered, Started, ServerAgrees

(* What the I/O thread, or Stop, posts for a session.                      *)
LEMMA SessionsPosted ==
    ASSUME QueueTypes, ConnType, ConnType', \A q \in Session : SessionInv(q),
           NEW s \in Session, NEW m \in Tags \cup Protocol,
           Pending' = Append(Pending, <<s, m>>), UNCHANGED session,
           \A q \in Session : q # s => conn'[q] = conn[q],
           \/ m = "connect" /\ conn[s] = "new" /\ conn'[s] = "attached"
           \/ /\ m \in Protocol /\ conn[s] \in {"attached", "closing"}
              /\ conn'[s] = conn[s]
           \/ /\ m = "disconnect" /\ conn[s] \in {"attached", "closing"}
              /\ conn'[s] = "ended"
    PROVE  \A q \in Session : SessionInv(q)'
<1>0. PICK P, Q : P = Pending /\ Q = Pending'
  OBVIOUS
<1>1. PICK n \in Nat : P = Pending /\ Q = Pending' /\ n = Len(P)
  BY <1>0, PendingType
<1>2. /\ P \in Seq(Message) /\ Len(Q) = n + 1 /\ \A i \in 1 .. n : Q[i] = P[i]
      /\ Q[n + 1] = <<s, m>>
  <2>1. <<s, m>> \in Message
    BY DEF Message
  <2>2. QED
    BY <1>1, <2>1, PendingType, AppendProperties
<1>3. \A q \in Session : /\ Ordered(P, q) /\ Started(P, q) /\ ServerAgrees(P, q)
  BY <1>1 DEF SessionInv
<1>4. SUFFICES ASSUME NEW q \in Session
               PROVE  Ordered(Q, q) /\ Started(Q, q)' /\ ServerAgrees(Q, q)'
  BY <1>1 DEF SessionInv
<1>5. \A i \in 1 .. n : /\ Of(Q, i, q) <=> Of(P, i, q)
                        /\ \A x : Is(Q, i, q, x) <=> Is(P, i, q, x)
  BY <1>2 DEF Of, Is
<1>6. Of(Q, n + 1, q) <=> q = s
  BY <1>2 DEF Of
<1>7. \A x : Is(Q, n + 1, q, x) <=> q = s /\ x = m
  BY <1>2 DEF Is
<1>8. \A x : Has(Q, q, x) <=> Has(P, q, x) \/ (q = s /\ x = m)
  <2>1. ASSUME NEW x, NEW i \in 1 .. n + 1, Is(Q, i, q, x)
        PROVE  Has(P, q, x) \/ (q = s /\ x = m)
    <3>1. i \in 1 .. n \/ i = n + 1
      OBVIOUS
    <3>2. QED
      BY <1>1, <1>5, <1>7, <2>1, <3>1 DEF Has
  <2>2. ASSUME NEW x, NEW i \in 1 .. n, Is(P, i, q, x) PROVE Has(Q, q, x)
    <3>1. i \in 1 .. n + 1 /\ Is(Q, i, q, x)
      BY <1>5, <2>2
    <3>2. QED
      BY <1>2, <3>1 DEF Has
  <2>3. n + 1 \in 1 .. n + 1
    OBVIOUS
  <2>4. QED
    BY <1>1, <1>2, <1>7, <2>1, <2>2, <2>3 DEF Has
<1>9. \A i \in 1 .. n + 1 : i \in 1 .. n \/ i = n + 1
  OBVIOUS
<1>10. \A i \in 1 .. n : \A x : Is(P, i, q, x) => Of(P, i, q) /\ Has(P, q, x)
  BY <1>1 DEF Is, Of, Has
<1>11. CASE q # s
  <2>1. Ordered(Q, q)
    <3>1. ASSUME NEW i \in 1 .. n + 1, NEW x, Of(Q, i, q) \/ Is(Q, i, q, x)
          PROVE  i \in 1 .. n
      BY <1>6, <1>7, <1>9, <1>11, <3>1
    <3>2. QED
      BY <1>1, <1>2, <1>3, <1>5, <3>1 DEF Ordered
  <2>2. (\E j \in 1 .. n + 1 : Of(Q, j, q)) <=> (\E j \in 1 .. n : Of(P, j, q))
    BY <1>5, <1>6, <1>9, <1>11
  <2>3. \A x : Has(Q, q, x) <=> Has(P, q, x)
    BY <1>8, <1>11
  <2>4. Started(Q, q)' /\ ServerAgrees(Q, q)'
    BY <1>1, <1>2, <1>3, <1>11, <2>2, <2>3 DEF Started, ServerAgrees
  <2>5. QED
    BY <2>1, <2>4
<1>12. CASE q = s
  <2>1. \A i \in 1 .. n : m = "connect" => ~Of(P, i, q)
    BY <1>1, <1>3, <1>12 DEF ServerAgrees, Tags, Protocol
  <2>2. ~Has(P, q, "disconnect")
    <3>1. CASE m = "connect"
      BY <1>1, <1>10, <2>1, <3>1 DEF Has
    <3>2. CASE m # "connect"
      BY <1>3, <1>12, <3>2 DEF ServerAgrees
    <3>3. QED
      BY <3>1, <3>2
  <2>3. \A i \in 1 .. n : ~Is(P, i, q, "disconnect")
    BY <1>1, <2>2 DEF Has
  <2>4. ASSUME NEW i \in 1 .. n + 1, NEW j \in 1 .. n + 1,
               Is(Q, i, q, "connect"), Of(Q, j, q)
        PROVE  i <= j
    <3>1. CASE i = n + 1
      <4>1. m = "connect"
        BY <1>7, <2>4, <3>1
      <4>2. j = n + 1
        BY <1>5, <1>9, <2>1, <2>4, <4>1
      <4>3. QED
        BY <3>1, <4>2
    <3>2. CASE i \in 1 .. n
      <4>1. CASE j = n + 1
        BY <3>2, <4>1
      <4>2. CASE j \in 1 .. n
        BY <1>1, <1>3, <1>5, <2>4, <3>2, <4>2 DEF Ordered
      <4>3. QED
        BY <1>9, <4>1, <4>2
    <3>3. QED
      BY <1>9, <3>1, <3>2
  <2>5. ASSUME NEW i \in 1 .. n + 1, NEW j \in 1 .. n + 1,
               Is(Q, i, q, "disconnect"), Of(Q, j, q)
        PROVE  j <= i
    <3>1. i = n + 1
      BY <1>5, <1>9, <2>3, <2>5
    <3>2. QED
      BY <3>1
  <2>6. Ordered(Q, q)
    BY <1>2, <2>4, <2>5 DEF Ordered
  <2>7. CASE m = "connect"
    <3>1. conn'[q] = "attached" /\ session # q /\ Has(Q, q, "connect")
      BY <1>3, <1>8, <1>12, <2>7 DEF ServerAgrees, Tags, Protocol
    <3>2. ~Has(Q, q, "disconnect")
      BY <1>8, <2>2, <2>7
    <3>3. QED
      BY <2>6, <3>1, <3>2 DEF Started, ServerAgrees
  <2>8. CASE m # "connect"
    <3>1. /\ conn[q] \in {"attached", "closing"}
          /\ session = q \/ Has(P, q, "connect")
          /\ session = q => ~Has(P, q, "connect")
      BY <1>3, <1>12, <2>8 DEF ServerAgrees, Started
    <3>2. Has(Q, q, "connect") <=> Has(P, q, "connect")
      BY <1>8, <2>8
    <3>3. Started(Q, q)'
      BY <3>1, <3>2 DEF Started
    <3>4. ServerAgrees(Q, q)'
      <4>1. CASE m = "disconnect"
        <5>1. conn'[q] = "ended" /\ Has(Q, q, "disconnect")
          BY <1>8, <1>12, <4>1 DEF Protocol
        <5>2. QED
          BY <5>1 DEF ServerAgrees
      <4>2. CASE m # "disconnect"
        <5>1. conn'[q] = conn[q] /\ ~Has(Q, q, "disconnect")
          BY <1>8, <1>12, <2>2, <2>8, <4>2
        <5>2. QED
          BY <3>1, <3>2, <5>1 DEF ServerAgrees
      <4>3. QED
        BY <4>1, <4>2
    <3>5. QED
      BY <2>6, <3>3, <3>4
  <2>9. QED
    BY <2>7, <2>8
<1>13. QED
  BY <1>11, <1>12

(* The first message that waits is a connect or of the agent's session.    *)
LEMMA FirstIsOfSession ==
    ASSUME QueueTypes, ConnType, \A q \in Session : SessionInv(q),
           session \in Session \cup {NoSession},
           NEW s \in Session, NEW m \in Tags \cup Protocol,
           Len(Pending) \in Nat \ {0}, Pending[1] = <<s, m>>,
           Len(Pending') = Len(Pending) - 1,
           \A i \in 1 .. Len(Pending) - 1 : Pending'[i] = Pending[i + 1],
           UNCHANGED conn
    PROVE  m # "connect" => session = s
<1>0. PICK P, Q : P = Pending /\ Q = Pending'
  OBVIOUS
<1>1. PICK n \in Nat : /\ P = Pending /\ Q = Pending' /\ Len(P) = n + 1
                       /\ n = Len(P) - 1
  <2>1. Len(Pending) - 1 \in Nat /\ Len(Pending) = (Len(Pending) - 1) + 1
    OBVIOUS
  <2>2. QED
    BY <1>0, <2>1
<1>2. Len(Q) = n /\ P[1] = <<s, m>> /\ \A i \in 1 .. n : Q[i] = P[i + 1]
  BY <1>1
<1>3. \A q \in Session : /\ Ordered(P, q) /\ Started(P, q) /\ ServerAgrees(P, q)
  BY <1>1 DEF SessionInv
<1>4. 1 \in 1 .. n + 1 /\ Is(P, 1, s, m) /\ Of(P, 1, s)
  BY <1>2 DEF Is, Of
<1>5. QED
  <2>1. SUFFICES ASSUME m # "connect", session # s PROVE FALSE
    OBVIOUS
  <2>2. PICK i \in 1 .. n + 1 : Is(P, i, s, "connect")
    BY <1>1, <1>3, <1>4, <2>1 DEF Started, Has
  <2>3. i <= 1
    BY <1>1, <1>3, <1>4, <2>2 DEF Ordered
  <2>4. i = 1
    BY <2>3
  <2>5. QED
    BY <1>2, <2>1, <2>2, <2>4 DEF Is

(* The agent processes the first message that waits, a connect only while  *)
(* it has no session.                                                      *)
LEMMA SessionsProcessed ==
    ASSUME QueueTypes, ConnType, \A q \in Session : SessionInv(q),
           session \in Session \cup {NoSession},
           NEW s \in Session, NEW m \in Tags \cup Protocol,
           Len(Pending) \in Nat \ {0}, Pending[1] = <<s, m>>,
           Len(Pending') = Len(Pending) - 1,
           \A i \in 1 .. Len(Pending) - 1 : Pending'[i] = Pending[i + 1],
           UNCHANGED conn,
           session' = IF m = "connect" THEN s
                      ELSE IF m = "disconnect" THEN NoSession ELSE session,
           m = "connect" => session = NoSession
    PROVE  \A q \in Session : SessionInv(q)'
<1>0. PICK P, Q : P = Pending /\ Q = Pending'
  OBVIOUS
<1>1. PICK n \in Nat : /\ P = Pending /\ Q = Pending' /\ Len(P) = n + 1
                       /\ n = Len(P) - 1
  <2>1. Len(Pending) - 1 \in Nat /\ Len(Pending) = (Len(Pending) - 1) + 1
    OBVIOUS
  <2>2. QED
    BY <1>0, <2>1
<1>2. Len(Q) = n /\ P[1] = <<s, m>> /\ \A i \in 1 .. n : Q[i] = P[i + 1]
  BY <1>1
<1>3. \A q \in Session : /\ Ordered(P, q) /\ Started(P, q) /\ ServerAgrees(P, q)
  BY <1>1 DEF SessionInv
<1>4. 1 \in 1 .. n + 1 /\ Is(P, 1, s, m) /\ Of(P, 1, s)
  BY <1>2 DEF Is, Of
<1>5. m # "connect" => session = s
  BY FirstIsOfSession
<1>6. SUFFICES ASSUME NEW q \in Session
               PROVE  Ordered(Q, q) /\ Started(Q, q)' /\ ServerAgrees(Q, q)'
  BY <1>1 DEF SessionInv
<1>7. \A i \in 1 .. n : /\ i + 1 \in 1 .. n + 1
                        /\ Of(Q, i, q) <=> Of(P, i + 1, q)
                        /\ \A x : Is(Q, i, q, x) <=> Is(P, i + 1, q, x)
  BY <1>2 DEF Of, Is
<1>8. Ordered(Q, q)
  <2>1. ASSUME NEW i \in 1 .. n, NEW j \in 1 .. n,
               Is(Q, i, q, "connect"), Of(Q, j, q)
        PROVE  i <= j
    <3>1. i + 1 <= j + 1
      BY <1>1, <1>3, <1>7, <2>1 DEF Ordered
    <3>2. QED
      BY <3>1
  <2>2. ASSUME NEW i \in 1 .. n, NEW j \in 1 .. n,
               Is(Q, i, q, "disconnect"), Of(Q, j, q)
        PROVE  j <= i
    <3>1. j + 1 <= i + 1
      BY <1>1, <1>3, <1>7, <2>2 DEF Ordered
    <3>2. QED
      BY <3>1
  <2>3. QED
    BY <1>2, <2>1, <2>2 DEF Ordered
<1>9. \A x : Has(Q, q, x) => Has(P, q, x)
  BY <1>1, <1>2, <1>7 DEF Has
<1>10. ASSUME NEW x, Has(P, q, x), ~(q = s /\ x = m) PROVE Has(Q, q, x)
  <2>1. PICK i \in 1 .. n + 1 : Is(P, i, q, x)
    BY <1>1, <1>10 DEF Has
  <2>2. i # 1
    BY <1>2, <1>10, <2>1 DEF Is
  <2>3. PICK k \in 1 .. n : i = k + 1
    <3>1. i - 1 \in 1 .. n /\ i = (i - 1) + 1
      BY <2>2
    <3>2. QED
      BY <3>1
  <2>4. QED
    BY <1>2, <1>7, <2>1, <2>3 DEF Has
<1>11. (\E j \in 1 .. n : Of(Q, j, q)) => (\E j \in 1 .. n + 1 : Of(P, j, q))
  BY <1>7
<1>12. CASE q # s
  <2>1. \A x : Has(Q, q, x) <=> Has(P, q, x)
    BY <1>9, <1>10, <1>12
  <2>2. session' = q <=> session = q
    BY <1>5, <1>12, SessionAssumption
  <2>3. QED
    BY <1>1, <1>2, <1>3, <1>8, <1>11, <2>1, <2>2 DEF Started, ServerAgrees
<1>13. CASE q = s
  <2>1. ~Has(Q, q, "connect")
    <3>1. SUFFICES ASSUME NEW i \in 1 .. n, Is(P, i + 1, q, "connect")
                   PROVE  FALSE
      BY <1>2, <1>7 DEF Has
    <3>2. i + 1 <= 1
      BY <1>1, <1>3, <1>4, <1>7, <1>13, <3>1 DEF Ordered
    <3>3. QED
      BY <3>2
  <2>2. conn[q] # "new"
    BY <1>1, <1>3, <1>4, <1>13 DEF ServerAgrees
  <2>3. CASE m = "disconnect"
    <3>1. \A j \in 1 .. n : ~Of(Q, j, q)
      <4>1. SUFFICES ASSUME NEW j \in 1 .. n, Of(P, j + 1, q) PROVE FALSE
        BY <1>7
      <4>2. j + 1 <= 1
        BY <1>1, <1>3, <1>4, <1>7, <1>13, <2>3, <4>1 DEF Ordered
      <4>3. QED
        BY <4>2
    <3>2. session' # q
      BY <2>3, SessionAssumption
    <3>3. conn[q] \notin {"attached", "closing"}
      <4>1. Has(P, q, "disconnect")
        BY <1>1, <1>4, <1>13, <2>3 DEF Has
      <4>2. QED
        BY <1>3, <4>1 DEF ServerAgrees
    <3>4. QED
      BY <1>2, <1>8, <2>1, <2>2, <3>1, <3>2, <3>3 DEF Started, ServerAgrees
  <2>4. CASE m # "disconnect"
    <3>1. session' = q
      BY <1>5, <1>13, <2>4
    <3>2. Has(Q, q, "disconnect") <=> Has(P, q, "disconnect")
      BY <1>9, <1>10, <2>4
    <3>3. session = q \/ Has(P, q, "connect")
      BY <1>1, <1>4, <1>5, <1>13 DEF Has
    <3>4. QED
      BY <1>2, <1>3, <1>8, <2>1, <2>2, <3>1, <3>2, <3>3
      DEF Started, ServerAgrees
  <2>5. QED
    BY <2>3, <2>4
<1>14. QED
  BY <1>12, <1>13

-----------------------------------------------------------------------------
(* The stack together with the flags of the agent.                         *)

LEMMA SameStack ==
    ASSUME StackInv, UNCHANGED <<stack, shutting_down, dispatching_messages,
                                 state, waiting_for_resume>>
    PROVE  StackInv'
BY DEF StackInv, StackShape, Shape

LEMMA PushStack ==
    ASSUME stack \in Seq(Function), StackInv, NEW f \in Function, Push(f),
           IF stack = <<>> THEN f \in {"script", "dispatch"}
           ELSE Calls(stack[Len(stack)], f),
           f = "dispatch" => ~dispatching_messages,
           f = "loop" => ~running_nested_loop,
           dispatching_messages' <=> dispatching_messages \/ f = "dispatch",
           UNCHANGED <<state, shutting_down>>,
           stack # <<>> /\ stack[1] = "stop" /\ waiting_for_resume =>
               waiting_for_resume'
    PROVE  stack' \in Seq(Function) /\ Len(stack') <= 5 /\ StackInv'
<1>1. /\ StackShape /\ Len(stack) \in Nat /\ DOMAIN stack = 1 .. Len(stack)
      /\ dispatching_messages <=> InDispatch
  BY LenProperties DEF StackInv, InDispatch
<1>2. f \in {"dispatch", "loop"} => \A i \in 1 .. Len(stack) : stack[i] # f
  BY <1>1 DEF InDispatch, running_nested_loop
<1>3. IF stack = <<>> THEN f \in Entry ELSE Calls(stack[Len(stack)], f)
  BY DEF Entry
<1>4. /\ stack' \in Seq(Function) /\ StackShape'
      /\ Len(stack') = Len(stack) + 1 /\ stack' # <<>>
      /\ stack # <<>> => stack'[1] = stack[1]
      /\ stack = <<>> => stack'[1] = f
      /\ InDispatch' <=> InDispatch \/ f = "dispatch"
  BY <1>1, <1>2, <1>3, Pushed DEF Push
<1>5. Len(stack') <= 5
  BY <1>4, ShapeBound DEF StackShape
<1>6. stack # <<>> => Len(stack') # 1
  BY <1>1, <1>4, EmptySeq
<1>7. StackInv'
  BY <1>1, <1>4, <1>6 DEF StackInv, InDispatch
<1>8. QED
  BY <1>4, <1>5, <1>7

LEMMA ReturnStack ==
    ASSUME stack \in Seq(Function), Len(stack) <= 5, StackInv, stack # <<>>,
           Return, Top("loop") => ~waiting_for_resume,
           dispatching_messages' <=> dispatching_messages /\ ~Top("dispatch"),
           UNCHANGED <<state, shutting_down, waiting_for_resume>>
    PROVE  stack' \in Seq(Function) /\ Len(stack') <= 5 /\ StackInv'
<1>1. /\ StackShape /\ Len(stack) \in Nat
      /\ dispatching_messages <=> InDispatch
  BY LenProperties DEF StackInv, InDispatch
<1>2. /\ stack' \in Seq(Function) /\ StackShape'
      /\ Len(stack') = Len(stack) - 1 /\ Len(stack) \in Nat \ {0}
      /\ stack' = <<>> <=> Len(stack) = 1
      /\ stack' # <<>> => stack'[1] = stack[1]
      /\ InDispatch' <=> InDispatch /\ ~Top("dispatch")
  BY <1>1, Returned
<1>3. ASSUME stack' # <<>>, stack'[1] = "stop", Len(stack') = 1
      PROVE  state = "kDone"
  <2>1. Len(stack) = 2 /\ stack[1] = "stop"
    <3>1. \A n \in Nat \ {0} : n - 1 = 1 => n = 2
      OBVIOUS
    <3>2. QED
      BY <1>2, <1>3, <3>1
  <2>2. Calls(stack[2 - 1], stack[2])
    BY <1>1, <2>1 DEF StackShape, Shape
  <2>3. stack[2] = "loop"
    BY <2>1, <2>2 DEF Calls
  <2>4. Top("loop")
    BY <2>1, <2>3 DEF Top
  <2>5. QED
    BY <2>1, <2>4 DEF StackInv
<1>4. StackInv'
  BY <1>1, <1>2, <1>3 DEF StackInv, InDispatch
<1>5. Len(stack') <= 5
  BY <1>2
<1>6. QED
  BY <1>2, <1>4, <1>5

(* A call of DispatchMessages, from where the code makes it.               *)
LEMMA CallStack ==
    ASSUME stack \in Seq(Function), Len(stack) <= 5, StackInv,
           Idle \/ InScript \/ Top("loop") \/ Top("spin"),
           CallDispatchMessages, UNCHANGED <<state, shutting_down>>,
           UNCHANGED waiting_for_resume
    PROVE  /\ stack' \in Seq(Function) /\ Len(stack') <= 5 /\ StackInv'
           /\ dispatching_messages'
<1>1. CASE dispatching_messages
  BY <1>1 DEF CallDispatchMessages, StackInv, StackShape, Shape
<1>2. CASE ~dispatching_messages
  <2>1. Push("dispatch") /\ dispatching_messages'
    BY <1>2 DEF CallDispatchMessages, Push
  <2>2. stack # <<>> => Calls(stack[Len(stack)], "dispatch")
    <3>1. SUFFICES ASSUME stack # <<>>
                   PROVE  stack[Len(stack)] \in {"script", "loop", "spin"}
      BY DEF Calls
    <3>2. ~Top("evaluate")
      <4>1. SUFFICES ASSUME Top("evaluate") PROVE FALSE
        OBVIOUS
      <4>2. Len(stack) \in Nat \ {0} /\ stack[Len(stack)] = "evaluate"
        BY <4>1, EmptySeq, LenProperties DEF Top
      <4>3. Len(stack) # 1
        BY <4>2 DEF StackInv, StackShape, Shape
      <4>4. Len(stack) \in 1 .. Len(stack) /\ Len(stack) > 1
            /\ Len(stack) - 1 \in 1 .. Len(stack)
        <5>1. \A n \in Nat \ {0} :
                 n # 1 => n \in 1 .. n /\ n > 1 /\ n - 1 \in 1 .. n
          OBVIOUS
        <5>2. QED
          BY <4>2, <4>3, <5>1
      <4>5. Calls(stack[Len(stack) - 1], "evaluate")
        BY <4>2, <4>4 DEF StackInv, StackShape, Shape
      <4>6. stack[Len(stack) - 1] = "dispatch"
        BY <4>5 DEF Calls
      <4>7. QED
        BY <1>2, <4>4, <4>6 DEF StackInv
    <3>3. QED
      BY <3>1, <3>2 DEF Idle, InScript, Top
  <2>3. "dispatch" \in Function
    BY DEF Function
  <2>4. QED
    BY <1>2, <2>1, <2>2, <2>3, PushStack
<1>3. QED
  BY <1>1, <1>2

-----------------------------------------------------------------------------
(* The actions.                                                            *)

Flags ==
    /\ state \in {"kNew", "kAccepting", "kConnected", "kDone"}
    /\ session \in Session \cup {NoSession}
    /\ waiting_for_frontend \in BOOLEAN /\ shutting_down \in BOOLEAN
    /\ waiting_for_resume \in BOOLEAN /\ dispatching_messages \in BOOLEAN
    /\ target \in BOOLEAN
    /\ waiter \in {"no", "checked", "blocked", "woken"}
    /\ tasks \in Nat /\ interrupts \in Nat
    /\ io \in {"poll", "trigger", "notify"}
    /\ failure \in {"none", "connect", "disconnect", "nullSession"}

StackTypes == stack \in Seq(Function) /\ Len(stack) <= 5

Connected == state = "kConnected" <=> session # NoSession

Waits == incoming_message_queue # <<>> /\ ~dispatching_messages =>
            tasks > 0 \/ io = "trigger"

LEMMA Facts ==
    ASSUME IInv, Running
    PROVE  /\ Flags /\ QueueTypes /\ ConnType /\ StackTypes
           /\ StackInv /\ Connected /\ Waits /\ \A q \in Session : SessionInv(q)
<1>1. TypeOK /\ posted = delivered \o Pending /\ RunningInv
  BY DEF IInv
<1>2. Flags
  BY <1>1 DEF TypeOK, Flags
<1>3. QueueTypes /\ ConnType /\ StackTypes
  BY <1>1 DEF TypeOK, QueueTypes, ConnType, StackTypes, Function
<1>4. StackInv /\ Connected /\ Waits /\ \A q \in Session : SessionInv(q)
  BY <1>1 DEF RunningInv, Connected, Waits
<1>5. QED
  BY <1>2, <1>3, <1>4

LEMMA Finish ==
    ASSUME Flags', QueueTypes', ConnType', StackTypes', DisconnectChecked',
           Running' => /\ StackInv' /\ Connected' /\ Waits'
                       /\ \A q \in Session : SessionInv(q)'
    PROVE  IInv'
<1>1. TypeOK'
  BY DEF TypeOK, Flags, QueueTypes, ConnType, StackTypes, Function
<1>2. Running' => RunningInv'
  BY DEF RunningInv, Connected, Waits
<1>3. QED
  BY <1>1, <1>2 DEF IInv, QueueTypes

(* What a step leaves alone keeps its part of the invariant.               *)
LEMMA QueuesSame ==
    ASSUME QueueTypes, UNCHANGED <<batch, delivered, incoming_message_queue,
                                   posted>>
    PROVE  QueueTypes' /\ Pending' = Pending
BY DEF QueueTypes, Pending

LEMMA ConnTypeSame ==
    ASSUME ConnType, UNCHANGED conn PROVE ConnType'
BY DEF ConnType

(* Something is posted by the I/O thread.                                  *)
LEMMA PostKeeps ==
    ASSUME IInv, Running, io = "poll",
           NEW s \in Session, NEW m \in Tags \cup Protocol,
           PostIncomingMessage(s, m), ConnType',
           \A q \in Session : q # s => conn'[q] = conn[q],
           \/ m = "connect" /\ conn[s] = "new" /\ conn'[s] = "attached"
           \/ /\ m \in Protocol /\ conn[s] \in {"attached", "closing"}
              /\ conn'[s] = conn[s]
           \/ /\ m = "disconnect" /\ conn[s] \in {"attached", "closing"}
              /\ conn'[s] = "ended"
    PROVE  IInv'
<1>1. /\ Flags /\ QueueTypes /\ ConnType /\ StackTypes
      /\ StackInv /\ Connected /\ Waits /\ \A q \in Session : SessionInv(q)
  BY Facts
<1>2. /\ AppendMessage(s, m)
      /\ io' = IF incoming_message_queue = <<>> THEN "trigger" ELSE "notify"
      /\ UNCHANGED <<agentVars, jsVars, wakeVars, target, failure>>
  BY DEF PostIncomingMessage, TriggerPumping
<1>3. QueueTypes' /\ Pending' = Append(Pending, <<s, m>>)
  BY <1>1, <1>2, Appended DEF jsVars
<1>4. \A q \in Session : SessionInv(q)'
  <2>1. UNCHANGED session
    BY <1>2 DEF agentVars
  <2>2. QED
    BY <1>1, <1>3, <2>1, SessionsPosted
<1>5. Flags' /\ StackTypes' /\ Connected' /\ DisconnectChecked'
  BY <1>1, <1>2 DEF Flags, StackTypes, Connected, DisconnectChecked, Running,
                    agentVars, jsVars, wakeVars
<1>6. StackInv'
  BY <1>1, <1>2, SameStack DEF agentVars, jsVars
<1>7. Waits'
  BY <1>1, <1>2 DEF Waits, jsVars, wakeVars
<1>8. QED
  BY <1>3, <1>4, <1>5, <1>6, <1>7, Finish

LEMMA PeerKeeps ==
    ASSUME IInv, Peer
    PROVE  IInv'
<1>1. CASE \E s \in Session : SessionStarted(s)
  <2>1. PICK s \in Session : SessionStarted(s)
    BY <1>1
  <2>2. Running /\ ConnType /\ "connect" \in Tags \cup Protocol
    BY <2>1, Facts DEF SessionStarted, Tags
  <2>3. /\ ConnType' /\ conn[s] = "new" /\ conn'[s] = "attached"
        /\ \A q \in Session : q # s => conn'[q] = conn[q]
    BY <2>1, <2>2 DEF SessionStarted, ConnType
  <2>4. QED
    BY <2>1, <2>2, <2>3, PostKeeps DEF SessionStarted
<1>2. CASE \E s \in Session, m \in Protocol : MessageReceived(s, m)
  <2>1. PICK s \in Session, m \in Protocol : MessageReceived(s, m)
    BY <1>2
  <2>2. Running /\ ConnType /\ m \in Tags \cup Protocol
    BY <2>1, Facts DEF MessageReceived
  <2>3. /\ ConnType' /\ conn[s] \in {"attached", "closing"} /\ conn' = conn
    BY <2>1, <2>2 DEF MessageReceived, ConnType
  <2>4. QED
    BY <2>1, <2>2, <2>3, PostKeeps DEF MessageReceived
<1>3. CASE \E s \in Session : SessionTerminated(s)
  <2>1. PICK s \in Session : SessionTerminated(s)
    BY <1>3
  <2>2. Running /\ ConnType /\ "disconnect" \in Tags \cup Protocol
    BY <2>1, Facts DEF SessionTerminated, Tags
  <2>3. /\ ConnType' /\ conn[s] \in {"attached", "closing"} /\ conn'[s] = "ended"
        /\ \A q \in Session : q # s => conn'[q] = conn[q]
    BY <2>1, <2>2 DEF SessionTerminated, ConnType
  <2>4. QED
    BY <2>1, <2>2, <2>3, PostKeeps DEF SessionTerminated
<1>4. QED
  BY <1>1, <1>2, <1>3 DEF Peer

(* The wake-ups.                                                           *)
LEMMA WakeKeeps ==
    ASSUME IInv, PostTask \/ NotifyMessageReceived
    PROVE  IInv'
<1>0. Running
  BY DEF PostTask, NotifyMessageReceived
<1>1. /\ Flags /\ QueueTypes /\ ConnType /\ StackTypes
      /\ StackInv /\ Connected /\ Waits /\ \A q \in Session : SessionInv(q)
  BY <1>0, Facts
<1>2. UNCHANGED <<agentVars, queueVars, batch, delivered, stack,
                  dispatching_messages, conn, target, failure>>
  BY DEF PostTask, NotifyMessageReceived, jsVars
<1>3. QueueTypes' /\ Pending' = Pending
  BY <1>1, <1>2, QueuesSame DEF queueVars
<1>4. ConnType' /\ \A q \in Session : SessionInv(q)'
  BY <1>1, <1>2, <1>3, ConnTypeSame, SessionsSame DEF agentVars
<1>5. Flags'
  BY <1>1, <1>2 DEF PostTask, NotifyMessageReceived, Flags, agentVars, jsVars,
                    wakeVars
<1>6. StackTypes' /\ Connected' /\ DisconnectChecked' /\ StackInv'
  BY <1>0, <1>1, <1>2, SameStack
  DEF StackTypes, Connected, DisconnectChecked, Running, agentVars
<1>7. Waits'
  BY <1>1, <1>2 DEF PostTask, NotifyMessageReceived, Waits, Flags, queueVars,
                    wakeVars
<1>8. QED
  BY <1>3, <1>4, <1>5, <1>6, <1>7, Finish

(* A step that changes neither the messages that wait nor the sessions has *)
(* to account for the stack and for the flags only.                        *)
LEMMA QuietKeeps ==
    ASSUME IInv, Running, Flags', StackTypes', StackInv', Connected', Waits',
           UNCHANGED <<batch, delivered, incoming_message_queue, posted, conn,
                       session, failure>>
    PROVE  IInv'
<1>1. QueueTypes /\ ConnType /\ \A q \in Session : SessionInv(q)
  BY Facts
<1>2. QueueTypes' /\ Pending' = Pending
  BY <1>1, QueuesSame
<1>3. ConnType' /\ \A q \in Session : SessionInv(q)'
  BY <1>1, <1>2, ConnTypeSame, SessionsSame
<1>4. DisconnectChecked'
  BY DEF DisconnectChecked, Running
<1>5. QED
  BY <1>2, <1>3, <1>4, Finish

(* DispatchMessages is called.                                             *)
LEMMA CallKeeps ==
    ASSUME IInv, Running, Idle \/ InScript \/ Top("loop") \/ Top("spin"),
           CallDispatchMessages,
           UNCHANGED <<agentVars, queueVars, waiter, io, conn, target, failure>>,
           tasks' \in Nat, interrupts' \in Nat
    PROVE  IInv'
<1>1. Flags /\ StackTypes /\ StackInv /\ Connected /\ Waits
  BY Facts
<1>2. StackTypes' /\ StackInv' /\ dispatching_messages'
  BY <1>1, CallStack DEF StackTypes, agentVars
<1>3. Flags' /\ Connected' /\ Waits'
  BY <1>1, <1>2
  DEF Flags, Connected, Waits, CallDispatchMessages, agentVars
<1>4. UNCHANGED <<batch, delivered>>
  BY DEF CallDispatchMessages
<1>5. QED
  BY <1>1, <1>2, <1>3, <1>4, QuietKeeps DEF agentVars, queueVars

LEMMA DispatchCallsKeep ==
    ASSUME IInv, RunTask \/ InterruptCallback \/ WaitForDebuggerSpin
    PROVE  IInv'
<1>0. Running
  BY DEF RunTask, InterruptCallback, WaitForDebuggerSpin
<1>1. tasks \in Nat /\ interrupts \in Nat
  BY <1>0, Facts DEF Flags
<1>2. \A n \in Nat : n > 0 => n - 1 \in Nat
  OBVIOUS
<1>3. tasks' \in Nat /\ interrupts' \in Nat
  BY <1>1, <1>2 DEF RunTask, InterruptCallback, WaitForDebuggerSpin, wakeVars
<1>4. QED
  BY <1>0, <1>3, CallKeeps DEF RunTask, InterruptCallback, WaitForDebuggerSpin

LEMMA LoopTurnKeeps ==
    ASSUME IInv, LoopTurn
    PROVE  IInv'
<1>1. Running /\ Top("loop")
  BY DEF LoopTurn
<1>2. Flags /\ StackTypes /\ StackInv /\ Connected /\ Waits
  BY <1>1, Facts
<1>3. CASE incoming_message_queue # <<>>
  BY <1>1, <1>2, <1>3, CallKeeps DEF LoopTurn, Flags, wakeVars
<1>4. CASE incoming_message_queue = <<>>
  <2>1. /\ Push("wait") /\ waiter' = "checked"
        /\ UNCHANGED <<batch, delivered, dispatching_messages, agentVars,
                       queueVars, wakeVars, io, conn, target, failure>>
    BY <1>4 DEF LoopTurn
  <2>2. StackTypes' /\ StackInv'
    <3>1. stack # <<>> /\ Calls(stack[Len(stack)], "wait") /\ "wait" \in Function
      BY <1>1 DEF Top, Calls, Function
    <3>2. QED
      BY <1>2, <2>1, <3>1, PushStack DEF StackTypes, agentVars
  <2>3. Flags' /\ Connected' /\ Waits'
    BY <1>2, <2>1 DEF Flags, Connected, Waits, agentVars, queueVars, wakeVars
  <2>4. QED
    BY <1>1, <2>1, <2>2, <2>3, QuietKeeps DEF agentVars, queueVars
<1>5. QED
  BY <1>3, <1>4

(* The host and the frontend start something.                              *)
LEMMA StartKeeps ==
    ASSUME IInv, Start
    PROVE  IInv'
<1>1. Running /\ Idle /\ state = "kNew"
  BY DEF Start
<1>2. Flags /\ StackTypes /\ StackInv /\ Connected /\ Waits
  BY <1>1, Facts
<1>3. StackTypes' /\ StackInv'
  <2>1. stack = <<>> /\ state' = "kAccepting" /\ ~dispatching_messages'
    <3>1. ~dispatching_messages
      BY <1>1, <1>2 DEF Idle, StackInv
    <3>2. QED
      BY <1>1, <3>1 DEF Start, Idle
  <2>2. CASE stack' = <<>>
    BY <1>2, <2>1, <2>2 DEF StackTypes, StackInv, StackShape, Shape
  <2>3. CASE stack' = <<"attach">>
    BY <2>1, <2>3 DEF StackTypes, Function, StackInv, StackShape, Shape
  <2>4. QED
    BY <1>1, <2>2, <2>3 DEF Start, Idle
<1>4. Flags' /\ Connected' /\ Waits'
  BY <1>1, <1>2 DEF Start, Flags, Connected, Waits, queueVars, wakeVars
<1>5. QED
  BY <1>1, <1>3, <1>4, QuietKeeps DEF Start, queueVars

LEMMA RunScriptKeeps ==
    ASSUME IInv, RunScript
    PROVE  IInv'
<1>1. Running /\ Idle
  BY DEF RunScript
<1>2. Flags /\ StackTypes /\ StackInv /\ Connected /\ Waits
  BY <1>1, Facts
<1>3. StackTypes' /\ StackInv'
  <2>1. "script" \in Function
    BY DEF Function
  <2>2. QED
    BY <1>1, <1>2, <2>1, PushStack
    DEF RunScript, StackTypes, agentVars, Idle
<1>4. Flags' /\ Connected' /\ Waits'
  BY <1>2 DEF RunScript, Flags, Connected, Waits, agentVars, queueVars, wakeVars
<1>5. QED
  BY <1>1, <1>3, <1>4, QuietKeeps DEF RunScript, agentVars, queueVars

LEMMA PauseKeeps ==
    ASSUME IInv, Pause
    PROVE  IInv'
<1>1. Running /\ InScript /\ session # NoSession
  BY DEF Pause
<1>2. Flags /\ StackTypes /\ StackInv /\ Connected /\ Waits
  BY <1>1, Facts
<1>3. StackTypes' /\ StackInv'
  <2>1. CASE running_nested_loop
    <3>1. /\ UNCHANGED <<stack, state, shutting_down, dispatching_messages>>
          /\ waiting_for_resume'
      BY <2>1 DEF Pause
    <3>2. QED
      BY <1>2, <3>1 DEF StackTypes, StackInv, StackShape, Shape
  <2>2. CASE ~running_nested_loop
    <3>1. stack # <<>> /\ Calls(stack[Len(stack)], "loop") /\ "loop" \in Function
      BY <1>1 DEF InScript, Top, Calls, Function
    <3>2. Push("loop")
      BY <2>2 DEF Pause, Push
    <3>3. QED
      BY <1>2, <2>2, <3>1, <3>2, PushStack DEF Pause, StackTypes
  <2>3. QED
    BY <2>1, <2>2
<1>4. Flags' /\ Connected' /\ Waits'
  BY <1>2 DEF Pause, Flags, Connected, Waits, queueVars, wakeVars
<1>5. QED
  BY <1>1, <1>3, <1>4, QuietKeeps DEF Pause, queueVars

(* Something returns.                                                      *)
LEMMA ReturnKeeps ==
    ASSUME IInv, Running, stack # <<>>, Return, ~Top("dispatch"),
           Top("loop") => ~waiting_for_resume,
           waiter' \in {"no", "checked", "blocked", "woken"},
           UNCHANGED <<agentVars, queueVars, batch, delivered,
                       dispatching_messages, wakeVars, io, conn, target, failure>>
    PROVE  IInv'
<1>1. Flags /\ StackTypes /\ StackInv /\ Connected /\ Waits
  BY Facts
<1>2. StackTypes' /\ StackInv'
  BY <1>1, ReturnStack DEF StackTypes, agentVars
<1>3. Flags' /\ Connected' /\ Waits'
  BY <1>1 DEF Flags, Connected, Waits, agentVars, queueVars, wakeVars
<1>4. QED
  BY <1>2, <1>3, QuietKeeps DEF agentVars, queueVars

LEMMA WaitKeeps ==
    ASSUME IInv, Running, UNCHANGED stack,
           waiter' \in {"no", "checked", "blocked", "woken"},
           UNCHANGED <<agentVars, queueVars, batch, delivered,
                       dispatching_messages, wakeVars, io, conn, target, failure>>
    PROVE  IInv'
<1>1. Flags /\ StackTypes /\ StackInv /\ Connected /\ Waits
  BY Facts
<1>2. StackTypes' /\ StackInv'
  BY <1>1, SameStack DEF StackTypes, agentVars
<1>3. Flags' /\ Connected' /\ Waits'
  BY <1>1 DEF Flags, Connected, Waits, agentVars, queueVars, wakeVars
<1>4. QED
  BY <1>2, <1>3, QuietKeeps DEF agentVars, queueVars

LEMMA ReturnsKeep ==
    ASSUME IInv, ScriptReturns \/ LoopExit \/ WaitBlocks \/ WaitWakes
    PROVE  IInv'
<1>1. Running
  BY DEF ScriptReturns, LoopExit, WaitBlocks, WaitWakes
<1>2. waiter \in {"no", "checked", "blocked", "woken"}
  BY <1>1, Facts DEF Flags
<1>3. CASE ScriptReturns
  <2>1. stack # <<>> /\ ~Top("dispatch") /\ ~Top("loop")
    BY <1>3 DEF ScriptReturns, InScript, Top
  <2>2. QED
    BY <1>1, <1>2, <1>3, <2>1, ReturnKeeps DEF ScriptReturns
<1>4. CASE LoopExit
  <2>1. stack # <<>> /\ ~Top("dispatch")
    BY <1>4 DEF LoopExit, Top
  <2>2. QED
    BY <1>1, <1>2, <1>4, <2>1, ReturnKeeps DEF LoopExit
<1>5. CASE WaitBlocks
  BY <1>1, <1>5, WaitKeeps DEF WaitBlocks
<1>6. CASE WaitWakes
  <2>1. stack # <<>> /\ ~Top("dispatch") /\ ~Top("loop")
    BY <1>6 DEF WaitWakes, Top
  <2>2. CASE incoming_message_queue = <<>>
    BY <1>1, <1>6, <2>2, WaitKeeps DEF WaitWakes
  <2>3. CASE incoming_message_queue # <<>>
    BY <1>1, <1>6, <2>1, <2>3, ReturnKeeps DEF WaitWakes
  <2>4. QED
    BY <2>2, <2>3
<1>7. QED
  BY <1>3, <1>4, <1>5, <1>6

(* waitForDebugger.                                                        *)
LEMMA WaitForDebuggerKeeps ==
    ASSUME IInv, WaitForDebugger
    PROVE  IInv'
<1>1. Running /\ Top("attach")
  BY DEF WaitForDebugger
<1>2. Flags /\ StackTypes /\ StackInv /\ Connected /\ Waits
  BY <1>1, Facts
<1>3. Len(stack) = 1 /\ stack[1] = "attach" /\ stack # <<>>
  BY <1>1, <1>2, BottomOnly DEF StackTypes, StackInv, Top
<1>4. state = "kAccepting" /\ state' = "kAccepting" /\ ~dispatching_messages
  BY <1>2, <1>3 DEF StackInv, WaitForDebugger
<1>5. StackTypes' /\ StackInv'
  <2>1. CASE incoming_message_queue # <<>>
    <3>1. /\ stack' = [stack EXCEPT ![1] = "spin"]
          /\ dispatching_messages' = dispatching_messages
      BY <1>3, <2>1 DEF WaitForDebugger, Becomes
    <3>2. stack' \in Seq(Function) /\ Len(stack') = 1 /\ stack'[1] = "spin"
      <4>1. stack \in Seq(Function) /\ 1 \in 1 .. Len(stack) /\ "spin" \in Function
        BY <1>2, <1>3 DEF StackTypes, Function
      <4>2. QED
        BY <1>3, <3>1, <4>1, ExceptSeq
    <3>3. \A i \in 1 .. 1 : i = 1
      OBVIOUS
    <3>4. StackTypes' /\ StackShape'
      BY <3>2, <3>3 DEF StackTypes, StackShape, Shape
    <3>5. QED
      BY <1>4, <3>1, <3>2, <3>3, <3>4 DEF StackInv
  <2>2. CASE incoming_message_queue = <<>>
    <3>1. stack # <<>> /\ Calls(stack[Len(stack)], "wait") /\ "wait" \in Function
      BY <1>3 DEF Calls, Function
    <3>2. Push("wait")
      BY <2>2 DEF WaitForDebugger
    <3>3. QED
      BY <1>2, <1>4, <3>1, <3>2, PushStack DEF WaitForDebugger, StackTypes
  <2>3. QED
    BY <2>1, <2>2
<1>6. Flags' /\ Connected' /\ Waits'
  BY <1>2, <1>4
  DEF WaitForDebugger, Flags, Connected, Waits, queueVars, wakeVars
<1>7. QED
  BY <1>1, <1>5, <1>6, QuietKeeps DEF WaitForDebugger, queueVars

(* Without a session waitForDebugger ends the process.                     *)
LEMMA DeathKeeps ==
    ASSUME IInv, Running, failure' \in {"connect", "nullSession"},
           QueueTypes', ConnType', StackTypes', Flags'
    PROVE  IInv'
BY Finish DEF DisconnectChecked, Running

LEMMA WaitForDebuggerReturnsKeeps ==
    ASSUME IInv, WaitForDebuggerReturns
    PROVE  IInv'
<1>1. Running /\ Top("spin")
  BY DEF WaitForDebuggerReturns
<1>2. Flags /\ StackTypes /\ QueueTypes /\ ConnType
  BY <1>1, Facts
<1>3. CASE session = NoSession
  <2>1. /\ failure' = "nullSession"
        /\ UNCHANGED <<agentVars, queueVars, jsVars, wakeVars, io, conn, target>>
    BY <1>3 DEF WaitForDebuggerReturns, Die, agentVars, jsVars
  <2>2. QueueTypes' /\ ConnType' /\ StackTypes' /\ Flags'
    BY <1>2, <2>1, QueuesSame
    DEF ConnType, StackTypes, Flags, agentVars, queueVars, jsVars, wakeVars
  <2>3. QED
    BY <1>1, <2>1, <2>2, DeathKeeps
<1>4. CASE session # NoSession
  <2>1. stack # <<>> /\ ~Top("dispatch") /\ ~Top("loop")
    BY <1>1 DEF Top
  <2>2. QED
    BY <1>1, <1>2, <1>4, <2>1, ReturnKeeps
    DEF WaitForDebuggerReturns, Flags, agentVars
<1>5. QED
  BY <1>3, <1>4

(* Stop.                                                                   *)
LEMMA StopDoneKeeps ==
    ASSUME IInv, StopDone
    PROVE  IInv'
<1>1. Running /\ (Top("stop") \/ (Idle /\ state = "kAccepting"))
  BY DEF StopDone
<1>2. Flags /\ StackTypes /\ StackInv /\ Connected /\ Waits
  BY <1>1, Facts
<1>3. session = NoSession /\ ~dispatching_messages
  <2>1. CASE Top("stop")
    <3>1. Len(stack) = 1 /\ stack[1] = "stop" /\ stack # <<>>
      BY <1>2, <2>1, BottomOnly DEF StackTypes, StackInv, Top
    <3>2. state = "kDone" /\ ~dispatching_messages
      BY <1>2, <3>1 DEF StackInv
    <3>3. QED
      BY <1>2, <3>2 DEF Connected
  <2>2. CASE Idle /\ state = "kAccepting"
    BY <1>2, <2>2 DEF Idle, StackInv, Connected
  <2>3. QED
    BY <1>1, <2>1, <2>2
<1>4. StackTypes' /\ StackInv'
  BY <1>3 DEF StopDone, StackTypes, StackInv, StackShape, Shape
<1>5. Flags' /\ Connected' /\ Waits'
  BY <1>2, <1>3 DEF StopDone, Flags, Connected, Waits, queueVars, wakeVars
<1>6. QED
  BY <1>1, <1>4, <1>5, QuietKeeps DEF StopDone, queueVars

LEMMA StopConnectedKeeps ==
    ASSUME IInv, StopConnected
    PROVE  IInv'
<1>1. Running /\ Idle /\ state = "kConnected"
  BY DEF StopConnected
<1>2. /\ Flags /\ QueueTypes /\ ConnType /\ StackTypes
      /\ StackInv /\ Connected /\ Waits /\ \A q \in Session : SessionInv(q)
  BY <1>1, Facts
<1>3. session \in Session /\ ~dispatching_messages
  BY <1>1, <1>2 DEF Flags, Connected, Idle, StackInv
<1>4. StackTypes' /\ StackInv'
  <2>1. /\ stack' = <<"stop", "loop">> /\ shutting_down' /\ waiting_for_resume'
        /\ state' = "kConnected" /\ ~dispatching_messages'
    BY <1>1, <1>3 DEF StopConnected
  <2>2. /\ stack' \in Seq(Function) /\ Len(stack') = 2
        /\ stack'[1] = "stop" /\ stack'[2] = "loop"
    BY <2>1 DEF Function
  <2>3. \A i \in 1 .. 2 : i = 1 \/ i = 2
    OBVIOUS
  <2>4. StackShape'
    BY <2>2, <2>3 DEF StackShape, Shape, Calls
  <2>5. QED
    BY <2>1, <2>2, <2>3, <2>4 DEF StackTypes, StackInv
<1>5. Connected' /\ DisconnectChecked'
  BY <1>1, <1>2 DEF StopConnected, Connected, DisconnectChecked, Running
<1>6. CASE /\ conn[session] = "attached" /\ AppendMessage(session, "disconnect")
           /\ conn' = [conn EXCEPT ![session] = "ended"]
           /\ tasks' = IF TriggerPumping THEN tasks + 1 ELSE tasks
           /\ interrupts' = IF TriggerPumping THEN interrupts + 1 ELSE interrupts
  <2>1. UNCHANGED <<batch, delivered, session>> /\ "disconnect" \in Tags \cup Protocol
    BY DEF StopConnected, Tags
  <2>2. QueueTypes' /\ Pending' = Append(Pending, <<session, "disconnect">>)
    BY <1>2, <1>3, <1>6, <2>1, Appended
  <2>3. /\ ConnType' /\ conn'[session] = "ended"
        /\ \A q \in Session : q # session => conn'[q] = conn[q]
    BY <1>2, <1>3, <1>6 DEF ConnType
  <2>4. \A q \in Session : SessionInv(q)'
    BY <1>2, <1>3, <1>6, <2>1, <2>2, <2>3, SessionsPosted
  <2>5. Flags' /\ Waits'
    BY <1>2, <1>6 DEF StopConnected, Flags, Waits, TriggerPumping
  <2>6. QED
    BY <1>4, <1>5, <2>2, <2>3, <2>4, <2>5, Finish
<1>7. CASE /\ conn[session] = "attached"
           /\ conn' = [conn EXCEPT ![session] = "closing"]
           /\ UNCHANGED <<queueVars, wakeVars>>
  <2>1. QueueTypes' /\ Pending' = Pending
    BY <1>2, <1>7, QueuesSame DEF StopConnected, queueVars
  <2>2. ConnType' /\ UNCHANGED session
    BY <1>2, <1>3, <1>7 DEF StopConnected, ConnType
  <2>3. ASSUME NEW q \in Session PROVE SessionInv(q)'
    <3>1. conn'[q] = IF q = session THEN "closing" ELSE conn[q]
      BY <1>2, <1>7 DEF ConnType
    <3>2. Ordered(Pending, q) /\ Started(Pending, q) /\ ServerAgrees(Pending, q)
      BY <1>2 DEF SessionInv
    <3>3. Ordered(Pending, q)' /\ Started(Pending, q)'
      BY <2>1, <2>2, <3>2 DEF Ordered, Started
    <3>4. ServerAgrees(Pending, q)'
      BY <1>7, <2>1, <2>2, <3>1, <3>2 DEF ServerAgrees
    <3>5. QED
      BY <3>3, <3>4 DEF SessionInv
  <2>4. Flags' /\ Waits'
    BY <1>2, <1>7 DEF StopConnected, Flags, Waits, queueVars, wakeVars
  <2>5. QED
    BY <1>4, <1>5, <2>1, <2>2, <2>3, <2>4, Finish
<1>8. CASE UNCHANGED <<conn, queueVars, wakeVars>>
  <2>1. Flags' /\ Waits'
    BY <1>2, <1>8 DEF StopConnected, Flags, Waits, queueVars, wakeVars
  <2>2. QED
    BY <1>1, <1>4, <1>5, <1>8, <2>1, QuietKeeps DEF StopConnected, queueVars
<1>9. QED
  BY <1>6, <1>7, <1>8 DEF StopConnected

-----------------------------------------------------------------------------
(* DispatchMessages.                                                       *)

LEMMA DispatchSwapKeeps ==
    ASSUME IInv, DispatchSwap
    PROVE  IInv'
<1>1. Running /\ Top("dispatch") /\ batch = <<>>
  BY DEF DispatchSwap
<1>2. /\ Flags /\ QueueTypes /\ ConnType /\ StackTypes
      /\ StackInv /\ Connected /\ Waits /\ \A q \in Session : SessionInv(q)
  BY <1>1, Facts
<1>3. QueueTypes' /\ Pending' = Pending /\ incoming_message_queue' = <<>>
  <2>1. /\ batch' = incoming_message_queue /\ incoming_message_queue' = <<>>
        /\ UNCHANGED <<posted, delivered>>
    BY DEF DispatchSwap, SwapBehindLock
  <2>2. Pending = incoming_message_queue /\ Pending' = incoming_message_queue
    BY <1>1, <1>2, <2>1, ConcatEmptySeq DEF QueueTypes, Pending
  <2>3. QED
    BY <1>2, <2>1, <2>2, EmptySeq DEF QueueTypes
<1>4. StackTypes' /\ StackInv' /\ dispatching_messages' \in BOOLEAN
  <2>1. CASE incoming_message_queue = <<>>
    <3>1. /\ stack # <<>> /\ ~Top("loop") /\ Return /\ ~dispatching_messages'
          /\ dispatching_messages' = FALSE
          /\ UNCHANGED <<state, shutting_down, waiting_for_resume>>
      BY <1>1, <2>1 DEF DispatchSwap, Top, agentVars
    <3>2. QED
      BY <1>1, <1>2, <3>1, ReturnStack DEF StackTypes
  <2>2. CASE incoming_message_queue # <<>>
    BY <1>2, <2>2, SameStack DEF DispatchSwap, StackTypes, Flags, agentVars
  <2>3. QED
    BY <2>1, <2>2
<1>5. ConnType' /\ \A q \in Session : SessionInv(q)'
  <2>1. UNCHANGED <<session, conn>>
    BY DEF DispatchSwap, agentVars
  <2>2. QED
    BY <1>2, <1>3, <2>1, ConnTypeSame, SessionsSame
<1>6. Flags' /\ Connected' /\ Waits' /\ DisconnectChecked'
  BY <1>1, <1>2, <1>3, <1>4
  DEF DispatchSwap, Flags, Connected, Waits, DisconnectChecked, Running,
      agentVars, wakeVars
<1>7. QED
  BY <1>3, <1>4, <1>5, <1>6, Finish

(* DispatchMessages does not run before the first message of               *)
(* waitForDebugger, and in Stop only from its loop.                        *)
LEMMA DispatchOn ==
    ASSUME StackTypes, StackInv, Top("dispatch")
    PROVE  /\ stack # <<>> /\ stack[1] # "attach" /\ dispatching_messages
           /\ stack[1] = "stop" => ~Paused
<1>1. /\ Len(stack) \in Nat \ {0} /\ stack[Len(stack)] = "dispatch"
      /\ stack # <<>> /\ DOMAIN stack = 1 .. Len(stack)
  BY EmptySeq, LenProperties DEF StackTypes, Top
<1>2. PICK n \in Nat \ {0} : n = Len(stack)
  BY <1>1
<1>3. /\ \A i \in 1 .. n : i > 1 => Calls(stack[i - 1], stack[i])
      /\ \A i, j \in 1 .. n :
            stack[i] = stack[j] /\ stack[i] \in {"dispatch", "loop"} => i = j
  BY <1>2 DEF StackInv, StackShape, Shape
<1>4. dispatching_messages
  BY <1>1, <1>2 DEF StackInv
<1>5. ASSUME n > 1 PROVE 2 \in 1 .. n /\ Calls(stack[1], stack[2])
  <2>1. 2 \in 1 .. n /\ 2 > 1 /\ 2 - 1 = 1
    BY <1>5
  <2>2. Calls(stack[2 - 1], stack[2])
    BY <1>3, <2>1
  <2>3. QED
    BY <2>1, <2>2
<1>6. n = 1 \/ n = 2 \/ n > 2
  OBVIOUS
<1>7. stack[1] # "attach"
  <2>1. SUFFICES ASSUME stack[1] = "attach" PROVE FALSE
    OBVIOUS
  <2>2. n # 1
    BY <1>1, <1>2, <2>1
  <2>3. stack[2] = "wait"
    BY <1>5, <1>6, <2>1, <2>2 DEF Calls
  <2>4. n > 2
    BY <1>1, <1>2, <1>6, <2>2, <2>3
  <2>5. Calls(stack[3 - 1], stack[3]) /\ 3 - 1 = 2
    <3>1. 3 \in 1 .. n /\ 3 > 1 /\ 3 - 1 = 2
      BY <2>4
    <3>2. QED
      BY <1>3, <3>1
  <2>6. QED
    BY <2>3, <2>5 DEF Calls
<1>8. ASSUME stack[1] = "stop", Paused PROVE FALSE
  <2>1. PICK i \in 1 .. n : i > 1 /\ stack[i] = "loop" /\ stack[i - 1] # "stop"
    BY <1>1, <1>2, <1>8 DEF Paused
  <2>2. n > 1
    BY <2>1
  <2>3. 2 \in 1 .. n /\ stack[2] = "loop"
    BY <1>5, <1>8, <2>2 DEF Calls
  <2>4. i = 2
    BY <1>3, <2>1, <2>3
  <2>5. 2 - 1 = 1
    OBVIOUS
  <2>6. QED
    BY <1>8, <2>1, <2>4, <2>5
<1>9. QED
  BY <1>1, <1>4, <1>7, <1>8

(* The messages, once one was taken out and the agent lives on.            *)
LEMMA TakenKeeps ==
    ASSUME IInv, NEW s \in Session, NEW m \in Tags \cup Protocol, NextIs(s, m),
           failure' = failure,
           session' = IF m = "connect" THEN s
                      ELSE IF m = "disconnect" THEN NoSession ELSE session,
           m = "connect" => session = NoSession,
           Flags', StackTypes', StackInv', Connected', dispatching_messages'
    PROVE  IInv'
<1>1. Running /\ UNCHANGED conn
  BY DEF NextIs
<1>2. /\ Flags /\ QueueTypes /\ ConnType /\ \A q \in Session : SessionInv(q)
  BY <1>1, Facts
<1>3. /\ QueueTypes' /\ Len(Pending) \in Nat \ {0}
      /\ Pending[1] = <<s, m>> /\ Len(Pending') = Len(Pending) - 1
      /\ \A i \in 1 .. Len(Pending) - 1 : Pending'[i] = Pending[i + 1]
  BY <1>2, Taken
<1>4. \A q \in Session : SessionInv(q)'
  <2>1. session \in Session \cup {NoSession}
    BY <1>2 DEF Flags
  <2>2. QED
    BY <1>1, <1>2, <1>3, <2>1, SessionsProcessed
<1>5. ConnType' /\ Waits' /\ DisconnectChecked'
  BY <1>1, <1>2 DEF ConnType, Waits, DisconnectChecked, Running
<1>6. QED
  BY <1>3, <1>4, <1>5, Finish

(* The CHECK_EQ of a disconnect and the session of a message.              *)
LEMMA OfTheSession ==
    ASSUME IInv, NEW s \in Session, NEW m \in Tags \cup Protocol, NextIs(s, m),
           m # "connect"
    PROVE  session = s /\ session # NoSession /\ state = "kConnected"
<1>1. Running /\ UNCHANGED conn
  BY DEF NextIs
<1>2. /\ Flags /\ QueueTypes /\ ConnType /\ Connected
      /\ \A q \in Session : SessionInv(q)
  BY <1>1, Facts
<1>3. /\ Len(Pending) \in Nat \ {0}
      /\ Pending[1] = <<s, m>> /\ Len(Pending') = Len(Pending) - 1
      /\ \A i \in 1 .. Len(Pending) - 1 : Pending'[i] = Pending[i + 1]
  BY <1>2, Taken
<1>4. session \in Session \cup {NoSession}
  BY <1>2 DEF Flags
<1>5. session = s
  BY <1>1, <1>2, <1>3, <1>4, FirstIsOfSession
<1>6. QED
  BY <1>2, <1>5, SessionAssumption DEF Connected

LEMMA DispatchConnectKeeps ==
    ASSUME IInv, NEW s \in Session, DispatchConnect(s)
    PROVE  IInv'
<1>1. /\ NextIs(s, "connect") /\ Running /\ Top("dispatch")
      /\ "connect" \in Tags \cup Protocol
      /\ UNCHANGED <<waiter, wakeVars, io, conn, target, waiting_for_frontend,
                     shutting_down, waiting_for_resume>>
  BY DEF DispatchConnect, NextIs, Tags
<1>2. Flags /\ QueueTypes /\ ConnType /\ StackTypes /\ StackInv /\ Connected
  BY <1>1, Facts
<1>3. QueueTypes'
  BY <1>1, <1>2, Taken
<1>4. CASE state # "kAccepting"
  <2>1. /\ failure' = "connect"
        /\ UNCHANGED <<state, session, stack, dispatching_messages>>
    BY <1>4 DEF DispatchConnect, Die
  <2>2. Flags' /\ ConnType' /\ StackTypes'
    BY <1>1, <1>2, <2>1 DEF Flags, ConnType, StackTypes, wakeVars
  <2>3. QED
    BY <1>1, <1>3, <2>1, <2>2, DeathKeeps
<1>5. CASE state = "kAccepting"
  <2>1. /\ state' = "kConnected" /\ session' = s
        /\ UNCHANGED <<failure, stack, dispatching_messages>>
    BY <1>5 DEF DispatchConnect
  <2>2. session = NoSession
    BY <1>2, <1>5 DEF Connected
  <2>3. stack # <<>> /\ stack[1] # "attach" /\ dispatching_messages
    BY <1>1, <1>2, DispatchOn
  <2>4. stack[1] # "stop"
    BY <1>2, <1>5, <2>3 DEF StackInv
  <2>5. StackTypes' /\ StackInv' /\ dispatching_messages'
    BY <1>2, <2>1, <2>3, <2>4 DEF StackTypes, StackInv, StackShape, Shape
  <2>6. Flags' /\ Connected'
    BY <1>1, <1>2, <2>1, SessionAssumption DEF Flags, Connected, wakeVars
  <2>7. QED
    BY <1>1, <2>1, <2>2, <2>5, <2>6, TakenKeeps
<1>6. QED
  BY <1>4, <1>5

LEMMA DispatchDisconnectKeeps ==
    ASSUME IInv, NEW s \in Session, DispatchDisconnect(s)
    PROVE  IInv'
<1>1. /\ NextIs(s, "disconnect") /\ Running /\ Top("dispatch")
      /\ "disconnect" \in Tags \cup Protocol
      /\ UNCHANGED <<waiter, wakeVars, io, conn, target, waiting_for_frontend,
                     shutting_down>>
  BY DEF DispatchDisconnect, NextIs, Tags
<1>2. Flags /\ StackTypes /\ StackInv
  BY <1>1, Facts
<1>3. session = s /\ state = "kConnected"
  BY <1>1, OfTheSession
<1>4. /\ state' = IF shutting_down THEN "kDone" ELSE "kAccepting"
      /\ session' = NoSession /\ waiting_for_resume' = FALSE
      /\ UNCHANGED <<failure, stack, dispatching_messages>>
  BY <1>3 DEF DispatchDisconnect
<1>5. stack # <<>> /\ stack[1] # "attach" /\ dispatching_messages
  BY <1>1, <1>2, DispatchOn
<1>6. StackTypes' /\ StackInv' /\ dispatching_messages'
  BY <1>1, <1>2, <1>4, <1>5 DEF StackTypes, StackInv, StackShape, Shape
<1>7. Flags' /\ Connected'
  BY <1>1, <1>2, <1>4 DEF Flags, Connected, wakeVars
<1>8. QED
  BY <1>1, <1>4, <1>6, <1>7, TakenKeeps

LEMMA DispatchProtocolMessageKeeps ==
    ASSUME IInv, NEW s \in Session, NEW m \in Protocol,
           DispatchProtocolMessage(s, m)
    PROVE  IInv'
<1>1. /\ NextIs(s, m) /\ Running /\ Top("dispatch") /\ m \in Tags \cup Protocol
      /\ m # "connect" /\ m # "disconnect"
      /\ UNCHANGED <<waiter, wakeVars, io, conn, target, shutting_down>>
  BY DEF DispatchProtocolMessage, NextIs, Protocol
<1>2. Flags /\ StackTypes /\ StackInv /\ Connected
  BY <1>1, Facts
<1>3. session # NoSession
  BY <1>1, OfTheSession
<1>4. /\ stack' = IF m = "evaluate" THEN Append(stack, "evaluate") ELSE stack
      /\ waiting_for_resume' = (waiting_for_resume /\ ~ (m = "resume" /\ Paused))
      /\ UNCHANGED <<failure, state, session, dispatching_messages>>
  BY <1>3 DEF DispatchProtocolMessage
<1>5. /\ stack # <<>> /\ stack[1] # "attach" /\ dispatching_messages
      /\ stack[1] = "stop" => ~Paused
  BY <1>1, <1>2, DispatchOn
<1>6. stack[1] = "stop" /\ waiting_for_resume => waiting_for_resume'
  BY <1>4, <1>5
<1>7. StackTypes' /\ StackInv' /\ dispatching_messages'
  <2>1. CASE m = "evaluate"
    <3>1. /\ Push("evaluate") /\ "evaluate" \in Function
          /\ Calls(stack[Len(stack)], "evaluate")
      BY <1>1, <1>4, <2>1 DEF Push, Function, Calls, Top
    <3>2. QED
      BY <1>1, <1>2, <1>4, <1>5, <1>6, <3>1, PushStack DEF StackTypes
  <2>2. CASE m # "evaluate"
    BY <1>1, <1>2, <1>4, <1>5, <1>6, <2>2
    DEF StackTypes, StackInv, StackShape, Shape
  <2>3. QED
    BY <2>1, <2>2
<1>8. Flags' /\ Connected'
  <2>1. waiting_for_frontend' \in BOOLEAN /\ waiting_for_resume' \in BOOLEAN
    BY <1>4 DEF DispatchProtocolMessage
  <2>2. QED
    BY <1>1, <1>2, <1>4, <2>1 DEF Flags, Connected, wakeVars
<1>9. QED
  BY <1>1, <1>4, <1>7, <1>8, TakenKeeps

-----------------------------------------------------------------------------
(* The invariant and what follows from it.                                 *)

LEMMA InitIInv == Init => IInv
<1>1. SUFFICES ASSUME Init PROVE IInv
  OBVIOUS
<1>2. /\ batch = <<>> /\ incoming_message_queue = <<>> /\ posted = <<>>
      /\ delivered = <<>> /\ stack = <<>> /\ Pending = <<>> /\ Len(<<>>) = 0
      /\ <<>> \in Seq(Message) /\ <<>> \in Seq(Function)
  BY <1>1, EmptySeq, ConcatEmptySeq DEF Init, Pending
<1>3. posted = delivered \o Pending
  BY <1>2, ConcatEmptySeq
<1>4. TypeOK
  <2>1. conn \in [Session -> {"new", "attached", "closing", "ended"}]
    BY <1>1 DEF Init
  <2>2. stack \in Seq(Function) /\ Len(stack) <= 5
    BY <1>2
  <2>3. QED
    BY <1>1, <1>2, <2>1, <2>2 DEF Init, TypeOK, Function
<1>5. \A s \in Session : SessionInv(s)
  <2>1. ASSUME NEW s \in Session
        PROVE  /\ session # s /\ conn[s] = "new"
               /\ \A j \in 1 .. Len(Pending) : FALSE
    BY <1>1, <1>2, SessionAssumption DEF Init
  <2>2. QED
    BY <2>1 DEF SessionInv, Ordered, Started, ServerAgrees, Has
<1>6. StackInv
  BY <1>1, <1>2 DEF Init, StackInv, StackShape, Shape
<1>7. RunningInv
  BY <1>1, <1>5, <1>6 DEF Init, RunningInv
<1>8. QED
  BY <1>1, <1>3, <1>4, <1>7 DEF Init, IInv, DisconnectChecked

LEMMA NextIInv == IInv /\ [Next]_vars => IInv'
<1>1. SUFFICES ASSUME IInv, [Next]_vars PROVE IInv'
  OBVIOUS
<1>2. CASE Peer
  BY <1>1, <1>2, PeerKeeps
<1>3. CASE PostTask \/ NotifyMessageReceived
  BY <1>1, <1>3, WakeKeeps
<1>4. CASE ScriptReturns \/ LoopExit \/ WaitBlocks \/ WaitWakes
  BY <1>1, <1>4, ReturnsKeep
<1>5. CASE Dispatch
  BY <1>1, <1>5, DispatchSwapKeeps, DispatchConnectKeeps,
     DispatchDisconnectKeeps, DispatchProtocolMessageKeeps DEF Dispatch
<1>6. CASE LoopTurn
  BY <1>1, <1>6, LoopTurnKeeps
<1>7. CASE WaitForDebugger \/ WaitForDebuggerReturns
  BY <1>1, <1>7, WaitForDebuggerKeeps, WaitForDebuggerReturnsKeeps
<1>8. CASE RunTask \/ InterruptCallback \/ WaitForDebuggerSpin
  BY <1>1, <1>8, DispatchCallsKeep
<1>9. CASE Start \/ RunScript \/ Pause
  BY <1>1, <1>9, StartKeeps, RunScriptKeeps, PauseKeeps
<1>10. CASE StopConnected \/ StopDone
  BY <1>1, <1>10, StopConnectedKeeps, StopDoneKeeps
<1>11. CASE UNCHANGED vars
  <2>1. UNCHANGED <<agentVars, queueVars, jsVars, wakeVars, io, conn, target,
                    failure>>
    BY <1>11 DEF vars
  <2>2. TypeOK' /\ DisconnectChecked' /\ posted' = delivered' \o Pending'
        /\ Pending' = Pending /\ Running' = Running
    BY <1>1, <2>1 DEF IInv, TypeOK, DisconnectChecked, Pending, Running,
                      agentVars, queueVars, jsVars, wakeVars
  <2>3. Running => RunningInv'
    <3>1. SUFFICES ASSUME Running PROVE RunningInv'
      OBVIOUS
    <3>2. RunningInv
      BY <1>1, <3>1 DEF IInv
    <3>3. StackInv' /\ \A s \in Session : SessionInv(s)'
      BY <2>1, <2>2, <3>2, SameStack, SessionsSame
      DEF RunningInv, agentVars, jsVars
    <3>4. QED
      BY <2>1, <3>2, <3>3
      DEF RunningInv, agentVars, queueVars, jsVars, wakeVars
  <2>4. QED
    BY <2>2, <2>3 DEF IInv
<1>12. QED
  BY <1>1, <1>2, <1>3, <1>4, <1>5, <1>6, <1>7, <1>8, <1>9, <1>10, <1>11
  DEF Next, JsThread, Host

LEMMA Invariance == Spec => []IInv
BY InitIInv, NextIInv, PTL DEF Spec

(* A message that waits while nobody dispatches has a task: the test for   *)
(* an empty queue in PostIncomingMessage is enough, whatever thread drains *)
(* the queue and whenever, for any number of sessions and messages.        *)
THEOREM QueuedMessageHasTaskHolds == Spec => []QueuedMessageHasTask
<1>1. IInv => QueuedMessageHasTask
  BY DEF IInv, RunningInv, QueuedMessageHasTask
<1>2. QED
  BY <1>1, Invariance, PTL

(* The agent is connected exactly while it has a session whose socket is   *)
(* there or whose disconnect waits, and the CHECK_EQ of a disconnect       *)
(* holds, for any number of sessions and messages.                         *)
THEOREM SessionIsRealHolds == Spec => []SessionIsReal
<1>1. IInv => SessionIsReal
  <2>1. SUFFICES ASSUME IInv PROVE SessionIsReal
    OBVIOUS
  <2>2. ASSUME Running PROVE ConnectedSessionIsReal
    <3>1. Flags /\ Connected /\ \A q \in Session : SessionInv(q)
      BY <2>1, <2>2, Facts
    <3>2. ASSUME session # NoSession, conn[session] = "ended"
          PROVE  \E i \in 1 .. Len(batch \o incoming_message_queue) :
                    (batch \o incoming_message_queue)[i]
                        = <<session, "disconnect">>
      <4>1. session \in Session
        BY <3>1, <3>2 DEF Flags
      <4>2. Has(Pending, session, "disconnect")
        BY <3>1, <3>2, <4>1 DEF SessionInv, ServerAgrees
      <4>3. QED
        BY <4>2 DEF Has, Is, Pending
    <3>3. QED
      BY <3>1, <3>2 DEF Connected, ConnectedSessionIsReal
  <2>3. QED
    BY <2>1, <2>2 DEF IInv, SessionIsReal, ConnectedSessionIsReal
<1>2. QED
  BY <1>1, Invariance, PTL

(* A step posts one message, processes the first that waits, or touches    *)
(* neither history.                                                        *)
LEMMA StepOfChannel ==
    IInv /\ [Next]_vars => [Channel!ChannelNext]_(Channel!channelVars)
<1>1. SUFFICES ASSUME IInv, [Next]_vars
               PROVE  Channel!ChannelNext \/ UNCHANGED <<posted, delivered>>
  BY DEF Channel!channelVars
<1>2. QueueTypes
  BY <1>1 DEF IInv, TypeOK, QueueTypes
<1>3. ASSUME NEW s \in Session, NEW m \in Tags \cup Protocol,
             AppendMessage(s, m), UNCHANGED <<batch, delivered>>
      PROVE  Channel!ChannelNext
  BY <1>2, <1>3, Appended DEF Channel!ChannelNext, Channel!Send
<1>4. ASSUME NEW s \in Session, NEW m \in Tags \cup Protocol, NextIs(s, m)
      PROVE  Channel!ChannelNext
  BY <1>2, <1>4, Taken
  DEF Channel!ChannelNext, Channel!Receive, NextIs, queueVars
<1>5. /\ "connect" \in Tags \cup Protocol /\ "disconnect" \in Tags \cup Protocol
      /\ \A m \in Protocol : m \in Tags \cup Protocol
  BY DEF Tags
<1>6. CASE Peer
  BY <1>3, <1>5, <1>6
  DEF Peer, SessionStarted, MessageReceived, SessionTerminated,
      PostIncomingMessage, jsVars
<1>7. CASE Dispatch
  <2>1. CASE DispatchSwap
    BY <2>1 DEF DispatchSwap
  <2>2. QED
    BY <1>4, <1>5, <1>7, <2>1
    DEF Dispatch, DispatchConnect, DispatchDisconnect, DispatchProtocolMessage
<1>8. CASE StopConnected
  <2>1. session \in Session
    BY <1>1, <1>8, Facts DEF StopConnected, Flags, Connected
  <2>2. QED
    BY <1>3, <1>5, <1>8, <2>1 DEF StopConnected, queueVars
<1>9. CASE PostTask \/ NotifyMessageReceived \/ RunTask \/ InterruptCallback
  BY <1>9 DEF PostTask, NotifyMessageReceived, RunTask, InterruptCallback,
              CallDispatchMessages, queueVars, jsVars
<1>10. CASE ScriptReturns \/ LoopExit \/ WaitBlocks \/ WaitWakes \/ Start
            \/ RunScript \/ Pause \/ StopDone
  BY <1>10 DEF ScriptReturns, LoopExit, WaitBlocks, WaitWakes, Start,
               RunScript, Pause, StopDone, queueVars
<1>11. CASE LoopTurn \/ WaitForDebugger \/ WaitForDebuggerSpin
            \/ WaitForDebuggerReturns
  BY <1>11 DEF LoopTurn, WaitForDebugger, WaitForDebuggerSpin,
               WaitForDebuggerReturns, CallDispatchMessages, queueVars
<1>12. CASE UNCHANGED vars
  BY <1>12 DEF vars, queueVars, jsVars
<1>13. QED
  BY <1>1, <1>6, <1>7, <1>8, <1>9, <1>10, <1>11, <1>12 DEF Next, JsThread, Host

(* The agent implements the channel: messages are processed in the order   *)
(* they were posted, none twice and none skipped, whatever path reaches    *)
(* DispatchMessages and however it is reentered.                           *)
THEOREM DeliversInOrderHolds == Spec => DeliversInOrder
<1>1. Init => Channel!ChannelInit
  BY DEF Init, Channel!ChannelInit
<1>2. QED
  BY <1>1, Invariance, StepOfChannel, PTL
  DEF Spec, DeliversInOrder, Channel!ChannelSpec
=============================================================================
