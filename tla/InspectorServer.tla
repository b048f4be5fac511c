-------------------------- MODULE InspectorServer --------------------------
(***************************************************************************)
(* The inspector's server: who starts and stops it, the sessions of the    *)
(* clients that connect to it, and the HTTP and WebSocket protocols of a   *)
(* connection.                                                             *)
(*                                                                         *)
(* Source: inspector/inspector_socket_server.cpp, inspector_socket.cpp,    *)
(* ServerCollection, AgentImpl::Start and Stop and InspectorAgentDelegate  *)
(* in inspector_agent.cpp, and tcp_server in inspector_tcp.cpp.            *)
(*                                                                         *)
(* Every agent has a thread of its own, that of its runtime; every server  *)
(* has an I/O thread.  All agents use one port.  What an agent does with   *)
(* its messages is in InspectorAgent, what a connection does with what is  *)
(* written to it in TcpConnection.                                         *)
(*                                                                         *)
(* A runtime starts its agent once and stops it in ~Agent.  Agents,        *)
(* servers and sessions are numbered in the order they come.  A client     *)
(* sends requests and then frames; a frame comes in two halves, and a read *)
(* gets any beginning of what was sent.                                    *)
(***************************************************************************)
EXTENDS Naturals, Sequences, FiniteSets, SequencesExt

CONSTANTS
    MaxAgent,     \* bound: instances of AgentImpl; they are the targets
    MaxServer,    \* bound: instances of InspectorSocketServer
    MaxSession,   \* bound: connections that clients open
    MaxSent       \* bound: requests and frames all clients send together

ASSUME BoundAssumption ==
    {MaxAgent, MaxServer, MaxSession, MaxSent} \subseteq Nat

Agent   == 1..MaxAgent
Server  == 1..MaxServer
Session == 1..MaxSession
None    == 0

VARIABLES
    registry,  \* ServerCollection::servers_, for the port
    srv,       \* the servers, with their delegate_ and its two maps
    io,        \* what the I/O thread of a server does
    agent,     \* the agents: where they are in Start and Stop, server_
    tags,      \* TAG_CONNECT and TAG_DISCONNECT in an agent's message queue
    con,       \* the connections and their entry of connected_sessions_
    wire,      \* external: what a client sent and nobody read yet
    client,    \* external: the clients, open or not, and the frames they sent
    sends,     \* external: requests and frames sent so far
    log,       \* history: what the target was told of a session, in order
    cut,       \* history: sessions of which a read ended within a frame
    raced,     \* history: a Start met a Stop that ends the server
    fault      \* how the process died

agentVars == <<registry, agent, raced>>
conVars   == <<con, wire, client, sends, log, cut>>
vars == <<agentVars, srv, io, tags, conVars, fault>>

Idle == [step |-> "idle", ses |-> None, data |-> <<>>]

Init ==
    /\ registry = None
    /\ srv = [v \in Server |-> [state |-> "none", thread |-> "none",
                                tcp |-> "none", stopped |-> FALSE,
                                delegate |-> TRUE, targets |-> {},
                                sessions |-> [s \in Session |-> None]]]
    /\ io = [v \in Server |-> Idle]
    /\ agent = [a \in Agent |-> [phase |-> "new", server |-> None,
                                 session |-> None]]
    /\ tags = [a \in Agent |-> <<>>]
    /\ con = [s \in Session |-> [server |-> None, handler |-> "none",
                                 first |-> None, listed |-> FALSE,
                                 reading |-> FALSE, aborted |-> FALSE]]
    /\ wire = [s \in Session |-> <<>>]
    /\ client = [s \in Session |-> [open |-> TRUE, sent |-> <<>>]]
    /\ sends = 0
    /\ log = [s \in Session |-> <<>>]
    /\ cut = {}
    /\ raced = FALSE
    /\ fault = "none"

Running == fault = "none"

\* The TcpHolder of a connection lives: a protocol handler has it.
Held(s) == con[s].handler \in {"http", "ws"}

-----------------------------------------------------------------------------
(* Start and Stop of an agent, on the thread of its runtime.               *)

\* No lock is held from the HasTargets of Stop, which found no target, to
\* removeServer, nor from the getServer of Start to AddTarget: one agent is in
\* the first while another one is in the second.
Race ==
    \E a, b \in Agent :
      /\ agent[a].phase \in {"stop", "reset", "unregister"}
      /\ agent[b].phase = "add"

Observe == raced' = (raced \/ Race')

Go(a, phase) == agent' = [agent EXCEPT ![a].phase = phase] /\ Observe

\* session_targets_map_ keeps the agent of every session it ever had.
Kept(a) ==
    \E v \in Server, s \in Session : srv[v].delegate /\ srv[v].sessions[s] = a

\* The shared_ptrs to a server: those of agents and that of its thread.
Refs(v) ==
    \/ \E a \in Agent : /\ agent[a].server = v
                        /\ agent[a].phase # "gone" \/ Kept(a)
    \/ srv[v].thread \in {"starting", "run"}

\* getServer reuses the server that is registered for the port.
Registered == registry

\* ServerCollection::getServer, under its mutex.  A new server is started:
\* the state is kRunning and its thread begins.
GetServer(a) ==
    /\ Running
    /\ agent[a].phase = "new"
    /\ \A b \in 1..(a - 1) : agent[b].phase # "new"
    /\ IF Registered # None
       THEN /\ agent' = [agent EXCEPT ![a].phase = "add",
                                      ![a].server = Registered]
            /\ UNCHANGED <<registry, srv>>
       ELSE \E v \in Server :
              /\ srv[v].state = "none"
              /\ \A w \in 1..(v - 1) : srv[w].state # "none"
              /\ srv' = [srv EXCEPT ![v].state = "running",
                                    ![v].thread = "starting"]
              /\ registry' = v
              /\ agent' = [agent EXCEPT ![a].phase = "add",
                                        ![a].server = v]
    /\ Observe
    /\ UNCHANGED <<io, tags, conVars, fault>>

\* delegate_ is used: there is one, or the process dies.
WithDelegate(v, change) ==
    IF srv[v].delegate
    THEN srv' = change /\ UNCHANGED fault
    ELSE fault' = "delegate" /\ UNCHANGED srv

\* AddTarget, the end of AgentImpl::Start.
AddTarget(a) ==
    /\ Running
    /\ agent[a].phase = "add"
    /\ LET v == agent[a].server
       IN  WithDelegate(v, [srv EXCEPT ![v].targets = @ \cup {a}])
    /\ Go(a, "accepting")
    /\ UNCHANGED <<registry, io, tags, conVars>>

\* AgentImpl::Stop: a connected agent has the connection closed and waits.
Stop(a) ==
    /\ Running
    /\ agent[a].phase = "accepting"
    /\ Go(a, IF agent[a].session = None THEN "remove" ELSE "wait")
    /\ UNCHANGED <<registry, srv, io, tags, conVars, fault>>

RemoveTarget(a) ==
    /\ Running
    /\ agent[a].phase = "remove"
    /\ LET v == agent[a].server
       IN  WithDelegate(v, [srv EXCEPT ![v].targets = @ \ {a}])
    /\ Go(a, "check")
    /\ UNCHANGED <<registry, io, tags, conVars>>

\* GetTargetIds.
TargetIds(v) == srv[v].targets

\* HasTargets: an agent that was not the last leaves the server alone.
HasTargets_Mutant(v) == FALSE

HasTargets(v) == TargetIds(v) # {}

\* The end of Stop is that of ~Agent: the isolate goes next, and nobody reads
\* the queue of the agent any more.
Quit(a) == tags' = [tags EXCEPT ![a] = <<>>]

CheckTargets(a) ==
    /\ Running
    /\ agent[a].phase = "check"
    /\ LET v == agent[a].server
       IN  IF srv[v].delegate
           THEN /\ IF HasTargets(v)
                   THEN Go(a, "gone") /\ Quit(a)
                   ELSE Go(a, "stop") /\ UNCHANGED tags
                /\ UNCHANGED fault
           ELSE fault' = "delegate" /\ UNCHANGED <<agent, raced, tags>>
    /\ UNCHANGED <<registry, srv, io, conVars>>

\* InspectorSocketServer::Stop: under mutex_tcp_server_ the server is stopped
\* if the thread has made it already.
StopServer(a) ==
    /\ Running
    /\ agent[a].phase = "stop"
    /\ LET v == agent[a].server
       IN  IF srv[v].state = "stopped"
           THEN Go(a, "unregister") /\ UNCHANGED srv
           ELSE /\ srv' = [srv EXCEPT ![v].state = "stopped",
                                      ![v].stopped = TRUE,
                                      ![v].tcp = IF @ = "none" THEN @
                                                 ELSE "stopped"]
                /\ Go(a, "reset")
    /\ UNCHANGED <<registry, io, tags, conVars, fault>>

\* delegate_.reset() takes the maps along.
WithoutDelegate(v) == [srv EXCEPT ![v].delegate = FALSE, ![v].targets = {}]

\* The end of InspectorSocketServer::Stop.
ResetDelegate(a) ==
    /\ Running
    /\ agent[a].phase = "reset"
    /\ srv' = WithoutDelegate(agent[a].server)
    /\ Go(a, "unregister")
    /\ UNCHANGED <<registry, io, tags, conVars, fault>>

\* ServerCollection::removeServer, under the mutex.
RemoveServer(a) ==
    /\ Running
    /\ agent[a].phase = "unregister"
    /\ registry' = None
    /\ Go(a, "gone")
    /\ Quit(a)
    /\ UNCHANGED <<srv, io, conVars, fault>>

-----------------------------------------------------------------------------
(* The thread of a server.                                                 *)

\* The thread makes its tcp_server unless Stop was faster.
Listens_Mutant(v) == TRUE

Listens(v) == ~srv[v].stopped

MakeTcpServer(v) ==
    /\ Running
    /\ srv[v].thread = "starting"
    /\ srv' = [srv EXCEPT ![v].thread = IF Listens(v) THEN "run" ELSE "done",
                          ![v].tcp = IF Listens(v) THEN "open" ELSE @]
    /\ UNCHANGED <<agentVars, io, tags, conVars, fault>>

\* io_context_.run() returns once the context is stopped and the handler in
\* progress has ended.
EndThread(v) ==
    /\ Running
    /\ srv[v].thread = "run"
    /\ io[v] = Idle
    /\ srv[v].tcp = "stopped"
    /\ srv' = [srv EXCEPT ![v].thread = "done"]
    /\ UNCHANGED <<agentVars, io, tags, conVars, fault>>

\* The last shared_ptr goes.  The connections that are still in the map are
\* destroyed with it, and each looks itself up in the map that is going.
DeleteServer(v) ==
    /\ Running
    /\ srv[v].state \in {"running", "stopped"}
    /\ ~Refs(v)
    /\ srv' = [WithoutDelegate(v) EXCEPT ![v].state = "deleted"]
    /\ con' = [s \in Session |->
                 IF con[s].server = v
                 THEN [con[s] EXCEPT !.handler = "none", !.listed = FALSE]
                 ELSE con[s]]
    /\ registry' = IF registry = v THEN None ELSE registry
    /\ fault' \in IF \E s \in Session : con[s].server = v /\ con[s].listed
                  THEN {"none", "map"} ELSE {"none"}
    /\ UNCHANGED <<agent, raced, io, tags, wire, client, sends, log, cut>>

\* A handler may run.
IoTurn(v) ==
    Running /\ srv[v].thread = "run" /\ srv[v].tcp = "open" /\ io[v] = Idle

InHandler(v, step) == Running /\ io[v].step = step

-----------------------------------------------------------------------------
(* Clients.                                                                *)

\* A request for the list of targets, one that is not allowed, or one for a
\* WebSocket of target a; and the halves of frame i.
Get        == [kind |-> "get", of |-> 0]
BadRequest == [kind |-> "bad", of |-> 0]
Upgrade(a) == [kind |-> "upgrade", of |-> a]
HeadOf(i)  == [kind |-> "head", of |-> i]
TailOf(i)  == [kind |-> "tail", of |-> i]

SendRequest(s, r) ==
    /\ Running
    /\ con[s].handler = "http"
    /\ client[s].open
    /\ sends < MaxSent /\ sends' = sends + 1
    /\ wire' = [wire EXCEPT ![s] = Append(@, r)]
    /\ UNCHANGED <<agentVars, srv, io, tags, con, client, log, cut, fault>>

\* One frame or two, after n others.
FramesAfter(n, count) ==
    IF count = 1 THEN <<HeadOf(n + 1), TailOf(n + 1)>>
    ELSE <<HeadOf(n + 1), TailOf(n + 1), HeadOf(n + 2), TailOf(n + 2)>>

\* A frame: a text, a close frame, which is the last, or one with a flag or
\* an opcode that is not supported.  Several may be sent at once.
SendFrames(s, kinds) ==
    /\ Running
    /\ con[s].handler = "ws"
    /\ client[s].open
    /\ sends < MaxSent /\ sends' = sends + 1
    /\ LET sent == client[s].sent
       IN  /\ \A j \in 1..Len(sent) : sent[j] # "close"
           /\ client' = [client EXCEPT ![s].sent = @ \o kinds]
           /\ wire' = [wire EXCEPT ![s] =
                @ \o FramesAfter(Len(sent), Len(kinds))]
    /\ UNCHANGED <<agentVars, srv, io, tags, con, log, cut, fault>>

CloseClient(s) ==
    /\ Running
    /\ Held(s) /\ client[s].open
    /\ client' = [client EXCEPT ![s].open = FALSE]
    /\ UNCHANGED <<agentVars, srv, io, tags, con, wire, sends, log, cut, fault>>

-----------------------------------------------------------------------------
(* The delegate tells a target, and the end of a session.                  *)

\* PostIncomingMessage through session_targets_map_, for the session s of v.
\* It uses the isolate of the agent.
PostFault(v, s) ==
    LET a == srv[v].sessions[s]
    IN  CASE ~srv[v].delegate        -> "delegate"
          [] a = None                -> "target"
          [] agent[a].phase = "gone" -> "isolate"
          [] OTHER                   -> "none"

\* SessionTerminated ends the session of a target, if there is one.
Attached(s) == con[s].first # None

\* OnEof: the handler lets go of the TcpHolder, which closes the socket, so
\* that the client goes and what it sent is lost, and destroys its delegate,
\* which calls SessionTerminated.  A pending read is aborted by the close.
OnEof(s, pending) ==
    LET v == con[s].server
        a == srv[v].sessions[s]
        f == IF Attached(s) THEN PostFault(v, s) ELSE "none"
    IN  /\ con' = [con EXCEPT ![s].handler = "none", ![s].listed = FALSE,
                              ![s].aborted = pending /\ con[s].reading]
        /\ wire' = [wire EXCEPT ![s] = <<>>]
        /\ client' = [client EXCEPT ![s].open = FALSE]
        /\ fault' = f
        /\ IF Attached(s) /\ f = "none"
           THEN /\ tags' = [tags EXCEPT ![a] = Append(@, <<s, "disconnect">>)]
                /\ log' = [log EXCEPT ![s] = Append(@, 0)]
           ELSE UNCHANGED <<tags, log>>
        /\ srv' = IF /\ srv[v].state = "stopped"
                     /\ \A r \in Session \ {s} :
                          con[r].server = v => ~con[r].listed
                  THEN WithoutDelegate(v) ELSE srv

\* The read handler gets the end of the stream.
ReadEof(v, s) ==
    /\ IoTurn(v)
    /\ con[s].server = v /\ Held(s)
    /\ con[s].reading
    /\ ~client[s].open /\ wire[s] = <<>>
    /\ OnEof(s, FALSE)
    /\ UNCHANGED <<agentVars, io, sends, cut>>

\* The read fails otherwise, as the connection to the client is broken: the
\* handler returns and the loop has ended.  The connection stays, nothing is
\* read from it, and nobody is told.
ReadBroken(v, s) ==
    /\ IoTurn(v)
    /\ con[s].server = v /\ Held(s)
    /\ con[s].reading
    /\ con' = [con EXCEPT ![s].reading = FALSE]
    /\ client' = [client EXCEPT ![s].open = FALSE]
    /\ UNCHANGED <<agentVars, srv, io, tags, wire, sends, log, cut, fault>>

\* InspectorSocketServer::Send finds a session that is still there.
Sends(s) == s # None /\ Held(s)

\* The empty message that AgentImpl::Stop writes is taken out of the queue of
\* the connection, here or on the I/O thread: it closes the connection.  The
\* thread that is in a handler of the connection goes on with what is freed.
CloseByMessage(a) ==
    /\ Running
    /\ agent[a].phase = "wait"
    /\ LET s == agent[a].session
       IN  IF ~Sends(s)
           THEN UNCHANGED <<con, wire, client, tags, log, srv, fault>>
           ELSE IF io[con[s].server].ses = s
           THEN /\ fault' = "race"
                /\ UNCHANGED <<con, wire, client, tags, log, srv>>
           ELSE OnEof(s, TRUE)
    /\ Go(a, "disconnect")
    /\ UNCHANGED <<registry, io, sends, cut>>

\* The read handler of a connection that was closed under it.
ReadAborted(v, s) ==
    /\ IoTurn(v)
    /\ con[s].server = v /\ con[s].aborted
    /\ fault' = "abort"
    /\ UNCHANGED <<agentVars, srv, io, tags, conVars>>

\* DispatchMessages on the thread of the agent, for the tags.
DispatchTag(a) ==
    /\ Running
    /\ agent[a].phase \in {"accepting", "wait", "disconnect"}
    /\ tags[a] # <<>>
    /\ tags' = [tags EXCEPT ![a] = Tail(@)]
    /\ LET t == Head(tags[a])
           ok == IF t[2] = "connect"
                 THEN agent[a].phase = "accepting" /\ agent[a].session = None
                 ELSE agent[a].session # None
       IN  IF ok
           THEN /\ agent' = [agent EXCEPT ![a].session =
                               IF t[2] = "connect" THEN t[1] ELSE None]
                /\ UNCHANGED fault
           ELSE fault' = "check" /\ UNCHANGED agent
    /\ UNCHANGED <<registry, raced, srv, io, conVars>>

\* WaitForDisconnect has ended.
Disconnected(a) ==
    /\ Running
    /\ agent[a].phase = "disconnect"
    /\ agent[a].session = None
    /\ Go(a, "remove")
    /\ UNCHANGED <<registry, srv, io, tags, conVars, fault>>

-----------------------------------------------------------------------------
(* Handlers on the I/O thread.                                             *)

\* InspectorSocket::Accept: a connection begins with HTTP.
NewConnection(v) == [server |-> v, handler |-> "http", first |-> None,
                     listed |-> TRUE, reading |-> TRUE, aborted |-> FALSE]

\* do_accept and InspectorSocketServer::Accept.
Accept(v, s) ==
    /\ IoTurn(v)
    /\ con[s].server = None
    /\ \A r \in 1..(s - 1) : con[r].server # None
    /\ con' = [con EXCEPT ![s] = NewConnection(v)]
    /\ UNCHANGED <<agentVars, srv, io, tags, wire, client, sends, log, cut,
                   fault>>

\* read_loop_async: a read gets n parts of what has come, which is what the
\* handler is given unless it stops before.
Read(v, s, n, step, data) ==
    /\ IoTurn(v)
    /\ con[s].server = v /\ con[s].reading
    /\ wire' = [wire EXCEPT ![s] = SubSeq(@, n + 1, Len(@))]
    /\ io' = [io EXCEPT ![v] = [step |-> step, ses |-> s, data |-> data]]
    /\ UNCHANGED <<agentVars, srv, tags, con, client, sends, log, cut, fault>>

\* HttpHandler::OnData: llhttp stops after a request for another protocol,
\* and the rest of the data is dropped: m parts of n are left.
Events(d, n, m) ==
    /\ m = n \/ d[m].kind = "upgrade"
    /\ \A i \in 1..(m - 1) : d[i].kind # "upgrade"

ReadHttp(v, s, n) ==
    /\ con[s].handler = "http"
    /\ n \in 1..Len(wire[s])
    /\ \E m \in 1..n : /\ Events(wire[s], n, m)
                       /\ Read(v, s, n, "http", SubSeq(wire[s], 1, m))

\* A GET for an allowed host, and with a key if it is for a WebSocket.
Allowed(r) == r.kind # "bad"

\* The loop over the events, or over the frames, goes on with the rest.
Continue(v, step) ==
    io' = [io EXCEPT ![v] = IF Len(@.data) = 1 THEN Idle
                            ELSE [step |-> step, ses |-> @.ses,
                                  data |-> Tail(@.data)]]

\* A request that is not allowed: CancelHandshake, and the others are dropped.
CancelHandshake(v) ==
    /\ InHandler(v, "http")
    /\ ~Allowed(Head(io[v].data))
    /\ io' = [io EXCEPT ![v] = Idle]
    /\ UNCHANGED <<agentVars, srv, tags, conVars, fault>>

\* OnHttpGet, HandleGetRequest: the list is made of the targets, the answers
\* to other paths are not.
OnHttpGet(v) ==
    /\ InHandler(v, "http")
    /\ Head(io[v].data).kind = "get"
    /\ fault' \in IF srv[v].delegate THEN {"none"} ELSE {"none", "delegate"}
    /\ Continue(v, "http")
    /\ UNCHANGED <<agentVars, srv, tags, conVars>>

\* OnSocketUpgrade, SessionStarted: TargetExists, and Decline if it does not.
TargetExists(v) ==
    /\ InHandler(v, "http")
    /\ Head(io[v].data).kind = "upgrade"
    /\ IF ~srv[v].delegate
       THEN fault' = "delegate" /\ UNCHANGED io
       ELSE /\ IF Head(io[v].data).of \in TargetIds(v)
               THEN io' = [io EXCEPT ![v].step = "accept"]
               ELSE Continue(v, "http")
            /\ UNCHANGED fault
    /\ UNCHANGED <<agentVars, srv, tags, conVars>>

\* AcceptUpgrade: the WsHandler takes the TcpHolder over, and the HttpHandler
\* is destroyed.
AcceptUpgrade(v) ==
    /\ InHandler(v, "accept")
    /\ con' = [con EXCEPT ![io[v].ses].first = Head(io[v].data).of,
                          ![io[v].ses].handler = "ws"]
    /\ io' = [io EXCEPT ![v].step = "start"]
    /\ UNCHANGED <<agentVars, srv, tags, wire, client, sends, log, cut, fault>>

\* InspectorAgentDelegate::StartSession.  HttpHandler::OnData, which is still
\* running, would use its handler for another event.
StartSession(v) ==
    /\ InHandler(v, "start")
    /\ LET s == io[v].ses
           a == Head(io[v].data).of
       IN  IF srv[v].delegate /\ a \in srv[v].targets
           THEN /\ srv' = [srv EXCEPT ![v].sessions[s] = a]
                /\ tags' = [tags EXCEPT ![a] = Append(@, <<s, "connect">>)]
                /\ log' = [log EXCEPT ![s] = Append(@, 0)]
                /\ fault' = IF Len(io[v].data) > 1 THEN "freed" ELSE "none"
           ELSE /\ fault' = IF srv[v].delegate THEN "target" ELSE "delegate"
                /\ UNCHANGED <<srv, tags, log>>
    /\ Continue(v, "http")
    /\ UNCHANGED <<agentVars, con, wire, client, sends, cut>>

\* TcpHolder::OnDataReceivedCb for a WsHandler.
ReadWs(v, s, n) ==
    /\ con[s].handler = "ws"
    /\ n \in 1..Len(wire[s])
    /\ Read(v, s, n, "ws", SubSeq(wire[s], 1, n))

\* What is left of the data after a frame that was handled; WsHandler::OnData
\* goes on with it.
AfterFrame_Mutant(d) == <<>>

AfterFrame(d) == SubSeq(d, 3, Len(d))

\* The first frame of the data is complete.
Complete(d) == Len(d) > 1 /\ d[1].kind = "head"

FrameKind(v) == client[io[v].ses].sent[Head(io[v].data).of]

Rest(v, d) ==
    io' = [io EXCEPT ![v] = IF d = <<>> THEN Idle ELSE [@ EXCEPT !.data = d]]

\* A message goes to the target of the session.
Deliver(v, m) ==
    LET s == io[v].ses
    IN  /\ fault' = PostFault(v, s)
        /\ log' = IF fault' = "none" THEN [log EXCEPT ![s] = Append(@, m)]
                  ELSE log

\* ParseWsFrames: FRAME_OK.
OnWsFrame(v) ==
    /\ InHandler(v, "ws")
    /\ Complete(io[v].data) /\ FrameKind(v) = "text"
    /\ Deliver(v, io[v].data[1].of)
    /\ Rest(v, AfterFrame(io[v].data))
    /\ UNCHANGED <<agentVars, srv, tags, con, wire, client, sends, cut>>

\* FRAME_CLOSE: a close frame is sent, and what came with it is dropped.  The
\* connection stays.
CloseFrameReceived(v) ==
    /\ InHandler(v, "ws")
    /\ Complete(io[v].data) /\ FrameKind(v) = "close"
    /\ io' = [io EXCEPT ![v] = Idle]
    /\ UNCHANGED <<agentVars, srv, tags, conVars, fault>>

\* FRAME_ERROR.  The rest of a frame that was cut may look like anything.
FrameError(v) ==
    /\ InHandler(v, "ws")
    /\ \/ Complete(io[v].data) /\ FrameKind(v) = "bad"
       \/ Head(io[v].data).kind = "tail"
    /\ OnEof(io[v].ses, FALSE)
    /\ io' = [io EXCEPT ![v] = Idle]
    /\ UNCHANGED <<agentVars, sends, cut>>

\* FRAME_INCOMPLETE: what there is of the frame is dropped.  If only few bytes
\* are missing the check of the length does not see it, and the frame is read
\* past the end of the data.
FrameIncomplete(v) ==
    /\ InHandler(v, "ws")
    /\ ~Complete(io[v].data)
    /\ cut' = cut \cup {io[v].ses}
    /\ fault' \in {"none", "overrun"}
    /\ io' = [io EXCEPT ![v] = Idle]
    /\ UNCHANGED <<agentVars, srv, tags, con, wire, client, sends, log>>

\* No frame has this number.
Misread == 2 * MaxSent + 1

\* The rest of a frame that was cut is taken for a frame of its own.
FrameMisread(v) ==
    /\ InHandler(v, "ws")
    /\ Head(io[v].data).kind = "tail"
    /\ Deliver(v, Misread)
    /\ Continue(v, "ws")
    /\ UNCHANGED <<agentVars, srv, tags, con, wire, client, sends, cut>>

-----------------------------------------------------------------------------
AgentStep(a) ==
    \/ GetServer(a)
    \/ AddTarget(a)
    \/ Stop(a)
    \/ CloseByMessage(a)
    \/ Disconnected(a)
    \/ RemoveTarget(a)
    \/ CheckTargets(a)
    \/ StopServer(a)
    \/ ResetDelegate(a)
    \/ RemoveServer(a)
    \/ DispatchTag(a)

ClientStep(s) ==
    \/ \E r \in {Get, BadRequest} \cup {Upgrade(a) : a \in Agent} :
         SendRequest(s, r)
    \/ \E kinds \in {<<"text">>, <<"text", "text">>, <<"close">>, <<"bad">>} :
         SendFrames(s, kinds)
    \/ CloseClient(s)

\* What a handler does after it has read.
HandlerStep(v) ==
    \/ CancelHandshake(v)
    \/ OnHttpGet(v)
    \/ TargetExists(v)
    \/ AcceptUpgrade(v)
    \/ StartSession(v)
    \/ OnWsFrame(v)
    \/ CloseFrameReceived(v)
    \/ FrameError(v)
    \/ FrameIncomplete(v)
    \/ FrameMisread(v)

ReadStep(v, s) ==
    \/ Accept(v, s)
    \/ ReadEof(v, s)
    \/ ReadBroken(v, s)
    \/ ReadAborted(v, s)
    \/ \E n \in 1..Len(wire[s]) : ReadHttp(v, s, n) \/ ReadWs(v, s, n)

Next ==
    \/ \E a \in Agent : AgentStep(a)
    \/ \E s \in Session : ClientStep(s)
    \/ \E v \in Server :
         \/ MakeTcpServer(v)
         \/ EndThread(v)
         \/ DeleteServer(v)
         \/ HandlerStep(v)
         \/ \E s \in Session : ReadStep(v, s)

\* The thread of a server is scheduled: it starts, a handler that has begun
\* ends, and run() returns once it may.
Spec ==
    /\ Init /\ [][Next]_vars
    /\ \A v \in Server : WF_vars(MakeTcpServer(v) \/ EndThread(v)
                                 \/ HandlerStep(v))

-----------------------------------------------------------------------------
TypeOK ==
    /\ registry \in Server \cup {None}
    /\ \A v \in Server :
         /\ srv[v].state \in {"none", "running", "stopped", "deleted"}
         /\ srv[v].thread \in {"none", "starting", "run", "done"}
         /\ srv[v].tcp \in {"none", "open", "stopped"}
         /\ srv[v].targets \subseteq Agent
         /\ io[v].step \in {"idle", "http", "accept", "start", "ws"}
         /\ io[v].step = "idle" <=> io[v].data = <<>>
    /\ \A a \in Agent :
         /\ agent[a].server \in Server \cup {None}
         /\ agent[a].session \in Session \cup {None}
    /\ \A s \in Session :
         /\ con[s].handler \in {"none", "http", "ws"}
         /\ con[s].first \in Agent \cup {None}
         /\ log[s] \in Seq(0..Misread)
    /\ fault \in {"none", "delegate", "target", "isolate", "check", "map",
                  "freed", "race", "abort", "overrun"}

\* The messages of session s its target was told of.
Told(s) == {log[s][i] : i \in 1..Len(log[s])} \ {0}

Texts(s) == {i \in 1..Len(client[s].sent) : client[s].sent[i] = "text"}

(***************************************************************************)
(* A target hears of a session first that it is connected, then its        *)
(* messages and last that it is disconnected, and it hears that when the   *)
(* connection is gone, whichever thread closed it and whatever the         *)
(* connection was doing (SessionStarted, SessionTerminated).               *)
(***************************************************************************)
TagsBracketMessages ==
    Running => \A s \in Session : log[s] # <<>> =>
      LET ended == Len(log[s]) > 1 /\ Last(log[s]) = 0
      IN  /\ \A i \in 2..(Len(log[s]) - 1) : log[s][i] # 0
          /\ log[s][1] = 0
          /\ ended => con[s].handler = "none"
          /\ con[s].handler = "none" =>
               ended \/ srv[con[s].server].state = "deleted"

(***************************************************************************)
(* While no read has ended within a frame, a target gets the texts of a    *)
(* client as they were sent, none twice or out of turn, and once all that  *)
(* was sent has been read it has got them all: several frames in one read  *)
(* are all handled (WsHandler::OnData).                                    *)
(***************************************************************************)
DeliveredAsSent ==
    \A s \in Session \ cut :
      /\ \A i \in 1..Len(log[s]) :
           log[s][i] # 0 => log[s][i] = i - 1 /\ i - 1 \in Texts(s)
      /\ Running /\ con[s].handler = "ws" /\ wire[s] = <<>>
           /\ io[con[s].server].ses # s
         => Told(s) = Texts(s)

(***************************************************************************)
(* The loop of HttpHandler::OnData never goes on after the upgrade has     *)
(* destroyed the handler, although a client may send more in the same read *)
(* ("Event handling may delete *this").                                    *)
(***************************************************************************)
NoFreedHandler == fault # "freed"

(* A target hears of a session its start, its messages as the client sent  *)
(* them while no read ends within a frame, and its end, in that order and  *)
(* whichever thread closes it; the loop of the HTTP handler never goes on  *)
(* in a destroyed one (inspector_socket.cpp:507).                          *)
SessionsAreTold ==
    /\ TypeOK
    /\ TagsBracketMessages
    /\ DeliveredAsSent
    /\ NoFreedHandler

(***************************************************************************)
(* Agents start and stop in any order and at the same time.  Unless an     *)
(* agent is between getServer and AddTarget while another one is between   *)
(* HasTargets and removeServer, an agent that accepts debuggers is a       *)
(* target of a server that runs, has its delegate and is the registered    *)
(* one, so that the next agent joins it: an agent that stops does not take *)
(* the server from the others.                                             *)
(***************************************************************************)
AcceptingAgentIsListed ==
    Running /\ ~raced =>
      \A a \in Agent : agent[a].phase = "accepting" =>
        LET v == agent[a].server
        IN  /\ registry = v
            /\ srv[v].state = "running" /\ srv[v].delegate
            /\ a \in srv[v].targets

(***************************************************************************)
(* Under the same condition one server at most listens on the port         *)
(* (ServerCollection).                                                     *)
(***************************************************************************)
OneListener ==
    ~raced => Cardinality({v \in Server : srv[v].tcp = "open"}) <= 1

(* Whatever agents start and stop at the same time, the agents of a port   *)
(* share one server, the only one that listens, and it serves the ones     *)
(* that are left when one stops (ServerCollection,                         *)
(* inspector_agent.cpp:390-490).  The one exception is what no lock of the *)
(* code prevents: an agent that has found no target left, and is about to  *)
(* stop and unregister the server, meets one that has just got a server    *)
(* from getServer and is not yet its target.                               *)
ServersAreShared ==
    /\ AcceptingAgentIsListed
    /\ OneListener

(***************************************************************************)
(* The thread of a server that was stopped ends, even if Stop came before  *)
(* the thread made its tcp_server ("This will stop the the server          *)
(* io_context which will result in stopping the server thread as well").   *)
(***************************************************************************)
StoppedThreadEnds ==
    \A v \in Server :
      srv[v].stopped ~> (srv[v].thread = "done" \/ fault # "none")
=============================================================================
