------------------------ MODULE DispatchedExecution ------------------------
(***************************************************************************)
(* DispatchPump together with the endpoints it dispatches to: what was the *)
(* environment there is the client daemon here (client/daemon/src), joined *)
(* to the control plane by the WebSocket of ws_client.cpp on its side and  *)
(* ws-gateway.ts on the other, and by its HTTP calls.                      *)
(*                                                                         *)
(* The two ends of a socket are separate: the client leaves it (error,     *)
(* timeout, end of the process) and dials a new one; the gateway replaces  *)
(* the old entry, or learns later that the old socket has closed.  Sockets *)
(* of an endpoint are numbered in the order of their upgrades; 0 is none.  *)
(*                                                                         *)
(* The daemon is the part of EndpointDaemon that meets the pump: a queue   *)
(* with a limit, the revocation marks and the consumer, which executes one *)
(* task at a time and may end.  The marks come from the status query that  *)
(* sees the end of a workflow (workflow-status.ts).                        *)
(***************************************************************************)
EXTENDS DispatchPump, Sequences

VARIABLES
  running,  \* endpoints whose daemon has registered and not ended
  link,     \* WsClient: the socket the daemon receives on
  upgrades, \* sockets opened so far
  current,  \* WsGateway.connections
  open,     \* sockets that are OPEN for the gateway
  closing,  \* sockets whose close event the gateway has not handled
  wire,     \* what is written to the socket a daemon receives on, in order
  queue,    \* TaskQueue: the messages queued in each daemon
  hand,     \* the message the consumer executes
  marks,    \* TaskQueue: tasks marked as revoked and not yet met in the queue
  exited,   \* endpoints whose consumer has left its loop while the daemon runs on
  ended,    \* workflows whose record says that they have completed or failed
  refused   \* history: tasks a full queue has refused

sessionVars == <<link, upgrades, current, open, closing>>
daemonVars  == <<queue, hand, marks, exited>>
executionVars == <<running, sessionVars, wire, daemonVars, ended, refused>>

Socket == Endpoints \X (Nat \ {0})

\* A frame on a socket.  The task.revoke frames that one status query writes to an
\* endpoint are one item, of which the daemon receives one task after the other.
Item == [type : {"task.dispatch"}, message : Message]
          \cup [type : {"task.revoke"}, tasks : SUBSET Tasks]

-----------------------------------------------------------------------------
(* WebSocket, both ends *)

\* isOnline: the entry of the endpoint is a socket that is OPEN.
IsOnline(e, entry, sockets) == <<e, entry[e]>> \in sockets
GatewayView == online' = {e \in Endpoints : IsOnline(e, current', open')}

\* The client connects (the variant: only once); the gateway closes the entry it has
\* for the endpoint and puts the new socket in its place.
FirstDial(e) == upgrades[e] = 0
MayDial(e) == link[e] = 0

Dial(e) ==
  LET s == upgrades[e] + 1
      old == {<<e, current[e]>>} \cap open
  IN  /\ JsFree
      /\ e \in running /\ MayDial(e)
      /\ upgrades' = [upgrades EXCEPT ![e] = s]
      /\ link' = [link EXCEPT ![e] = s]
      /\ current' = [current EXCEPT ![e] = s]
      /\ open' = (open \ old) \cup {<<e, s>>}
      /\ closing' = closing \cup old
      /\ GatewayView
      /\ UNCHANGED <<registryVars, account, pollVars, notices, sidecarVars, sent, notified,
                     dead, overlapped, faults, running, wire, daemonVars, ended, refused>>

\* The client leaves its socket: what was on it is never received.
Leave(e) ==
  /\ link' = [link EXCEPT ![e] = 0]
  /\ wire' = [wire EXCEPT ![e] = <<>>]

\* receiveFrame fails or times out.
Break(e) ==
  /\ link[e] # 0
  /\ Fault
  /\ Leave(e)
  /\ UNCHANGED <<registryVars, online, account, pollVars, notices, sidecarVars, sent, notified,
                 dead, overlapped, running, upgrades, current, open, closing, daemonVars,
                 ended, refused>>

\* The gateway's end learns that the client has gone ...
PeerGone(e, s) ==
  /\ JsFree
  /\ <<e, s>> \in open /\ link[e] # s
  /\ open' = open \ {<<e, s>>}
  /\ closing' = closing \cup {<<e, s>>}
  /\ UNCHANGED current
  /\ GatewayView
  /\ UNCHANGED <<registryVars, account, pollVars, notices, sidecarVars, sent, notified, dead,
                 overlapped, faults, running, link, upgrades, wire, daemonVars, ended, refused>>

\* ... and its close event, which may come after the endpoint has connected again, takes
\* the entry away if it is still that socket's (the variant: in any case).
AfterAnyClose(e, s) == 0
AfterClose(e, s) == IF current[e] = s THEN 0 ELSE current[e]

CloseEvent(e, s) ==
  /\ JsFree
  /\ <<e, s>> \in closing
  /\ closing' = closing \ {<<e, s>>}
  /\ current' = [current EXCEPT ![e] = AfterClose(e, s)]
  /\ UNCHANGED open
  /\ GatewayView
  /\ UNCHANGED <<registryVars, account, pollVars, notices, sidecarVars, sent, notified, dead,
                 overlapped, faults, running, link, upgrades, wire, daemonVars, ended, refused>>

-----------------------------------------------------------------------------
(* Daemon *)

QueuedFor(e, m) == Cardinality({x \in queue[e] : ModelOf[x.taskId] = m})

\* TaskQueue::push's check.
HasRoom(e, m) == QueuedFor(e, m) < MaxRemaining

\* capabilityJson: what is left of each lane (the variant counts one place too many).
RoomAndOne(e) == [m \in Models |-> MaxRemaining + 1 - QueuedFor(e, m)]
Room(e) == [m \in Models |-> IF QueuedFor(e, m) < MaxRemaining THEN MaxRemaining - QueuedFor(e, m) ELSE 0]

\* The register route; an id that is still registered is refused (409).
Registered(e) == IF e \in registered THEN JsFree /\ UNCHANGED vars ELSE Register(e, Room(e))

\* The daemon starts and registers; after a 409 it goes on with the old entry.  It does
\* not register again for as long as it runs.
DaemonStarts(e) ==
  /\ e \notin running
  /\ running' = running \cup {e}
  /\ Registered(e)
  /\ UNCHANGED <<sessionVars, wire, daemonVars, ended, refused>>

\* heartbeatOnce.  A 404 is only logged, and nothing changes.
Beat(e) ==
  /\ e \in running
  /\ Heartbeat(e, Room(e))
  /\ UNCHANGED executionVars

\* The process ends, and what it had in memory is gone.
DaemonDies(e) ==
  /\ e \in running
  /\ Fault
  /\ running' = running \ {e}
  /\ Leave(e)
  /\ queue' = [queue EXCEPT ![e] = {}] /\ hand' = [hand EXCEPT ![e] = None]
  /\ marks' = [marks EXCEPT ![e] = {}] /\ exited' = exited \ {e}
  /\ UNCHANGED <<registryVars, online, account, pollVars, notices, sidecarVars, sent, notified,
                 dead, overlapped, upgrades, current, open, closing, ended, refused>>

\* handleDispatchMessage: queued, or dropped when the lane is full.
ReceiveDispatch(e) ==
  LET m    == Head(wire[e]).message
      room == HasRoom(e, ModelOf[m.taskId])
  IN  /\ wire[e] # <<>> /\ Head(wire[e]).type = "task.dispatch"
      /\ wire' = [wire EXCEPT ![e] = Tail(@)]
      /\ queue' = IF room THEN [queue EXCEPT ![e] = @ \cup {m}] ELSE queue
      /\ refused' = IF room THEN refused ELSE refused \cup {m.taskId}
      /\ UNCHANGED <<vars, running, sessionVars, hand, marks, exited, ended>>

\* handleRevokeMessage: a mark, whether the task is queued or not.
ReceiveRevocation(e) ==
  LET item == Head(wire[e])
  IN  /\ wire[e] # <<>> /\ item.type = "task.revoke"
      /\ \E t \in item.tasks :
           /\ marks' = [marks EXCEPT ![e] = @ \cup {t}]
           /\ wire' = [wire EXCEPT ![e] =
                         IF item.tasks = {t} THEN Tail(@)
                         ELSE <<[item EXCEPT !.tasks = @ \ {t}]>> \o Tail(@)]
      /\ UNCHANGED <<vars, running, sessionVars, queue, hand, exited, ended, refused>>

Receive(e) == ReceiveDispatch(e) \/ ReceiveRevocation(e)

\* What popAny may drop on its way: one copy for each mark it meets.
Skips(e) ==
  {S \in SUBSET queue[e] : /\ \A x \in S : x.taskId \in marks[e]
                           /\ \A x, y \in S : x.taskId = y.taskId => x = y}

\* popAny: the marked copies it meets are dropped with their marks, and the first
\* other copy is taken.  (Which copies come first is EndpointDaemon's matter.)
Take(e, m) ==
  /\ e \notin exited /\ hand[e] = None
  /\ \E skipped \in Skips(e) :
       LET left == marks[e] \ {x.taskId : x \in skipped}
       IN  /\ m \in queue[e] \ skipped /\ m.taskId \notin left
           /\ queue' = [queue EXCEPT ![e] = @ \ (skipped \cup {m})]
           /\ marks' = [marks EXCEPT ![e] = left]
  /\ hand' = [hand EXCEPT ![e] = m]
  /\ UNCHANGED <<vars, running, sessionVars, wire, exited, ended, refused>>

\* All that is queued is marked: popAny answers FALSE, which consumeLoop takes for the
\* shutdown.  The other threads go on; what is queued later stays there.
ConsumerEnds(e) ==
  /\ e \notin exited /\ hand[e] = None
  /\ queue[e] # {} /\ queue[e] \in Skips(e)
  /\ exited' = exited \cup {e}
  /\ queue' = [queue EXCEPT ![e] = {}]
  /\ marks' = [marks EXCEPT ![e] = @ \ {x.taskId : x \in queue[e]}]
  /\ UNCHANGED <<vars, running, sessionVars, wire, hand, ended, refused>>

PopAny(e) == (\E m \in queue[e] : Take(e, m)) \/ ConsumerEnds(e)

\* The consumer reports and goes on, whatever the answer; the account takes a first report.
Finish(e, ok) ==
  /\ hand[e] # None
  /\ hand' = [hand EXCEPT ![e] = None]
  /\ IF FirstReport(hand[e].taskId) THEN Report(hand[e], ok) ELSE JsFree /\ UNCHANGED vars
  /\ UNCHANGED <<running, sessionVars, wire, queue, marks, exited, ended, refused>>

\* The input cannot be fetched, or the report does not arrive.
Abort(e) ==
  /\ hand[e] # None
  /\ Fault
  /\ hand' = [hand EXCEPT ![e] = None]
  /\ UNCHANGED <<registryVars, online, account, pollVars, notices, sidecarVars, sent, notified,
                 dead, overlapped, running, sessionVars, wire, queue, marks, exited, ended, refused>>

-----------------------------------------------------------------------------
(* The control plane and the sidecar, as DispatchPump has them *)

\* A message pushed in this step is on the endpoint's socket, unless the client has left it.
Written(p, e) ==
  LET m == signed[p]
  IN  IF /\ pc[p] = "signing" /\ pc'[p] = "pushed"
         /\ m.endpointId = e /\ current[e] = link[e]
        THEN <<[type |-> "task.dispatch", message |-> m]>>
        ELSE <<>>

Poll(p) ==
  /\ PollStep(p)
  /\ wire' = [e \in Endpoints |-> wire[e] \o Written(p, e)]
  /\ UNCHANGED <<running, sessionVars, daemonVars, ended, refused>>

\* A status query sees the end of a workflow: it is recorded, after which no query asks
\* the sidecar again, and what is pushed and not reported is revoked (the variant: also
\* of other workflows).  Queries that overlap, and revoke twice, are WorkflowLedger's matter.
ToRevokeOfAll(w, e) == {t \in Tasks : InFlight(t) /\ account[t].endpointId = e}
ToRevoke(w, e) ==
  {t \in Tasks : WorkflowOf[t] = w /\ InFlight(t) /\ account[t].endpointId = e}

EndSeen(w) ==
  /\ JsFree
  /\ w \notin active /\ w \notin ended
  /\ ended' = ended \cup {w}
  /\ wire' = [e \in Endpoints |->
                IF e \in online /\ current[e] = link[e] /\ ToRevoke(w, e) # {}
                  THEN Append(wire[e], [type |-> "task.revoke", tasks |-> ToRevoke(w, e)])
                  ELSE wire[e]]
  /\ UNCHANGED <<vars, running, sessionVars, daemonVars, refused>>

Unseen ==
  /\ \/ \E p \in Polls : Tick(p) \/ PollFails(p)
     \/ \E n \in notices : Notify(n) \/ NotifyFails(n)
     \/ \E e \in Endpoints : TtlElapses(e)
     \/ StatusSweep
     \/ \E t \in Tasks : Emit(t)
     \/ \E w \in Workflows : RunEnds(w)
  /\ UNCHANGED executionVars

ExecutionInit ==
  /\ Init
  /\ running = {}
  /\ link = [e \in Endpoints |-> 0] /\ upgrades = [e \in Endpoints |-> 0]
  /\ current = [e \in Endpoints |-> 0]
  /\ open = {} /\ closing = {} /\ wire = [e \in Endpoints |-> <<>>]
  /\ queue = [e \in Endpoints |-> {}] /\ hand = [e \in Endpoints |-> None]
  /\ marks = [e \in Endpoints |-> {}] /\ exited = {}
  /\ ended = {} /\ refused = {}

SessionStep(e) ==
  \/ Dial(e)
  \/ \E s \in 1..upgrades[e] : CloseEvent(e, s)

DaemonStep(e) ==
  \/ DaemonStarts(e)
  \/ Beat(e)
  \/ Receive(e)
  \/ PopAny(e)
  \/ \E ok \in BOOLEAN : Finish(e, ok)

Loss(e) ==
  \/ Break(e)
  \/ \E s \in 1..upgrades[e] : PeerGone(e, s)
  \/ DaemonDies(e)
  \/ Abort(e)

ExecutionNext ==
  \/ \E p \in Polls : Poll(p)
  \/ \E w \in Workflows : EndSeen(w)
  \/ \E e \in Endpoints : SessionStep(e)
  \/ \E e \in Endpoints : DaemonStep(e)
  \/ \E e \in Endpoints : Loss(e)
  \/ Unseen

allVars == <<vars, executionVars>>

ExecutionSpec == ExecutionInit /\ [][ExecutionNext]_allVars

\* The timer and the polls go on; a daemon that has ended is started again, dials until
\* it is connected, receives, executes and sends heartbeats, until its consumer ends; no
\* status query need come.  What needs the event loop
\* waits in its queue while a poll is in its loop, and is served between two such
\* stretches: it is enabled again and again, not for good, hence SF.
FairExecutionSpec ==
  /\ ExecutionSpec
  /\ \A p \in Polls : WF_allVars(Poll(p)) /\ WF_allVars(Tick(p) /\ UNCHANGED executionVars)
  /\ \A e \in Endpoints :
       /\ SF_allVars(DaemonStarts(e)) /\ SF_allVars(Dial(e)) /\ SF_allVars(Beat(e))
       /\ WF_allVars(Receive(e)) /\ WF_allVars(PopAny(e))
       /\ SF_allVars(\E ok \in BOOLEAN : Finish(e, ok))

-----------------------------------------------------------------------------
(* Properties *)

\* Every variable keeps its type.
ExecutionTypeOK ==
  /\ TypeOK
  /\ running \in SUBSET Endpoints
  /\ link \in [Endpoints -> Nat] /\ upgrades \in [Endpoints -> Nat] /\ current \in [Endpoints -> Nat]
  /\ open \in SUBSET Socket /\ closing \in SUBSET Socket
  /\ wire \in [Endpoints -> Seq(Item)]
  /\ queue \in [Endpoints -> SUBSET Message] /\ hand \in [Endpoints -> Message \cup {None}]
  /\ \A e \in Endpoints, m \in Models : QueuedFor(e, m) <= MaxRemaining
  /\ marks \in [Endpoints -> SUBSET Tasks] /\ exited \in SUBSET Endpoints
  /\ ended \in SUBSET Workflows /\ refused \in SUBSET Tasks

\* However late the close event of an earlier socket comes, the socket an endpoint
\* receives on is the one the gateway pushes to, for as long as it has not seen it close.
LiveSocketIsCurrent ==
  \A e \in Endpoints : <<e, link[e]>> \in open => current[e] = link[e]

\* An endpoint whose daemon runs comes back online after every failure of its socket.
ComesBackOnline == \A e \in Endpoints : []<>(e \in running => e \in online)

\* As long as nothing fails, a task that a graph node waits for is executed and reported,
\* or its workflow ends, unless a full queue has refused it or the consumer of its
\* endpoint has ended.
Settled(t) == Reported(t) \/ WorkflowOf[t] \notin active
SettledUnlessGivenUp ==
  []<>(\A t \in emitted : Settled(t) \/ faults > 0 \/ t \in refused \/ TargetOf(t) \in exited)

\* What a full queue has refused is dispatched again, says the comment on the refusal.
RefusedIsDispatchedAgain ==
  \A t \in Tasks : t \in refused ~> (Settled(t) \/ faults > 0 \/ TargetOf(t) \in exited)

=============================================================================
