---------------------- MODULE DispatchedExecutionProofs ----------------------
(***************************************************************************)
(* Proofs about DispatchedExecution, for any endpoints, tasks, workflows   *)
(* and polls, any room in the lanes and any number of faults.  Every step  *)
(* of it is a step of the pump, or leaves all of the pump's state alone    *)
(* but the set of endpoints the gateway takes to be online; so the         *)
(* invariant of DispatchPumpProofs holds here too.                         *)
(***************************************************************************)
EXTENDS DispatchedExecution, DispatchPumpProofs, FiniteSetTheorems, SequenceTheorems

\* The sockets: none has a number yet to come, none is both open and closing, at most
\* one per endpoint is open, and that one is the gateway's entry.  Who is online is
\* what the entries and the open sockets say.
SessionTypeOK ==
  /\ link \in [Endpoints -> Nat] /\ upgrades \in [Endpoints -> Nat] /\ current \in [Endpoints -> Nat]
  /\ open \in SUBSET Socket /\ closing \in SUBSET Socket
Numbered ==
  \A e \in Endpoints, s \in Nat \ {0} : <<e, s>> \in open \cup closing => s <= upgrades[e]
OpenIsEntry ==
  \A e \in Endpoints, s \in Nat \ {0} :
    <<e, s>> \in open => current[e] = s /\ <<e, s>> \notin closing
ViewIsCurrent == online = {e \in Endpoints : IsOnline(e, current, open)}
SessionInv == SessionTypeOK /\ Numbered /\ OpenIsEntry /\ ViewIsCurrent

\* The daemons: lanes within their limit, and no copy of a task, on its way, queued or
\* in hand, that the gateway has not sent to this endpoint.
DaemonTypeOK ==
  /\ running \in SUBSET Endpoints
  /\ queue \in [Endpoints -> SUBSET Message] /\ hand \in [Endpoints -> Message \cup {None}]
  /\ marks \in [Endpoints -> SUBSET Tasks] /\ exited \in SUBSET Endpoints
  /\ ended \in SUBSET Workflows /\ refused \in SUBSET Tasks
SentItem(e) == {i \in Item : i.type = "task.dispatch" => i.message \in sent /\ i.message.endpointId = e}
WireWasSent ==
  wire \in [Endpoints -> Seq(Item)] /\ \A e \in Endpoints : wire[e] \in Seq(SentItem(e))
Lanes ==
  \A e \in Endpoints :
    /\ IsFiniteSet(queue[e])
    /\ \A m \in Models : QueuedFor(e, m) <= MaxRemaining
CopiesWereSent ==
  /\ \A e \in Endpoints : \A x \in queue[e] : x \in sent /\ x.endpointId = e
  /\ \A e \in Endpoints : hand[e] # None => hand[e] \in sent /\ hand[e].endpointId = e
DaemonInv == DaemonTypeOK /\ WireWasSent /\ Lanes /\ CopiesWereSent

EInv == IInv /\ SessionInv /\ DaemonInv

-----------------------------------------------------------------------------
(* The pump inside *)

\* What an account, a poll or a notice is about does not depend on who is online.
LEMMA OnlineIsApart ==
  ASSUME IInv, online' \in SUBSET Endpoints, faults' \in 0..MaxFaults,
         UNCHANGED <<registryVars, account, pollVars, notices, sidecarVars, sent, notified,
                     dead, overlapped>>
  PROVE  IInv'
<1> USE DEF registryVars, pollVars, sidecarVars
<1>1. TypeOK'
  BY DEF IInv, TypeOK
<1>2. HeldSound' /\ SentSound' /\ EntryIds'
  BY DEF IInv, HeldSound, SentSound, EntryIds, Sound, BoundOrDead, Suspended, Recorded
<1>3. OneNotice' /\ Serial'
  BY DEF IInv, OneNotice, Reported, Recorded, NotifiedAtMostOnce, Serial, Suspended, Pushed,
         PushedMeansSent
<1>4. QED
  BY <1>1, <1>2, <1>3 DEF IInv

LEMMA FaultCounted ==
  ASSUME TypeOK, Fault
  PROVE  faults' \in 0..MaxFaults
BY ConstantsAssumption DEF TypeOK, Fault

\* The room a daemon reports is one the registry may hold.
LEMMA RoomType ==
  ASSUME DaemonInv, NEW e \in Endpoints
  PROVE  Room(e) \in Capability /\ \A m \in Models : QueuedFor(e, m) \in Nat
<1>1. ASSUME NEW m \in Models PROVE QueuedFor(e, m) \in Nat
  <2>1. {x \in queue[e] : ModelOf[x.taskId] = m} \in SUBSET queue[e]
    OBVIOUS
  <2>2. IsFiniteSet({x \in queue[e] : ModelOf[x.taskId] = m})
    BY <2>1, FS_Subset DEF DaemonInv, Lanes
  <2>3. QED
    BY <2>2, FS_CardinalityType DEF QueuedFor
<1>2. ASSUME NEW m \in Models
      PROVE  (IF QueuedFor(e, m) < MaxRemaining THEN MaxRemaining - QueuedFor(e, m) ELSE 0)
               \in 0..MaxRemaining
  BY <1>1, ConstantsAssumption
<1>3. QED
  BY <1>1, <1>2 DEF Room, Capability

\* A step of the pump that the composed system takes.
LEMMA PumpKept ==
  ASSUME IInv, Next \/ UNCHANGED vars
  PROVE  IInv' /\ sent \subseteq sent'
BY StepInductive, SentGrows

LEMMA PollIsPump ==
  ASSUME NEW p \in Polls, PollStep(p)
  PROVE  Next /\ online' = online
BY DEF Next, PollStep, Ping, Status, SkipPushed, SkipOffline, SkipNoRoom, Admit, Push, Resume

LEMMA UnseenIsPump ==
  ASSUME Unseen
  PROVE  Next /\ online' = online /\ UNCHANGED executionVars
<1>1. CASE \E p \in Polls : Tick(p) \/ PollFails(p)
  BY <1>1 DEF Unseen, Next, Tick, PollFails
<1>2. CASE \E n \in notices : Notify(n) \/ NotifyFails(n)
  BY <1>2 DEF Unseen, Next, Notify, NotifyFails
<1>3. CASE \E e \in Endpoints : TtlElapses(e)
  BY <1>3 DEF Unseen, Next, EndpointStep, TtlElapses
<1>4. CASE StatusSweep
  BY <1>4 DEF Unseen, Next, StatusSweep
<1>5. CASE (\E t \in Tasks : Emit(t)) \/ (\E w \in Workflows : RunEnds(w))
  BY <1>5 DEF Unseen, Next, Emit, RunEnds
<1>6. QED
  BY <1>1, <1>2, <1>3, <1>4, <1>5 DEF Unseen

LEMMA BeatIsPump ==
  ASSUME EInv, NEW e \in Endpoints, Beat(e)
  PROVE  Next /\ online' = online /\ UNCHANGED executionVars
BY RoomType DEF EInv, Beat, Next, EndpointStep, Heartbeat

LEMMA StartIsPump ==
  ASSUME EInv, NEW e \in Endpoints, DaemonStarts(e)
  PROVE  (Next \/ UNCHANGED vars) /\ online' = online
<1>1. CASE e \in registered
  BY <1>1 DEF DaemonStarts, Registered, vars
<1>2. CASE e \notin registered
  BY <1>2, RoomType DEF EInv, DaemonStarts, Registered, Next, EndpointStep, Register
<1>3. QED
  BY <1>1, <1>2

LEMMA FinishIsPump ==
  ASSUME EInv, NEW e \in Endpoints, NEW ok \in BOOLEAN, Finish(e, ok)
  PROVE  (Next \/ UNCHANGED vars) /\ online' = online
<1>1. CASE FirstReport(hand[e].taskId)
  BY <1>1 DEF Finish, Report, Next
<1>2. CASE ~FirstReport(hand[e].taskId)
  BY <1>2 DEF Finish, vars
<1>3. QED
  BY <1>1, <1>2

-----------------------------------------------------------------------------
(* The sockets *)

LEMMA SessionUnchanged ==
  ASSUME SessionInv, UNCHANGED <<upgrades, current, open, closing, online>>,
         link' \in [Endpoints -> Nat]
  PROVE  SessionInv'
BY DEF SessionInv, SessionTypeOK, Numbered, OpenIsEntry, ViewIsCurrent, IsOnline

LEMMA DialKeeps ==
  ASSUME SessionInv, NEW e \in Endpoints, Dial(e)
  PROVE  SessionInv' /\ online' \in SUBSET Endpoints
<1> DEFINE s == upgrades[e] + 1
           old == {<<e, current[e]>>} \cap open
<1>1. s \in Nat \ {0} /\ <<e, s>> \in Socket /\ old \subseteq open
  BY DEF SessionInv, SessionTypeOK, Socket
<1>2. /\ upgrades' = [upgrades EXCEPT ![e] = s] /\ link' = [link EXCEPT ![e] = s]
      /\ current' = [current EXCEPT ![e] = s]
      /\ open' = (open \ old) \cup {<<e, s>>} /\ closing' = closing \cup old
  BY DEF Dial
<1>3. SessionTypeOK'
  BY <1>1, <1>2 DEF SessionInv, SessionTypeOK
<1>4. ASSUME NEW f \in Endpoints, NEW r \in Nat \ {0}, <<f, r>> \in open \cup closing
      PROVE  r <= upgrades'[f] /\ <<f, r>> # <<e, s>>
  <2>1. r <= upgrades[f] /\ upgrades[f] \in Nat
    BY <1>4 DEF SessionInv, Numbered, SessionTypeOK
  <2>2. upgrades'[f] = IF f = e THEN s ELSE upgrades[f]
    BY <1>2 DEF SessionInv, SessionTypeOK
  <2>3. QED
    BY <2>1, <2>2
<1>5. upgrades'[e] = s
  BY <1>2 DEF SessionInv, SessionTypeOK
<1>6. Numbered'
  <2> SUFFICES ASSUME NEW f \in Endpoints, NEW r \in Nat \ {0}, <<f, r>> \in open' \cup closing'
               PROVE  r <= upgrades'[f]
    BY DEF Numbered
  <2>1. CASE <<f, r>> = <<e, s>>
    BY <2>1, <1>1, <1>5
  <2>2. CASE <<f, r>> \in open \cup closing
    BY <2>2, <1>4
  <2>3. QED
    BY <2>1, <2>2, <1>2
<1>7. OpenIsEntry'
  <2> SUFFICES ASSUME NEW f \in Endpoints, NEW r \in Nat \ {0}, <<f, r>> \in open'
               PROVE  current'[f] = r /\ <<f, r>> \notin closing'
    BY DEF OpenIsEntry
  <2>1. CASE <<f, r>> = <<e, s>>
    BY <2>1, <1>1, <1>2, <1>4 DEF SessionInv, SessionTypeOK
  <2>2. CASE <<f, r>> \in open /\ <<f, r>> \notin old
    <3>1. current[f] = r /\ <<f, r>> \notin closing
      BY <2>2 DEF SessionInv, OpenIsEntry
    <3>2. f # e
      BY <2>2, <3>1
    <3>3. QED
      BY <1>2, <2>2, <3>1, <3>2 DEF SessionInv, SessionTypeOK
  <2>3. QED
    BY <2>1, <2>2, <1>2
<1>8. ViewIsCurrent' /\ online' \in SUBSET Endpoints
  BY DEF Dial, GatewayView, ViewIsCurrent
<1>9. QED
  BY <1>3, <1>6, <1>7, <1>8 DEF SessionInv

LEMMA PeerGoneKeeps ==
  ASSUME SessionInv, NEW e \in Endpoints, NEW s \in 1..upgrades[e], PeerGone(e, s)
  PROVE  SessionInv' /\ online' \in SUBSET Endpoints
<1>1. /\ <<e, s>> \in open /\ open' = open \ {<<e, s>>}
      /\ closing' = closing \cup {<<e, s>>} /\ UNCHANGED <<link, upgrades, current>>
  BY DEF PeerGone
<1>2. SessionTypeOK' /\ Numbered'
  BY <1>1 DEF SessionInv, SessionTypeOK, Numbered
<1>3. OpenIsEntry'
  BY <1>1 DEF SessionInv, OpenIsEntry
<1>4. ViewIsCurrent' /\ online' \in SUBSET Endpoints
  BY DEF PeerGone, GatewayView, ViewIsCurrent
<1>5. QED
  BY <1>2, <1>3, <1>4 DEF SessionInv

LEMMA CloseEventKeeps ==
  ASSUME SessionInv, NEW e \in Endpoints, NEW s \in 1..upgrades[e], CloseEvent(e, s)
  PROVE  SessionInv' /\ online' \in SUBSET Endpoints
<1>1. /\ <<e, s>> \in closing /\ closing' = closing \ {<<e, s>>}
      /\ current' = [current EXCEPT ![e] = AfterClose(e, s)]
      /\ UNCHANGED <<link, upgrades, open>>
  BY DEF CloseEvent
<1>2. SessionTypeOK' /\ Numbered'
  BY <1>1 DEF SessionInv, SessionTypeOK, Numbered, AfterClose
<1>3. OpenIsEntry'
  <2> SUFFICES ASSUME NEW f \in Endpoints, NEW r \in Nat \ {0}, <<f, r>> \in open'
               PROVE  current'[f] = r /\ <<f, r>> \notin closing'
    BY DEF OpenIsEntry
  <2>1. current[f] = r /\ <<f, r>> \notin closing
    BY <1>1 DEF SessionInv, OpenIsEntry
  <2>2. current'[f] = current[f]
    BY <1>1, <2>1 DEF SessionInv, SessionTypeOK, AfterClose
  <2>3. QED
    BY <1>1, <2>1, <2>2
<1>4. ViewIsCurrent' /\ online' \in SUBSET Endpoints
  BY DEF CloseEvent, GatewayView, ViewIsCurrent
<1>5. QED
  BY <1>2, <1>3, <1>4 DEF SessionInv

-----------------------------------------------------------------------------
(* The daemons *)

LEMMA LanesUnchanged ==
  ASSUME Lanes, queue' = queue
  PROVE  Lanes'
BY DEF Lanes, QueuedFor

\* Fewer messages in a queue, fewer in each lane.
LEMMA LanesShrink ==
  ASSUME DaemonInv, \A e \in Endpoints : queue'[e] \subseteq queue[e]
  PROVE  Lanes'
<1> SUFFICES ASSUME NEW e \in Endpoints
             PROVE  /\ IsFiniteSet(queue'[e])
                    /\ \A m \in Models : QueuedFor(e, m)' <= MaxRemaining
  BY DEF Lanes
<1>1. IsFiniteSet(queue[e]) /\ queue'[e] \in SUBSET queue[e]
  BY DEF DaemonInv, Lanes
<1>2. IsFiniteSet(queue'[e])
  BY <1>1, FS_Subset
<1>3. ASSUME NEW m \in Models PROVE QueuedFor(e, m)' <= MaxRemaining
  <2> DEFINE before == {x \in queue[e] : ModelOf[x.taskId] = m}
             after  == {x \in queue'[e] : ModelOf[x.taskId] = m}
  <2>1. before \in SUBSET queue[e] /\ after \in SUBSET before
    BY <1>1
  <2>2. IsFiniteSet(before)
    BY <1>1, <2>1, FS_Subset
  <2>3. IsFiniteSet(after) /\ Cardinality(after) <= Cardinality(before)
    BY <2>1, <2>2, FS_Subset
  <2>4. Cardinality(before) \in Nat /\ Cardinality(after) \in Nat
    BY <2>2, <2>3, FS_CardinalityType
  <2>5. Cardinality(before) <= MaxRemaining
    BY DEF DaemonInv, Lanes, QueuedFor
  <2>6. Cardinality(after) <= MaxRemaining
    BY <2>3, <2>4, <2>5, ConstantsAssumption
  <2>7. QED
    BY <2>6 DEF QueuedFor
<1>4. QED
  BY <1>2, <1>3

\* A message joins the lane of its model only where there is room.
LEMMA LanesGrow ==
  ASSUME DaemonInv, NEW e \in Endpoints, NEW x \in Message,
         HasRoom(e, ModelOf[x.taskId]),
         queue' = [queue EXCEPT ![e] = @ \cup {x}]
  PROVE  Lanes'
<1>1. \A f \in Endpoints : queue'[f] = IF f = e THEN queue[f] \cup {x} ELSE queue[f]
  BY DEF DaemonInv, DaemonTypeOK
<1>2. x.taskId \in Tasks /\ ModelOf[x.taskId] \in Models
  BY ConstantsAssumption DEF Message
<1>3. QueuedFor(e, ModelOf[x.taskId]) < MaxRemaining
  BY DEF HasRoom
<1> SUFFICES ASSUME NEW f \in Endpoints
             PROVE  /\ IsFiniteSet(queue'[f])
                    /\ \A m \in Models : QueuedFor(f, m)' <= MaxRemaining
  BY DEF Lanes
<1>4. IsFiniteSet(queue[f]) /\ \A m \in Models : QueuedFor(f, m) <= MaxRemaining
  BY DEF DaemonInv, Lanes
<1>5. IsFiniteSet(queue'[f])
  BY <1>1, <1>4, FS_AddElement
<1>6. ASSUME NEW m \in Models PROVE QueuedFor(f, m)' <= MaxRemaining
  <2> DEFINE before == {y \in queue[f] : ModelOf[y.taskId] = m}
             after  == {y \in queue'[f] : ModelOf[y.taskId] = m}
  <2>1. CASE f = e /\ ModelOf[x.taskId] = m
    <3>1. after = before \cup {x}
      BY <1>1, <2>1
    <3>2. before \in SUBSET queue[f]
      OBVIOUS
    <3>3. IsFiniteSet(before)
      BY <1>4, <3>2, FS_Subset
    <3>4. Cardinality(before) \in Nat /\ Cardinality(after) \in {Cardinality(before), Cardinality(before) + 1}
      BY <3>1, <3>3, FS_CardinalityType, FS_AddElement
    <3>5. Cardinality(before) < MaxRemaining
      BY <1>3, <2>1 DEF QueuedFor
    <3>6. Cardinality(after) <= MaxRemaining
      BY <3>4, <3>5, ConstantsAssumption
    <3>7. QED
      BY <3>6 DEF QueuedFor
  <2>2. CASE ~(f = e /\ ModelOf[x.taskId] = m)
    <3>1. after = before
      BY <1>1, <2>2
    <3>2. Cardinality(before) <= MaxRemaining
      BY <1>4 DEF QueuedFor
    <3>3. QED
      BY <3>1, <3>2 DEF QueuedFor
  <2>3. QED
    BY <2>1, <2>2
<1>7. QED
  BY <1>5, <1>6

\* What was sent stays sent.
LEMMA StillSent ==
  ASSUME NEW e \in Endpoints, NEW s \in Seq(SentItem(e)), sent \subseteq sent'
  PROVE  s \in Seq(SentItem(e)') /\ s \in Seq(Item)
<1>1. SentItem(e) \subseteq SentItem(e)' /\ SentItem(e) \subseteq Item
  BY DEF SentItem
<1>2. Len(s) \in Nat /\ s \in [1..Len(s) -> SentItem(e)]
  BY LenProperties
<1>3. s \in [1..Len(s) -> SentItem(e)'] /\ s \in [1..Len(s) -> Item]
  BY <1>1, <1>2
<1>4. QED
  BY <1>2, <1>3

\* Sockets on which every item is one of this endpoint's, after a step.
LEMMA WireKept ==
  ASSUME NEW f, wire' = [e \in Endpoints |-> f[e]],
         \A e \in Endpoints : f[e] \in Seq(SentItem(e)')
  PROVE  WireWasSent'
<1>1. \A e \in Endpoints : wire'[e] \in Seq(SentItem(e)') /\ wire'[e] = f[e]
  OBVIOUS
<1>2. ASSUME NEW e \in Endpoints PROVE f[e] \in Seq(Item)
  <2>1. SentItem(e)' \subseteq Item
    BY DEF SentItem
  <2>2. Len(f[e]) \in Nat /\ f[e] \in [1..Len(f[e]) -> SentItem(e)']
    BY LenProperties
  <2>3. f[e] \in [1..Len(f[e]) -> Item]
    BY <2>1, <2>2
  <2>4. QED
    BY <2>2, <2>3
<1>3. wire' \in [Endpoints -> Seq(Item)]
  BY <1>2
<1>4. QED
  BY <1>1, <1>3 DEF WireWasSent

LEMMA WireUnchanged ==
  ASSUME WireWasSent, wire' = wire, sent \subseteq sent'
  PROVE  WireWasSent'
BY StillSent DEF WireWasSent

LEMMA WireCleared ==
  ASSUME WireWasSent, NEW e \in Endpoints, Leave(e), sent \subseteq sent'
  PROVE  WireWasSent'
<1>1. \A f \in Endpoints : <<>> \in Seq(SentItem(f)')
  BY EmptySeq
<1>2. wire' \in [Endpoints -> Seq(Item)] /\ \A f \in Endpoints : wire'[f] \in {wire[f], <<>>}
  BY EmptySeq DEF WireWasSent, Leave
<1>3. QED
  BY <1>1, <1>2, StillSent DEF WireWasSent

\* Steps that touch no queue and no hand.
LEMMA DaemonUnchanged ==
  ASSUME DaemonInv, UNCHANGED <<queue, hand, marks, exited, refused>>, running' \in SUBSET Endpoints,
         ended' \in SUBSET Workflows, WireWasSent', sent \subseteq sent'
  PROVE  DaemonInv'
<1>1. Lanes'
  BY LanesUnchanged DEF DaemonInv
<1>2. DaemonTypeOK' /\ CopiesWereSent'
  BY DEF DaemonInv, DaemonTypeOK, CopiesWereSent
<1>3. QED
  BY <1>1, <1>2 DEF DaemonInv

\* What a poll pushes goes on the socket of the endpoint it is for.
LEMMA PollKeeps ==
  ASSUME EInv, NEW p \in Polls, Poll(p)
  PROVE  DaemonInv'
<1>1. sent \subseteq sent' /\ UNCHANGED <<running, queue, hand, marks, exited, ended, refused>>
      /\ wire' = [e \in Endpoints |-> wire[e] \o Written(p, e)] /\ PollStep(p)
  BY PollIsPump, SentGrows DEF Poll, daemonVars
<1>2. ASSUME NEW e \in Endpoints PROVE Written(p, e) \in Seq(SentItem(e)')
  <2>1. CASE Written(p, e) = <<>>
    BY <2>1, EmptySeq
  <2>2. CASE pc[p] = "signing" /\ pc'[p] = "pushed" /\ signed[p].endpointId = e /\ current[e] = link[e]
    <3> DEFINE x == signed[p]
               i == [type |-> "task.dispatch", message |-> x]
    <3>1. x \in Message
      BY <2>2 DEF EInv, IInv, HeldSound, Suspended, Sound
    <3>2. Push(p)
      BY <1>1, <2>2 DEF PollStep, Ping, Status, SkipPushed, SkipOffline, SkipNoRoom, Admit, Resume
    <3>3. x \in sent'
      BY <2>2, <3>2 DEF Push, EInv, IInv, TypeOK
    <3>4. i \in SentItem(e)'
      BY <2>2, <3>1, <3>3 DEF SentItem, Item
    <3>5. <<>> \in Seq(SentItem(e)') /\ Append(<<>>, i) = <<i>>
      BY EmptySeq
    <3>6. <<i>> \in Seq(SentItem(e)')
      BY <3>4, <3>5
    <3>7. QED
      BY <2>2, <3>6 DEF Written
  <2>3. QED
    BY <2>1, <2>2 DEF Written
<1>3. ASSUME NEW e \in Endpoints PROVE wire[e] \o Written(p, e) \in Seq(SentItem(e)')
  <2>1. wire[e] \in Seq(SentItem(e)')
    BY <1>1, StillSent DEF EInv, DaemonInv, WireWasSent
  <2>2. QED
    BY <1>2, <2>1, ConcatProperties
<1>4. WireWasSent'
  <2> DEFINE f == [e \in Endpoints |-> wire[e] \o Written(p, e)]
  <2>1. \A e \in Endpoints : f[e] \in Seq(SentItem(e)')
    BY <1>3
  <2>2. wire' = [e \in Endpoints |-> f[e]]
    BY <1>1
  <2> HIDE DEF f
  <2>3. QED
    BY <2>1, <2>2, WireKept
<1>5. QED
  BY <1>1, <1>4, DaemonUnchanged DEF EInv, DaemonInv, DaemonTypeOK

\* A query that sees the end of a workflow writes revocations, and no dispatch.
LEMMA EndSeenKeeps ==
  ASSUME EInv, NEW w \in Workflows, EndSeen(w)
  PROVE  DaemonInv'
<1>1. UNCHANGED <<running, queue, hand, marks, exited, refused, sent>> /\ ended' = ended \cup {w}
  BY DEF EndSeen, daemonVars, vars
<1>2. ASSUME NEW e \in Endpoints
      PROVE  (IF e \in online /\ current[e] = link[e] /\ ToRevoke(w, e) # {}
                THEN Append(wire[e], [type |-> "task.revoke", tasks |-> ToRevoke(w, e)])
                ELSE wire[e]) \in Seq(SentItem(e)')
  <2>1. wire[e] \in Seq(SentItem(e)')
    BY <1>1, StillSent DEF EInv, DaemonInv, WireWasSent
  <2>2. [type |-> "task.revoke", tasks |-> ToRevoke(w, e)] \in SentItem(e)'
    BY DEF SentItem, Item, ToRevoke
  <2>3. QED
    BY <2>1, <2>2, AppendProperties
<1>3. WireWasSent'
  <2> DEFINE f == [e \in Endpoints |->
                     IF e \in online /\ current[e] = link[e] /\ ToRevoke(w, e) # {}
                       THEN Append(wire[e], [type |-> "task.revoke", tasks |-> ToRevoke(w, e)])
                       ELSE wire[e]]
  <2>1. \A e \in Endpoints : f[e] \in Seq(SentItem(e)')
    BY <1>2
  <2>2. wire' = [e \in Endpoints |-> f[e]]
    BY DEF EndSeen
  <2> HIDE DEF f
  <2>3. QED
    BY <2>1, <2>2, WireKept
<1>4. QED
  BY <1>1, <1>3, DaemonUnchanged DEF EInv, DaemonInv, DaemonTypeOK

\* The first item of a socket, and the rest.
LEMMA FirstItem ==
  ASSUME WireWasSent, NEW e \in Endpoints, wire[e] # <<>>, UNCHANGED sent
  PROVE  /\ Head(wire[e]) \in SentItem(e)
         /\ Tail(wire[e]) \in Seq(SentItem(e)')
         /\ SentItem(e)' = SentItem(e)
<1>1. SentItem(e)' = SentItem(e)
  BY DEF SentItem
<1>2. QED
  BY <1>1, HeadTailProperties DEF WireWasSent

LEMMA ReceiveDispatchKeeps ==
  ASSUME EInv, NEW e \in Endpoints, ReceiveDispatch(e)
  PROVE  DaemonInv'
<1> DEFINE x == Head(wire[e]).message
           room == HasRoom(e, ModelOf[x.taskId])
<1>1. /\ DaemonInv /\ wire[e] # <<>> /\ Head(wire[e]).type = "task.dispatch"
      /\ UNCHANGED <<sent, running, hand, marks, exited, ended>>
      /\ wire' = [wire EXCEPT ![e] = Tail(wire[e])]
      /\ room => queue' = [queue EXCEPT ![e] = queue[e] \cup {x}] /\ refused' = refused
      /\ ~room => queue' = queue /\ refused' = refused \cup {x.taskId}
  <2>1. DaemonInv
    BY DEF EInv
  <2>2. /\ wire[e] # <<>> /\ Head(wire[e]).type = "task.dispatch"
        /\ UNCHANGED <<sent, running, hand, marks, exited, ended>>
        /\ wire' = [wire EXCEPT ![e] = Tail(wire[e])]
    BY DEF ReceiveDispatch, vars
  <2>3. CASE room
    BY <2>1, <2>2, <2>3 DEF ReceiveDispatch
  <2>4. CASE ~room
    BY <2>1, <2>2, <2>4 DEF ReceiveDispatch
  <2>5. QED
    BY <2>1, <2>2, <2>3, <2>4
<1>2. x \in Message /\ x \in sent /\ x.endpointId = e /\ x.taskId \in Tasks
  <2>1. Head(wire[e]) \in SentItem(e)
    BY <1>1, FirstItem DEF DaemonInv
  <2>2. QED
    BY <1>1, <2>1 DEF SentItem, Item, Message
<1>3. WireWasSent'
  <2>1. Tail(wire[e]) \in Seq(SentItem(e)') /\ \A f \in Endpoints : wire[f] \in Seq(SentItem(f)')
    BY <1>1, FirstItem, StillSent DEF DaemonInv, WireWasSent
  <2>2. /\ wire' = [f \in Endpoints |-> wire'[f]] /\ wire'[e] = Tail(wire[e])
        /\ \A f \in Endpoints \ {e} : wire'[f] = wire[f]
    BY <1>1 DEF DaemonInv, WireWasSent
  <2>3. \A f \in Endpoints : wire'[f] \in Seq(SentItem(f)')
    BY <2>1, <2>2
  <2>4. QED
    BY <2>2, <2>3, WireKept
<1>4. Lanes'
  <2>1. CASE room
    BY <1>1, <1>2, <2>1, LanesGrow
  <2>2. CASE ~room
    BY <1>1, <2>2, LanesUnchanged DEF DaemonInv
  <2>3. QED
    BY <2>1, <2>2
<1>5. queue' \in [Endpoints -> SUBSET Message]
      /\ \A f \in Endpoints : \A y \in queue'[f] : y \in queue[f] \/ (f = e /\ y = x)
  <2> HIDE DEF x, room
  <2>1. QED
    BY <1>1, <1>2 DEF DaemonInv, DaemonTypeOK
<1>6. DaemonTypeOK'
  <2> HIDE DEF x, room
  <2>1. QED
    BY <1>1, <1>2, <1>5 DEF DaemonInv, DaemonTypeOK
<1>7. CopiesWereSent'
  <2> HIDE DEF x, room
  <2>1. QED
    BY <1>1, <1>2, <1>5 DEF DaemonInv, CopiesWereSent
<1>8. QED
  BY <1>3, <1>4, <1>6, <1>7 DEF DaemonInv

LEMMA ReceiveRevocationKeeps ==
  ASSUME EInv, NEW e \in Endpoints, ReceiveRevocation(e)
  PROVE  DaemonInv'
<1> DEFINE item == Head(wire[e])
<1>1. PICK t \in item.tasks :
        /\ marks' = [marks EXCEPT ![e] = @ \cup {t}]
        /\ wire' = [wire EXCEPT ![e] =
                      IF item.tasks = {t} THEN Tail(wire[e])
                      ELSE <<[item EXCEPT !.tasks = item.tasks \ {t}]>> \o Tail(wire[e])]
  BY DEF ReceiveRevocation
<1>2. DaemonInv /\ wire[e] # <<>> /\ item.type = "task.revoke"
      /\ UNCHANGED <<sent, running, queue, hand, exited, ended, refused>>
  BY DEF ReceiveRevocation, EInv, vars
<1>3. item \in SentItem(e) /\ Tail(wire[e]) \in Seq(SentItem(e)') /\ SentItem(e)' = SentItem(e)
  BY <1>2, FirstItem DEF DaemonInv
<1>4. item \in [type : {"task.revoke"}, tasks : SUBSET Tasks] /\ t \in Tasks
  BY <1>1, <1>2, <1>3 DEF SentItem, Item
<1> DEFINE left == [item EXCEPT !.tasks = item.tasks \ {t}]
<1>5. left \in SentItem(e)'
  BY <1>3, <1>4 DEF SentItem, Item
<1>6. <<left>> \o Tail(wire[e]) \in Seq(SentItem(e)')
  <2> HIDE DEF left, item
  <2>1. <<>> \in Seq(SentItem(e)') /\ Append(<<>>, left) = <<left>>
    BY EmptySeq
  <2>2. <<left>> \in Seq(SentItem(e)')
    BY <1>5, <2>1
  <2>3. QED
    BY <1>3, <2>2, ConcatProperties
<1>7. WireWasSent'
  <2> HIDE DEF left
  <2>1. \A f \in Endpoints : wire[f] \in Seq(SentItem(f)')
    BY <1>2, StillSent DEF DaemonInv, WireWasSent
  <2>2. /\ wire' = [f \in Endpoints |-> wire'[f]]
        /\ wire'[e] \in {Tail(wire[e]), <<left>> \o Tail(wire[e])}
        /\ \A f \in Endpoints \ {e} : wire'[f] = wire[f]
    BY <1>1, <1>2 DEF DaemonInv, WireWasSent, left
  <2>3. \A f \in Endpoints : wire'[f] \in Seq(SentItem(f)')
    BY <1>3, <1>6, <2>1, <2>2
  <2>4. QED
    BY <2>2, <2>3, WireKept
<1>8. Lanes'
  BY <1>2, LanesUnchanged DEF DaemonInv
<1>9. DaemonTypeOK' /\ CopiesWereSent'
  BY <1>1, <1>2, <1>4 DEF DaemonInv, DaemonTypeOK, CopiesWereSent
<1>10. QED
  BY <1>7, <1>8, <1>9 DEF DaemonInv

\* A queue that gets shorter, and a hand that is as before, empty, or takes from it.
LEMMA QueueShrinks ==
  ASSUME DaemonInv, NEW e \in Endpoints, NEW m \in queue[e] \cup {None},
         hand' \in {hand, [hand EXCEPT ![e] = m]},
         NEW Q \in SUBSET queue[e], queue' = [queue EXCEPT ![e] = Q],
         NEW M \in SUBSET Tasks, marks' = [marks EXCEPT ![e] = M],
         exited' \in SUBSET Endpoints, running' \in SUBSET Endpoints,
         WireWasSent', sent \subseteq sent', UNCHANGED <<ended, refused>>
  PROVE  DaemonInv'
<1>1. \A f \in Endpoints : queue'[f] \subseteq queue[f]
  BY DEF DaemonInv, DaemonTypeOK
<1>2. \A f \in Endpoints : hand'[f] = hand[f] \/ (f = e /\ hand'[f] = m)
  BY DEF DaemonInv, DaemonTypeOK
<1>3. Lanes'
  BY <1>1, LanesShrink
<1>4. DaemonTypeOK'
  BY DEF DaemonInv, DaemonTypeOK
<1>5. CopiesWereSent'
  BY <1>1, <1>2 DEF DaemonInv, CopiesWereSent
<1>6. QED
  BY <1>3, <1>4, <1>5 DEF DaemonInv

LEMMA PopKeeps ==
  ASSUME EInv, NEW e \in Endpoints, PopAny(e)
  PROVE  DaemonInv'
<1>1. DaemonInv /\ UNCHANGED <<sent, running, wire, ended, refused>>
  BY DEF EInv, PopAny, Take, ConsumerEnds, vars
<1>2. WireWasSent' /\ running' \in SUBSET Endpoints /\ marks[e] \in SUBSET Tasks
      /\ exited \in SUBSET Endpoints
  BY <1>1, WireUnchanged DEF DaemonInv, DaemonTypeOK
<1>3. ASSUME NEW m \in queue[e], Take(e, m) PROVE DaemonInv'
  <2>1. PICK skipped \in Skips(e) :
          /\ queue' = [queue EXCEPT ![e] = queue[e] \ (skipped \cup {m})]
          /\ marks' = [marks EXCEPT ![e] = marks[e] \ {x.taskId : x \in skipped}]
    BY <1>3 DEF Take
  <2>2. hand' = [hand EXCEPT ![e] = m] /\ exited' = exited
    BY <1>3 DEF Take
  <2> DEFINE Q == queue[e] \ (skipped \cup {m})
             M == marks[e] \ {x.taskId : x \in skipped}
  <2>3. Q \in SUBSET queue[e] /\ M \in SUBSET Tasks
        /\ queue' = [queue EXCEPT ![e] = Q] /\ marks' = [marks EXCEPT ![e] = M]
    BY <1>2, <2>1
  <2> HIDE DEF Q, M
  <2>4. QED
    BY <1>1, <1>2, <2>2, <2>3, QueueShrinks
<1>4. CASE ConsumerEnds(e)
  <2> DEFINE M == marks[e] \ {x.taskId : x \in queue[e]}
  <2>1. queue' = [queue EXCEPT ![e] = {}] /\ marks' = [marks EXCEPT ![e] = M]
        /\ hand' = hand /\ exited' = exited \cup {e} /\ M \in SUBSET Tasks
    BY <1>2, <1>4 DEF ConsumerEnds
  <2> HIDE DEF M
  <2>2. {} \in SUBSET queue[e] /\ None \in queue[e] \cup {None}
    OBVIOUS
  <2>3. QED
    BY <1>1, <1>2, <2>1, <2>2, QueueShrinks
<1>5. QED
  BY <1>3, <1>4 DEF PopAny

\* A hand that empties.
LEMMA HandEmptied ==
  ASSUME DaemonInv, NEW e \in Endpoints, hand' = [hand EXCEPT ![e] = None],
         WireWasSent', sent \subseteq sent',
         UNCHANGED <<queue, marks, exited, running, ended, refused>>
  PROVE  DaemonInv'
<1>1. queue' = [queue EXCEPT ![e] = queue[e]] /\ marks' = [marks EXCEPT ![e] = marks[e]]
      /\ marks[e] \in SUBSET Tasks /\ exited' \in SUBSET Endpoints /\ running' \in SUBSET Endpoints
  BY DEF DaemonInv, DaemonTypeOK
<1>2. queue[e] \in SUBSET queue[e] /\ None \in queue[e] \cup {None}
  OBVIOUS
<1>3. QED
  BY <1>1, <1>2, QueueShrinks

-----------------------------------------------------------------------------
(* The invariant *)

LEMMA InitEInv == ExecutionInit => EInv
<1> SUFFICES ASSUME ExecutionInit PROVE EInv
  OBVIOUS
<1>1. IInv
  BY InitInductive DEF ExecutionInit
<1>2. SessionInv
  BY DEF ExecutionInit, Init, SessionInv, SessionTypeOK, Numbered, OpenIsEntry, ViewIsCurrent,
         IsOnline
<1>3. DaemonTypeOK /\ CopiesWereSent /\ WireWasSent
  BY EmptySeq DEF ExecutionInit, DaemonTypeOK, CopiesWereSent, WireWasSent
<1>4. Lanes
  <2> SUFFICES ASSUME NEW e \in Endpoints
               PROVE  /\ IsFiniteSet(queue[e])
                      /\ \A m \in Models : QueuedFor(e, m) <= MaxRemaining
    BY DEF Lanes
  <2>1. queue[e] = {} /\ IsFiniteSet({}) /\ Cardinality({}) = 0
    BY FS_EmptySet DEF ExecutionInit
  <2>2. \A m \in Models : {x \in queue[e] : ModelOf[x.taskId] = m} = {}
    BY <2>1
  <2>3. \A m \in Models : QueuedFor(e, m) = 0
    BY <2>1, <2>2 DEF QueuedFor
  <2>4. QED
    BY <2>1, <2>3, ConstantsAssumption
<1>5. QED
  BY <1>1, <1>2, <1>3, <1>4 DEF EInv, DaemonInv

LEMMA SessionStepKeeps ==
  ASSUME EInv, NEW e \in Endpoints,
         \/ SessionStep(e)
         \/ \E s \in 1..upgrades[e] : PeerGone(e, s)
  PROVE  EInv'
<1>1. SessionInv' /\ online' \in SUBSET Endpoints
  BY DialKeeps, CloseEventKeeps, PeerGoneKeeps DEF EInv, SessionStep
<1>2. /\ UNCHANGED <<registryVars, account, pollVars, notices, sidecarVars, sent, notified,
                     dead, overlapped, faults, running, wire, queue, hand, marks, exited,
                     ended, refused>>
  BY DEF SessionStep, Dial, CloseEvent, PeerGone, daemonVars
<1>3. /\ faults' \in 0..MaxFaults /\ running' \in SUBSET Endpoints /\ ended' \in SUBSET Workflows
      /\ WireWasSent'
  BY <1>2, WireUnchanged DEF EInv, IInv, TypeOK, DaemonInv, DaemonTypeOK
<1>4. IInv'
  BY <1>1, <1>2, <1>3, OnlineIsApart DEF EInv
<1>5. DaemonInv'
  BY <1>2, <1>3, DaemonUnchanged DEF EInv
<1>6. QED
  BY <1>1, <1>4, <1>5 DEF EInv

LEMMA DaemonStepKeeps ==
  ASSUME EInv, NEW e \in Endpoints, DaemonStep(e)
  PROVE  EInv'
<1>s. SessionInv /\ DaemonInv /\ IInv /\ link \in [Endpoints -> Nat]
  BY DEF EInv, SessionInv, SessionTypeOK
<1>w. wire' = wire /\ sent \subseteq sent' => WireWasSent'
  BY <1>s, WireUnchanged DEF DaemonInv
<1>1. CASE DaemonStarts(e)
  <2>1. (Next \/ UNCHANGED vars) /\ online' = online
    BY <1>1, StartIsPump
  <2>2. UNCHANGED <<sessionVars, wire, queue, hand, marks, exited, ended, refused>>
        /\ running' \in SUBSET Endpoints /\ ended' \in SUBSET Workflows
    BY <1>1, <1>s DEF DaemonStarts, daemonVars, DaemonInv, DaemonTypeOK
  <2>3. QED
    BY <1>s, <1>w, <2>1, <2>2, PumpKept, SessionUnchanged, DaemonUnchanged DEF EInv, sessionVars
<1>2. CASE Beat(e)
  <2>1. Next /\ online' = online /\ UNCHANGED executionVars
    BY <1>2, BeatIsPump
  <2>2. running' \in SUBSET Endpoints /\ ended' \in SUBSET Workflows
    BY <1>s, <2>1 DEF executionVars, DaemonInv, DaemonTypeOK
  <2>3. QED
    BY <1>s, <1>w, <2>1, <2>2, PumpKept, SessionUnchanged, DaemonUnchanged
       DEF EInv, executionVars, sessionVars, daemonVars
<1>3. CASE Receive(e) \/ PopAny(e)
  <2>1. UNCHANGED vars /\ UNCHANGED sessionVars /\ online' = online
    BY <1>3 DEF Receive, ReceiveDispatch, ReceiveRevocation, PopAny, Take, ConsumerEnds, vars
  <2>2. DaemonInv'
    BY <1>3, ReceiveDispatchKeeps, ReceiveRevocationKeeps, PopKeeps DEF Receive
  <2>3. QED
    BY <1>s, <2>1, <2>2, PumpKept, SessionUnchanged DEF EInv, sessionVars
<1>4. ASSUME NEW ok \in BOOLEAN, Finish(e, ok) PROVE EInv'
  <2>1. (Next \/ UNCHANGED vars) /\ online' = online
    BY <1>4, FinishIsPump
  <2>2. /\ hand' = [hand EXCEPT ![e] = None]
        /\ UNCHANGED <<running, sessionVars, wire, queue, marks, exited, ended, refused>>
    BY <1>4 DEF Finish
  <2>3. IInv' /\ sent \subseteq sent'
    BY <1>s, <2>1, PumpKept
  <2>4. DaemonInv'
    BY <1>s, <1>w, <2>2, <2>3, HandEmptied
  <2>5. QED
    BY <1>s, <2>1, <2>2, <2>3, <2>4, SessionUnchanged DEF EInv, sessionVars
<1>5. QED
  BY <1>1, <1>2, <1>3, <1>4 DEF DaemonStep

LEMMA LossKeeps ==
  ASSUME EInv, NEW e \in Endpoints, Break(e) \/ DaemonDies(e) \/ Abort(e)
  PROVE  EInv'
<1>s. SessionInv /\ DaemonInv /\ IInv
  BY DEF EInv
<1>1. /\ Fault
      /\ UNCHANGED <<registryVars, online, account, pollVars, notices, sidecarVars, sent,
                     notified, dead, overlapped, upgrades, current, open, closing, ended, refused>>
  BY DEF Break, DaemonDies, Abort, sessionVars
<1>2. IInv'
  <2>1. online' \in SUBSET Endpoints /\ faults' \in 0..MaxFaults
    BY <1>s, <1>1, FaultCounted DEF IInv, TypeOK
  <2>2. QED
    BY <1>s, <1>1, <2>1, OnlineIsApart
<1>3. link' \in [Endpoints -> Nat]
  BY <1>s DEF Break, DaemonDies, Abort, Leave, sessionVars, SessionInv, SessionTypeOK
<1>4. SessionInv'
  BY <1>s, <1>1, <1>3, SessionUnchanged
<1>5. WireWasSent' /\ sent \subseteq sent'
  BY <1>s, <1>1, WireUnchanged, WireCleared DEF Break, DaemonDies, Abort, DaemonInv
<1>6. CASE Break(e)
  <2>1. UNCHANGED <<queue, hand, marks, exited, refused>>
        /\ running' \in SUBSET Endpoints /\ ended' \in SUBSET Workflows
    BY <1>6, <1>s DEF Break, daemonVars, DaemonInv, DaemonTypeOK
  <2>2. QED
    BY <1>s, <1>2, <1>4, <1>5, <2>1, DaemonUnchanged DEF EInv
<1>7. CASE Abort(e)
  <2>1. hand' = [hand EXCEPT ![e] = None]
        /\ UNCHANGED <<queue, marks, exited, running, ended, refused>>
    BY <1>7 DEF Abort
  <2>2. QED
    BY <1>s, <1>2, <1>4, <1>5, <2>1, HandEmptied DEF EInv
<1>8. CASE DaemonDies(e)
  <2>1. /\ hand' = [hand EXCEPT ![e] = None] /\ queue' = [queue EXCEPT ![e] = {}]
        /\ marks' = [marks EXCEPT ![e] = {}] /\ UNCHANGED <<ended, refused>>
        /\ exited' \in SUBSET Endpoints /\ running' \in SUBSET Endpoints
    BY <1>8, <1>s DEF DaemonDies, DaemonInv, DaemonTypeOK
  <2>2. {} \in SUBSET queue[e] /\ {} \in SUBSET Tasks /\ None \in queue[e] \cup {None}
    OBVIOUS
  <2>3. DaemonInv'
    BY <1>s, <1>5, <2>1, <2>2, QueueShrinks
  <2>4. QED
    BY <1>2, <1>4, <2>3 DEF EInv
<1>9. QED
  BY <1>6, <1>7, <1>8

LEMMA StepEInv == EInv /\ [ExecutionNext]_allVars => EInv'
<1> SUFFICES ASSUME EInv, [ExecutionNext]_allVars PROVE EInv'
  OBVIOUS
<1>s. SessionInv /\ DaemonInv /\ IInv /\ link \in [Endpoints -> Nat]
      /\ running \in SUBSET Endpoints /\ ended \in SUBSET Workflows
  BY DEF EInv, SessionInv, SessionTypeOK, DaemonInv, DaemonTypeOK
<1>w. wire' = wire /\ sent \subseteq sent' => WireWasSent'
  BY <1>s, WireUnchanged DEF DaemonInv
<1>1. CASE UNCHANGED allVars
  BY <1>s, <1>w, <1>1, PumpKept, SessionUnchanged, DaemonUnchanged
     DEF EInv, allVars, vars, executionVars, sessionVars, daemonVars
<1>2. ASSUME NEW p \in Polls, Poll(p) PROVE EInv'
  <2>1. Next /\ online' = online /\ UNCHANGED sessionVars
    BY <1>2, PollIsPump DEF Poll
  <2>2. QED
    BY <1>s, <1>2, <2>1, PumpKept, SessionUnchanged, PollKeeps DEF EInv, sessionVars
<1>3. ASSUME NEW w \in Workflows, EndSeen(w) PROVE EInv'
  <2>1. UNCHANGED vars /\ UNCHANGED sessionVars /\ online' = online
    BY <1>3 DEF EndSeen, vars
  <2>2. QED
    BY <1>s, <1>3, <2>1, PumpKept, SessionUnchanged, EndSeenKeeps DEF EInv, sessionVars
<1>4. ASSUME Unseen PROVE EInv'
  <2>1. Next /\ online' = online /\ UNCHANGED executionVars
    BY <1>4, UnseenIsPump
  <2>2. QED
    BY <1>s, <1>w, <2>1, PumpKept, SessionUnchanged, DaemonUnchanged
       DEF EInv, executionVars, sessionVars, daemonVars
<1>5. QED
  BY <1>1, <1>2, <1>3, <1>4, SessionStepKeeps, DaemonStepKeeps, LossKeeps DEF ExecutionNext, Loss

LEMMA SpecEInv == ExecutionSpec => []EInv
BY InitEInv, StepEInv, PTL DEF ExecutionSpec

-----------------------------------------------------------------------------
(* The results *)

\* With daemons, sockets and losses in the place of the environment, every variable
\* keeps its type, and no lane of a daemon is filled over its limit.
THEOREM ExecutionTypes == ExecutionSpec => []ExecutionTypeOK
<1>1. EInv => ExecutionTypeOK
  BY DEF EInv, IInv, SessionInv, SessionTypeOK, DaemonInv, DaemonTypeOK, WireWasSent, Lanes,
         ExecutionTypeOK
<1>2. QED
  BY SpecEInv, <1>1, PTL

\* In whatever order an endpoint dials again and the gateway handles the closing of the
\* sockets it left, the gateway pushes to the socket the endpoint receives on.
THEOREM ExecutionSocket == ExecutionSpec => []LiveSocketIsCurrent
<1>1. EInv => LiveSocketIsCurrent
  <2> SUFFICES ASSUME EInv, NEW e \in Endpoints, <<e, link[e]>> \in open
               PROVE  current[e] = link[e]
    BY DEF LiveSocketIsCurrent
  <2>1. link[e] \in Nat \ {0}
    BY DEF EInv, SessionInv, SessionTypeOK, Socket
  <2>2. QED
    BY <2>1 DEF EInv, SessionInv, OpenIsEntry
<1>2. QED
  BY SpecEInv, <1>1, PTL

\* The guarantees of the pump do not rest on how its environment was modelled: they hold
\* with the daemons and the sockets, however often an endpoint loses its connection.
THEOREM ExecutionKeepsPump ==
  ExecutionSpec => [](/\ NotifiedAtMostOnce /\ SecondExecutorOnlyAfterDeath
                      /\ RequestIdNamesEndpoint /\ PushedMeansSentWithoutOverlap)
<1>1. EInv => /\ NotifiedAtMostOnce /\ SecondExecutorOnlyAfterDeath
              /\ RequestIdNamesEndpoint /\ PushedMeansSentWithoutOverlap
  BY DEF EInv, IInv, OneNotice, SentSound, Sound, BoundOrDead, EntryIds, Serial,
         NotifiedAtMostOnce, SecondExecutorOnlyAfterDeath, RequestIdNamesEndpoint,
         PushedMeansSentWithoutOverlap
<1>2. QED
  BY SpecEInv, <1>1, PTL

\* Two daemons execute the same task at once only if a sweep has declared one of them
\* dead: no reordering of pushes, reconnections and reports duplicates an execution.
THEOREM ExecutionTwiceOnlyAfterDeath ==
  ExecutionSpec =>
    [](\A e, f \in Endpoints :
         /\ hand[e] # None /\ hand[f] # None /\ e # f
         /\ hand[e].taskId = hand[f].taskId
         => e \in dead \/ f \in dead)
<1>1. ASSUME EInv, NEW e \in Endpoints, NEW f \in Endpoints,
             hand[e] # None, hand[f] # None, e # f, hand[e].taskId = hand[f].taskId
      PROVE  e \in dead \/ f \in dead
  <2>1. /\ hand[e] \in sent /\ hand[e].endpointId = e
        /\ hand[f] \in sent /\ hand[f].endpointId = f
    BY <1>1 DEF EInv, DaemonInv, CopiesWereSent
  <2>2. BoundOrDead(hand[e]) /\ BoundOrDead(hand[f])
    BY <1>1, <2>1 DEF EInv, IInv, SentSound, Sound
  <2>3. QED
    BY <1>1, <2>1, <2>2 DEF BoundOrDead
<1>2. EInv => \A e, f \in Endpoints :
                /\ hand[e] # None /\ hand[f] # None /\ e # f
                /\ hand[e].taskId = hand[f].taskId
                => e \in dead \/ f \in dead
  BY <1>1
<1>3. QED
  BY SpecEInv, <1>2, PTL

=============================================================================
