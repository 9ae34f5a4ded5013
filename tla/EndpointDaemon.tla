--------------------------- MODULE EndpointDaemon ---------------------------
(***************************************************************************)
(* The client daemon of one endpoint (client/daemon/src): the task queue   *)
(* with a lane per model (task_queue.cpp) and the threads around it        *)
(* (daemon.cpp): the WebSocket thread that enqueues dispatches and marks   *)
(* revocations, the consumer that executes and reports, the heartbeat      *)
(* thread that reports the room of each lane, the main thread that stops.  *)
(*                                                                         *)
(* Every queue operation holds the queue's mutex.  popAny is the one that  *)
(* loops: it waits for a task, then skips revoked ones; the consumer is at *)
(* "scan" while it holds the mutex, and no other operation runs.           *)
(*                                                                         *)
(* The server is the environment: it sends any dispatch and any revocation *)
(* at any time, the same task more than once too (it repeats a push after  *)
(* a restart, after overlapping polls, after moving a task back).          *)
(***************************************************************************)
EXTENDS Naturals, Sequences, SequencesExt, FiniteSets

CONSTANTS
  Models,     \* the configured model keys, one lane each
  Rank,       \* the lanes' order in the std::map
  Depth,      \* depthLimit of each lane
  Tasks,      \* task ids
  ModelOf,    \* the model of a task, perhaps one without a lane
  Revocable,  \* tasks whose workflow may end before they are executed
  None        \* no task in the consumer's hand

\* A queued copy of a task.  `doomed` is history: a revocation of the task was
\* handled while this copy was queued.
Copy    == [taskId : Tasks, doomed : BOOLEAN]
Outcome == {"none", "done", "failed"}
ConsumerState == {"pop", "scan", "download", "infer", "upload", "report", "exited"}

ASSUME ConstantsAssumption ==
  /\ Rank \in [Models -> Nat]
  /\ \A m, n \in Models : Rank[m] = Rank[n] => m = n
  /\ Depth \in [Models -> Nat]
  /\ DOMAIN ModelOf = Tasks
  /\ Revocable \in SUBSET Tasks
  /\ None \notin Copy

VARIABLES
  normal,        \* Lane.normal of each lane
  compensation,  \* Lane.compensation
  revoked,       \* Lane.revoked
  shuttingDown,  \* TaskQueue.shuttingDown_
  running,       \* Daemon.running_
  consumer,      \* where the consumer thread is
  current,       \* the copy it has popped
  outcome,       \* what its completion report will say
  allowance,     \* the room last reported for each lane, less the tasks it took since
  refused,       \* history: lanes that have refused a dispatch since that report
  duplicated     \* history: a task was enqueued while a copy of it was queued

queueVars    == <<normal, compensation, revoked, shuttingDown>>
consumerVars == <<consumer, current, outcome>>
heartbeatVars == <<allowance, refused>>
vars == <<normal, compensation, revoked, shuttingDown, running, consumer, current,
          outcome, allowance, refused, duplicated>>

-----------------------------------------------------------------------------
(* Task queue *)

MutexFree == consumer # "scan"

Queued(m) == Len(normal[m]) + Len(compensation[m])

\* queueRemaining, and a variant that forgets the compensation tier.
QueueRemainingNormal(m) == IF Depth[m] > Len(normal[m]) THEN Depth[m] - Len(normal[m]) ELSE 0
QueueRemaining(m) == IF Depth[m] > Queued(m) THEN Depth[m] - Queued(m) ELSE 0

HasRoomLoose(m) == Queued(m) <= Depth[m]
HasRoom(m) == Queued(m) < Depth[m]

Copies(m) == ToSet(normal[m]) \cup ToSet(compensation[m])

\* How a compensation dispatch joins its tier: at the back (the variant: in front).
JoinFront(queue, copy) == <<copy>> \o queue
Join(queue, copy) == Append(queue, copy)

\* The queues in the order popAny visits them: lanes in key order, in each lane
\* the compensation tier first.
Visited(m, normalTier, n, otherNormalTier) ==
  Rank[m] < Rank[n] \/ (m = n /\ ~normalTier /\ otherNormalTier)

Tier(m, normalTier) == IF normalTier THEN normal[m] ELSE compensation[m]

\* The non-empty queue that popAny takes from.
IsFront(m, normalTier) ==
  /\ Tier(m, normalTier) # <<>>
  /\ \A n \in Models, other \in BOOLEAN :
       Visited(n, other, m, normalTier) => Tier(n, other) = <<>>

PopFront(m, normalTier) ==
  IF normalTier
    THEN normal' = [normal EXCEPT ![m] = Tail(@)] /\ UNCHANGED compensation
    ELSE compensation' = [compensation EXCEPT ![m] = Tail(@)] /\ UNCHANGED normal

Empty == \A m \in Models : normal[m] = <<>> /\ compensation[m] = <<>>

-----------------------------------------------------------------------------
(* WebSocket thread *)

\* handleDispatchMessage: enqueued on its lane's tier ...
Accept(t, asCompensation) ==
  LET m == ModelOf[t]
      copy == [taskId |-> t, doomed |-> FALSE]
  IN  /\ MutexFree /\ running
      /\ m \in Models /\ HasRoom(m)
      /\ IF asCompensation
           THEN compensation' = [compensation EXCEPT ![m] = Join(@, copy)] /\ UNCHANGED normal
           ELSE normal' = [normal EXCEPT ![m] = Append(@, copy)] /\ UNCHANGED compensation
      /\ allowance' = [allowance EXCEPT ![m] = IF @ > 0 THEN @ - 1 ELSE 0]
      /\ duplicated' = (duplicated \/ \E c \in Copies(m) : c.taskId = t)
      /\ UNCHANGED <<revoked, shuttingDown, running, consumerVars, refused>>

\* ... or refused (no lane, lane full), logged and dropped.
Refuse(t) ==
  /\ MutexFree /\ running
  /\ ModelOf[t] \in Models => ~HasRoom(ModelOf[t])
  /\ refused' = refused \cup ({ModelOf[t]} \cap Models)
  /\ UNCHANGED <<queueVars, running, consumerVars, allowance, duplicated>>

\* handleRevokeMessage: the task is marked in every lane (the variant: in the last
\* lane only).
MarkedInLastLane(t) ==
  [m \in Models |-> IF \A n \in Models : Rank[n] <= Rank[m] THEN revoked[m] \cup {t}
                                                          ELSE revoked[m]]
Marked(t) == [m \in Models |-> revoked[m] \cup {t}]

Doom(queue, t) ==
  [i \in DOMAIN queue |-> IF queue[i].taskId = t THEN [queue[i] EXCEPT !.doomed = TRUE]
                                                 ELSE queue[i]]

Revoke(t) ==
  /\ MutexFree /\ running
  /\ revoked' = Marked(t)
  /\ normal' = [m \in Models |-> Doom(normal[m], t)]
  /\ compensation' = [m \in Models |-> Doom(compensation[m], t)]
  /\ UNCHANGED <<shuttingDown, running, consumerVars, heartbeatVars, duplicated>>

-----------------------------------------------------------------------------
(* Consumer thread *)

\* popAny's wait ends; a shutdown makes it return false and the loop break.
Wake ==
  /\ consumer = "pop"
  /\ shuttingDown \/ ~Empty
  /\ consumer' = IF shuttingDown THEN "exited" ELSE "scan"
  /\ UNCHANGED <<queueVars, running, current, outcome, heartbeatVars, duplicated>>

\* The front copy is marked: dropped, and the mark with it.
SkipRevoked(m, normalTier) ==
  LET t == Head(Tier(m, normalTier)).taskId
  IN  /\ consumer = "scan"
      /\ IsFront(m, normalTier)
      /\ t \in revoked[m]
      /\ PopFront(m, normalTier)
      /\ revoked' = [revoked EXCEPT ![m] = @ \ {t}]
      /\ UNCHANGED <<shuttingDown, running, consumerVars, heartbeatVars, duplicated>>

Take(m, normalTier) ==
  LET copy == Head(Tier(m, normalTier))
  IN  /\ consumer = "scan"
      /\ IsFront(m, normalTier)
      /\ copy.taskId \notin revoked[m]
      /\ PopFront(m, normalTier)
      /\ current' = copy
      /\ consumer' = "download"
      /\ UNCHANGED <<revoked, shuttingDown, running, outcome, heartbeatVars, duplicated>>

\* Every copy was revoked: popAny returns false, and the consumer's loop breaks.
NothingLeft ==
  /\ consumer = "scan"
  /\ Empty
  /\ consumer' = "exited"
  /\ UNCHANGED <<queueVars, running, current, outcome, heartbeatVars, duplicated>>

\* The loop's condition, tested after each task.
NextRound ==
  /\ consumer' = IF running THEN "pop" ELSE "exited"
  /\ current' = None
  /\ outcome' = "none"

\* The input cannot be fetched or is no scalar: no report.
Drop ==
  /\ consumer = "download"
  /\ NextRound
  /\ UNCHANGED <<queueVars, running, heartbeatVars, duplicated>>

Download ==
  /\ consumer = "download"
  /\ consumer' = "infer"
  /\ UNCHANGED <<queueVars, running, current, outcome, heartbeatVars, duplicated>>

Infer(ok) ==
  /\ consumer = "infer"
  /\ consumer' = IF ok THEN "upload" ELSE "report"
  /\ outcome' = IF ok THEN outcome ELSE "failed"
  /\ UNCHANGED <<queueVars, running, current, heartbeatVars, duplicated>>

Upload(ok) ==
  /\ consumer = "upload"
  /\ consumer' = "report"
  /\ outcome' = IF ok THEN "done" ELSE "failed"
  /\ UNCHANGED <<queueVars, running, current, heartbeatVars, duplicated>>

\* The completion report, received or not: it is sent once and never repeated.
Report ==
  /\ consumer = "report"
  /\ NextRound
  /\ UNCHANGED <<queueVars, running, heartbeatVars, duplicated>>

-----------------------------------------------------------------------------
(* Heartbeat and main threads *)

\* capabilityJson reads the lanes one at a time, the mutex free in between.
ReadRemaining(m) ==
  /\ MutexFree /\ running
  /\ allowance' = [allowance EXCEPT ![m] = QueueRemaining(m)]
  /\ refused' = refused \ {m}
  /\ UNCHANGED <<queueVars, running, consumerVars, duplicated>>

\* Daemon::shutdown, then run() stops the WebSocket thread and the queue.
Stop ==
  /\ running
  /\ running' = FALSE
  /\ UNCHANGED <<queueVars, consumerVars, heartbeatVars, duplicated>>

ShutDownQueue ==
  /\ MutexFree /\ ~running /\ ~shuttingDown
  /\ shuttingDown' = TRUE
  /\ UNCHANGED <<normal, compensation, revoked, running, consumerVars, heartbeatVars, duplicated>>

-----------------------------------------------------------------------------
Init ==
  /\ normal = [m \in Models |-> <<>>] /\ compensation = [m \in Models |-> <<>>]
  /\ revoked = [m \in Models |-> {}]
  /\ shuttingDown = FALSE /\ running = TRUE
  /\ consumer = "pop" /\ current = None /\ outcome = "none"
  /\ allowance = Depth
  /\ refused = {} /\ duplicated = FALSE

ConsumerStep ==
  \/ Wake
  \/ \E m \in Models, normalTier \in BOOLEAN : SkipRevoked(m, normalTier)
  \/ \E m \in Models, normalTier \in BOOLEAN : Take(m, normalTier)
  \/ NothingLeft
  \/ Drop
  \/ Download
  \/ \E ok \in BOOLEAN : Infer(ok)
  \/ \E ok \in BOOLEAN : Upload(ok)
  \/ Report

Next ==
  \/ \E t \in Tasks, asCompensation \in BOOLEAN : Accept(t, asCompensation)
  \/ \E t \in Tasks : Refuse(t)
  \/ \E t \in Revocable : Revoke(t)
  \/ ConsumerStep
  \/ \E m \in Models : ReadRemaining(m)
  \/ Stop
  \/ ShutDownQueue

Spec == Init /\ [][Next]_vars

\* The consumer's thread runs, its HTTP calls and the engine return.
FairSpec == Spec /\ WF_vars(ConsumerStep)

-----------------------------------------------------------------------------
(* Properties *)

\* Every variable keeps its type, and no lane holds more than its depth limit.
TypeOK ==
  /\ normal \in [Models -> Seq(Copy)] /\ compensation \in [Models -> Seq(Copy)]
  /\ \A m \in Models : Queued(m) <= Depth[m]
  /\ revoked \in [Models -> SUBSET Tasks]
  /\ shuttingDown \in BOOLEAN /\ running \in BOOLEAN
  /\ consumer \in ConsumerState /\ current \in Copy \cup {None}
  /\ outcome \in Outcome
  /\ allowance \in [Models -> Nat]
  /\ refused \in SUBSET Models /\ duplicated \in BOOLEAN

\* A copy that was queued when its revocation was handled is never executed (the
\* comment of popAny: revoked tasks are skipped).
RevokedCopyNotStarted == current # None => ~current.doomed

\* ... which the code guarantees as long as no task is queued twice.
RevokedCopyNotStartedIfUnique == ~duplicated => RevokedCopyNotStarted

\* The soft back-pressure contract: a server that, after a heartbeat, sends a lane
\* no more tasks than the room reported has none of them refused.
RefusedOnlyOnOvercommit == \A m \in refused : allowance[m] = 0

\* A compensation task of the first lane that nobody revokes is executed, however
\* many dispatches keep arriving, unless the consumer has exited.
FirstLaneServed ==
  \A t \in Tasks \ Revocable : \A m \in Models :
    (/\ \A n \in Models : Rank[m] <= Rank[n]
     /\ \E c \in ToSet(compensation[m]) : c.taskId = t) ~>
    (\/ current # None /\ current.taskId = t
     \/ consumer = "exited")

\* The consumer stops only when the daemon is being stopped (the comments of popAny
\* and of the loop's break).
ConsumerExitsOnlyOnShutdown == consumer = "exited" => ~running

=============================================================================
