---------------------------- MODULE DispatchPump ----------------------------
(***************************************************************************)
(* The dispatch side of the control plane: the pump that polls the sidecar *)
(* for tasks (server/lib/dispatch-pump.ts, driven by the 2 s timer of      *)
(* server/instrumentation.ts), the task account it keeps, the endpoint     *)
(* registry with its TTL sweep (endpoint-registry.ts), the WebSocket       *)
(* gateway it pushes through (ws-gateway.ts) and the completion route.     *)
(*                                                                         *)
(* All of it runs on one JavaScript thread: code between two `await`s is   *)
(* one atomic step, and anything may run at an `await`.  The timer has no  *)
(* re-entrancy guard, so several polls can be under way: Polls names them. *)
(* A poll with pc = "loop" is inside a synchronous stretch; until it       *)
(* awaits again no other JavaScript runs (JsFree).                         *)
(*                                                                         *)
(* The sidecar, the endpoints and the network are the environment.         *)
(***************************************************************************)
EXTENDS Naturals, FiniteSets, FiniteSetsExt

CONSTANTS
  Endpoints,     \* endpoint ids
  Models,        \* model keys an endpoint may serve
  Tasks,         \* task ids (one per remote graph node)
  Workflows,     \* workflow ids
  Polls,         \* poll invocations that may be under way at once
  None,          \* "no entry", "no dispatch", "no alternative"
  ModelOf,       \* the model a task needs
  WorkflowOf,    \* the workflow a task belongs to
  Binding,       \* resolveEndpoint: the endpoint the binding account names
  MaxRemaining,  \* bound on a reported queueRemaining
  MaxFaults      \* bound on failures of the environment in one behaviour

Priority  == {"normal", "compensation"}
RequestId == Endpoints \X Tasks
Entry     == [endpointId : Endpoints, requestId : RequestId, priority : Priority,
              pushed : BOOLEAN, reported : BOOLEAN]
Message   == [endpointId : Endpoints, taskId : Tasks, requestId : RequestId,
              priority : Priority]
Notice    == [taskId : Tasks, ok : BOOLEAN]
Capability == [Models -> 0..MaxRemaining]
PollState == {"idle", "ping", "status", "loop", "signing", "pushed", "deferred"}

ASSUME ConstantsAssumption ==
  /\ ModelOf \in [Tasks -> Models]
  /\ WorkflowOf \in [Tasks -> Workflows]
  /\ Binding \in [Tasks -> Endpoints]
  /\ MaxRemaining \in Nat /\ MaxFaults \in Nat
  /\ None \notin Entry /\ None \notin Message /\ None \notin Endpoints
  /\ IsFiniteSet(Endpoints) /\ IsFiniteSet(Polls)

VARIABLES
  registered,  \* EndpointRegistry.entries: the endpoints with an entry
  stale,       \* those of them whose lastSeenMs is more than ttlMs ago
  remaining,   \* the queueRemaining of each model in the last heartbeat
  online,      \* endpoints with an OPEN WebSocket in WsGateway.connections
  account,     \* TaskAccount.entries
  pc,          \* where each poll is suspended
  workflows,   \* the workflows of the ping answer a poll still has to ask about
  pending,     \* the pendingDispatches of the snapshot it is looping over
  signed,      \* the dispatch it holds across the signer's and transport's awaits
  notices,     \* completion handlers past markReported, before the sidecar answers
  emitted,     \* sidecar: tasks in pending_ (never erased there)
  active,      \* sidecar: workflows not completed or failed
  sent,        \* history: every message handed to ws.send
  notified,    \* history: how often the sidecar was told a task is complete
  dead,        \* history: endpoints a sweep has expired
  overlapped,  \* history: a tick started while another poll was under way
  faults       \* history: environment failures so far

registryVars == <<registered, stale, remaining>>
pollVars     == <<pc, workflows, pending, signed>>
sidecarVars  == <<emitted, active>>
vars == <<registered, stale, remaining, online, account, pc, workflows, pending,
          signed, notices, emitted, active, sent, notified, dead, overlapped, faults>>

-----------------------------------------------------------------------------
(* Task account *)

RequestIdFor(e, t) == <<e, t>>

\* TaskAccount.record: a fresh entry, neither pushed nor reported (the variant
\* stores the argument as it is, without the two flags).
NewEntryWithoutFlags(e, t) ==
  [endpointId |-> e, requestId |-> RequestIdFor(e, t), priority |-> "normal"]
NewEntry(e, t) ==
  [endpointId |-> e, requestId |-> RequestIdFor(e, t), priority |-> "normal",
   pushed |-> FALSE, reported |-> FALSE]

Recorded(t) == account[t] # None
Pushed(t)   == Recorded(t) /\ account[t].pushed
Reported(t) == Recorded(t) /\ account[t].reported

\* listInFlight's filter: pushed and not reported.
InFlight(t) == Pushed(t) /\ ~account[t].reported

\* What markReported answers: TRUE for the first report of a known task.
KnownTask(t) == Recorded(t)
FirstReport(t) == Recorded(t) /\ ~account[t].reported

\* TaskAccount.reassign (the variant keeps the push of the old endpoint).
RebindKeepingPushed(t, e) ==
  [account[t] EXCEPT !.endpointId = e, !.priority = "compensation",
                     !.requestId = RequestIdFor(e, t)]
Rebind(t, e) ==
  [account[t] EXCEPT !.endpointId = e, !.priority = "compensation", !.pushed = FALSE,
                     !.requestId = RequestIdFor(e, t)]

-----------------------------------------------------------------------------
(* Endpoint registry: the sweep and the reassignment it triggers *)

Alive == registered \ stale

TotalRemaining(e) == MapThenSumSet(LAMBDA m : remaining[e][m], Models)

\* The endpoints reassignInFlightTasks may choose for a model: alive, with room
\* for the model, and of those the ones sorted first (ties: registration order).
Alternatives(m) ==
  LET withRoom == {e \in Alive : remaining[e][m] >= 1}
  IN  {e \in withRoom : \A f \in withRoom : TotalRemaining(f) <= TotalRemaining(e)}

AlternativeChoices ==
  {alt \in [Models -> Endpoints \cup {None}] :
     \A m \in Models : IF Alternatives(m) = {} THEN alt[m] = None
                                               ELSE alt[m] \in Alternatives(m)}

\* onExpired as it would be if a closed WebSocket counted as a death.
AccountsRebindingOffline ==
  {[t \in Tasks |->
      IF InFlight(t) /\ account[t].endpointId \notin online \ stale /\ alt[ModelOf[t]] # None
        THEN Rebind(t, alt[ModelOf[t]]) ELSE account[t]] : alt \in AlternativeChoices}

\* The accounts onExpired can leave: the in-flight tasks of expired endpoints
\* move to the alternative for their model, and stay as they are without one.
\* Candidates are not debited, so all tasks of a model go to the same endpoint.
AccountsAfterSweep ==
  {[t \in Tasks |->
      IF InFlight(t) /\ account[t].endpointId \in stale /\ alt[ModelOf[t]] # None
        THEN Rebind(t, alt[ModelOf[t]]) ELSE account[t]] : alt \in AlternativeChoices}

\* sweep(): the expired entries are deleted, then onExpired runs (its effect on
\* the account is a member of AccountsAfterSweep, which every caller applies).
SweepEntries ==
  /\ registered' = Alive
  /\ stale' = {}
  /\ remaining' = [e \in Endpoints |-> IF e \in stale THEN [m \in Models |-> 0]
                                                      ELSE remaining[e]]
  /\ dead' = dead \cup stale

-----------------------------------------------------------------------------
(* The JavaScript thread *)

JsFree == \A p \in Polls : pc[p] # "loop"

Fault == faults < MaxFaults /\ faults' = faults + 1

\* A poll that throws: the rejection is logged, nothing of the poll is kept.
Abandon(p) ==
  /\ pc' = [pc EXCEPT ![p] = "idle"]
  /\ workflows' = [workflows EXCEPT ![p] = {}]
  /\ pending' = [pending EXCEPT ![p] = {}]
  /\ signed' = [signed EXCEPT ![p] = None]

\* Where a poll goes with `rest` left of its snapshot and `wfs` of its workflows.
After(rest, wfs) == IF rest # {} THEN "loop" ELSE IF wfs # {} THEN "status" ELSE "idle"

-----------------------------------------------------------------------------
(* pollSidecarDispatches *)

\* setInterval(tick): starts a poll, whatever the earlier ones are doing.
Tick(p) ==
  /\ JsFree
  /\ pc[p] = "idle"
  /\ pc' = [pc EXCEPT ![p] = "ping"]
  /\ overlapped' = (overlapped \/ \E q \in Polls : pc[q] # "idle")
  /\ UNCHANGED <<registryVars, online, account, workflows, pending, signed, notices,
                 sidecarVars, sent, notified, dead, faults>>

\* The liveness answer lists the workflows; finished ones are skipped.
Ping(p) ==
  /\ JsFree
  /\ pc[p] = "ping"
  /\ workflows' = [workflows EXCEPT ![p] = active]
  /\ pc' = [pc EXCEPT ![p] = After({}, active)]
  /\ UNCHANGED <<registryVars, online, account, pending, signed, notices, sidecarVars,
                 sent, notified, dead, overlapped, faults>>

\* A snapshot arrives and the loop over its pendingDispatches begins.
Status(p, w) ==
  LET tasks == {t \in emitted : WorkflowOf[t] = w}
      rest  == workflows[p] \ {w}
  IN  /\ JsFree
      /\ pc[p] = "status" /\ w \in workflows[p]
      /\ workflows' = [workflows EXCEPT ![p] = rest]
      /\ pending' = [pending EXCEPT ![p] = tasks]
      /\ pc' = [pc EXCEPT ![p] = After(tasks, rest)]
      /\ UNCHANGED <<registryVars, online, account, signed, notices, sidecarVars, sent,
                     notified, dead, overlapped, faults>>

\* A known task keeps its endpoint; a new one takes the binding account's.
TargetOf(t) == IF Recorded(t) THEN account[t].endpointId ELSE Binding[t]

Skip(p, t) ==
  /\ pending' = [pending EXCEPT ![p] = @ \ {t}]
  /\ pc' = [pc EXCEPT ![p] = After(pending[p] \ {t}, workflows[p])]
  /\ UNCHANGED <<workflows, signed>>

\* A task that is already pushed is left to the completion report or the sweep
\* (KnownAlready, a variant, also leaves one that is recorded but was never pushed).
KnownAlready(t) == Recorded(t)
PushedAlready(t) == Pushed(t)

SkipPushed(p, t) ==
  /\ pc[p] = "loop" /\ t \in pending[p]
  /\ PushedAlready(t)
  /\ Skip(p, t)
  /\ UNCHANGED <<registryVars, online, account, notices, sidecarVars, sent, notified,
                 dead, overlapped, faults>>

\* canDispatch, first conjunct: no WebSocket, no dispatch (and no sweep).
SkipOffline(p, t) ==
  /\ pc[p] = "loop" /\ t \in pending[p]
  /\ ~PushedAlready(t)
  /\ TargetOf(t) \notin online
  /\ Skip(p, t)
  /\ UNCHANGED <<registryVars, online, account, notices, sidecarVars, sent, notified,
                 dead, overlapped, faults>>

\* canDispatch after listAlive has swept: not registered, or no room for the model.
SkipNoRoom(p, t) ==
  LET e == TargetOf(t)
  IN  /\ pc[p] = "loop" /\ t \in pending[p]
      /\ ~PushedAlready(t)
      /\ e \in online
      /\ e \notin Alive \/ remaining[e][ModelOf[t]] = 0
      /\ SweepEntries
      /\ account' \in AccountsAfterSweep
      /\ Skip(p, t)
      /\ UNCHANGED <<online, notices, sidecarVars, sent, notified, overlapped, faults>>

\* canDispatch holds: the task is recorded if new, and the poll suspends in the
\* signer with the endpoint and the requestId it has just read.  The message is
\* the sidecar's pending record, whose priority is always "normal".
Admit(p, t) ==
  LET e == TargetOf(t)
  IN  /\ pc[p] = "loop" /\ t \in pending[p]
      /\ ~PushedAlready(t)
      /\ e \in online
      /\ e \in Alive /\ remaining[e][ModelOf[t]] >= 1
      /\ SweepEntries
      /\ \E swept \in AccountsAfterSweep :
           account' = [swept EXCEPT ![t] = IF @ = None THEN NewEntry(e, t) ELSE @]
      /\ signed' = [signed EXCEPT ![p] = [endpointId |-> e, taskId |-> t,
                      requestId |-> RequestIdFor(e, t), priority |-> "normal"]]
      /\ pending' = [pending EXCEPT ![p] = @ \ {t}]
      /\ pc' = [pc EXCEPT ![p] = "signing"]
      /\ UNCHANGED <<workflows, online, notices, sidecarVars, sent, notified,
                     overlapped, faults>>

\* Both URLs are signed; gateway.pushToEndpoint runs and its answer is awaited.
Push(p) ==
  LET m == signed[p]
  IN  /\ JsFree
      /\ pc[p] = "signing"
      /\ IF m.endpointId \in online
           THEN sent' = sent \cup {m} /\ pc' = [pc EXCEPT ![p] = "pushed"]
           ELSE sent' = sent /\ pc' = [pc EXCEPT ![p] = "deferred"]
      /\ UNCHANGED <<registryVars, online, account, workflows, pending, signed, notices,
                     sidecarVars, notified, dead, overlapped, faults>>

\* The transport's answer: markPushed, or leave the entry for the next poll.
Resume(p) ==
  LET t == signed[p].taskId
  IN  /\ JsFree
      /\ pc[p] \in {"pushed", "deferred"}
      /\ account' = IF pc[p] = "pushed" THEN [account EXCEPT ![t].pushed = TRUE]
                                        ELSE account
      /\ signed' = [signed EXCEPT ![p] = None]
      /\ pc' = [pc EXCEPT ![p] = After(pending[p], workflows[p])]
      /\ UNCHANGED <<registryVars, online, workflows, pending, notices, sidecarVars, sent,
                     notified, dead, overlapped, faults>>

\* ping answers null, status throws, or the signer throws.
PollFails(p) ==
  /\ JsFree
  /\ pc[p] \in {"ping", "status", "signing"}
  /\ Fault
  /\ Abandon(p)
  /\ UNCHANGED <<registryVars, online, account, notices, sidecarVars, sent, notified,
                 dead, overlapped>>

-----------------------------------------------------------------------------
(* The completion route *)

\* A report for a task some message to the reporting endpoint carried.  The route
\* compares neither the endpoint nor the requestId with the account.  A report
\* markReported refuses is answered `duplicate` and changes nothing.
Report(m, ok) ==
  LET t == m.taskId
  IN  /\ JsFree
      /\ m \in sent
      /\ FirstReport(t)
      /\ account' = [account EXCEPT ![t].reported = TRUE]
      /\ notices' = notices \cup {[taskId |-> t, ok |-> ok]}
      /\ UNCHANGED <<registryVars, online, pollVars, sidecarVars, sent, notified, dead,
                     overlapped, faults>>

\* notifyNodeCompletion reaches the sidecar; a failure notice fails the workflow.
Notify(n) ==
  /\ n \in notices
  /\ notices' = notices \ {n}
  /\ notified' = [notified EXCEPT ![n.taskId] = @ + 1]
  /\ active' = IF n.ok THEN active ELSE active \ {WorkflowOf[n.taskId]}
  /\ UNCHANGED <<registryVars, online, account, pollVars, emitted, sent, dead,
                 overlapped, faults>>

\* No sidecar client, the signer throws, or the call fails: 502, nothing undone.
NotifyFails(n) ==
  /\ n \in notices
  /\ Fault
  /\ notices' = notices \ {n}
  /\ UNCHANGED <<registryVars, online, account, pollVars, sidecarVars, sent, notified,
                 dead, overlapped>>

-----------------------------------------------------------------------------
(* Endpoints: register and heartbeat routes, WebSocket, clock *)

Register(e, cap) ==
  /\ JsFree
  /\ e \notin registered
  /\ registered' = registered \cup {e}
  /\ remaining' = [remaining EXCEPT ![e] = cap]
  /\ UNCHANGED <<stale, online, account, pollVars, notices, sidecarVars, sent, notified,
                 dead, overlapped, faults>>

\* An entry past its TTL that no sweep has seen yet is revived.
Heartbeat(e, cap) ==
  /\ JsFree
  /\ e \in registered
  /\ stale' = stale \ {e}
  /\ remaining' = [remaining EXCEPT ![e] = cap]
  /\ UNCHANGED <<registered, online, account, pollVars, notices, sidecarVars, sent,
                 notified, dead, overlapped, faults>>

TtlElapses(e) ==
  /\ e \in registered \ stale
  /\ Fault
  /\ stale' = stale \cup {e}
  /\ UNCHANGED <<registered, remaining, online, account, pollVars, notices, sidecarVars,
                 sent, notified, dead, overlapped>>

\* getStatus (ops report) and listAlive (submit route) sweep too.
StatusSweep ==
  /\ JsFree
  /\ SweepEntries
  /\ account' \in AccountsAfterSweep
  /\ UNCHANGED <<online, pollVars, notices, sidecarVars, sent, notified, overlapped,
                 faults>>

Connect(e) ==
  /\ JsFree
  /\ e \notin online
  /\ online' = online \cup {e}
  /\ UNCHANGED <<registryVars, account, pollVars, notices, sidecarVars, sent, notified,
                 dead, overlapped, faults>>

Disconnect(e) ==
  /\ JsFree
  /\ e \in online
  /\ Fault
  /\ online' = online \ {e}
  /\ UNCHANGED <<registryVars, account, pollVars, notices, sidecarVars, sent, notified,
                 dead, overlapped>>

-----------------------------------------------------------------------------
(* The sidecar *)

\* onRemoteWaiting: a graph node waits for a remote result (its thread may get to
\* run only after another node has failed the workflow).
Emit(t) ==
  /\ t \notin emitted
  /\ emitted' = emitted \cup {t}
  /\ UNCHANGED <<registryVars, online, account, pollVars, notices, active, sent,
                 notified, dead, overlapped, faults>>

\* The graph completes or fails.
RunEnds(w) ==
  /\ w \in active
  /\ active' = active \ {w}
  /\ UNCHANGED <<registryVars, online, account, pollVars, notices, emitted, sent,
                 notified, dead, overlapped, faults>>

-----------------------------------------------------------------------------
Init ==
  /\ registered = {} /\ stale = {} /\ online = {}
  /\ remaining = [e \in Endpoints |-> [m \in Models |-> 0]]
  /\ account = [t \in Tasks |-> None]
  /\ pc = [p \in Polls |-> "idle"]
  /\ workflows = [p \in Polls |-> {}]
  /\ pending = [p \in Polls |-> {}]
  /\ signed = [p \in Polls |-> None]
  /\ notices = {} /\ emitted = {} /\ active = Workflows
  /\ sent = {} /\ notified = [t \in Tasks |-> 0]
  /\ dead = {} /\ overlapped = FALSE /\ faults = 0

PollStep(p) ==
  \/ Ping(p)
  \/ \E w \in Workflows : Status(p, w)
  \/ \E t \in Tasks : SkipPushed(p, t)
  \/ \E t \in Tasks : SkipOffline(p, t)
  \/ \E t \in Tasks : SkipNoRoom(p, t)
  \/ \E t \in Tasks : Admit(p, t)
  \/ Push(p)
  \/ Resume(p)

EndpointStep(e) ==
  \/ \E cap \in Capability : Register(e, cap)
  \/ \E cap \in Capability : Heartbeat(e, cap)
  \/ TtlElapses(e)
  \/ Connect(e)
  \/ Disconnect(e)

Next ==
  \/ \E p \in Polls : Tick(p)
  \/ \E p \in Polls : PollStep(p)
  \/ \E p \in Polls : PollFails(p)
  \/ \E m \in sent, ok \in BOOLEAN : Report(m, ok)
  \/ \E n \in notices : Notify(n)
  \/ \E n \in notices : NotifyFails(n)
  \/ \E e \in Endpoints : EndpointStep(e)
  \/ StatusSweep
  \/ \E t \in Tasks : Emit(t)
  \/ \E w \in Workflows : RunEnds(w)

Spec == Init /\ [][Next]_vars

\* The timer keeps firing and started polls go on: the event loop runs every
\* ready continuation.  Nothing is assumed of endpoints, reports or the sidecar.
Fairness == \A p \in Polls : WF_vars(Tick(p)) /\ WF_vars(PollStep(p))

FairSpec == Spec /\ Fairness

-----------------------------------------------------------------------------
(* Properties *)

\* Every variable keeps its type (the account's entries, the poll states).
TypeOK ==
  /\ registered \in SUBSET Endpoints /\ stale \in SUBSET registered
  /\ remaining \in [Endpoints -> Capability]
  /\ online \in SUBSET Endpoints
  /\ account \in [Tasks -> Entry \cup {None}]
  /\ pc \in [Polls -> PollState]
  /\ workflows \in [Polls -> SUBSET Workflows]
  /\ pending \in [Polls -> SUBSET Tasks]
  /\ signed \in [Polls -> Message \cup {None}]
  /\ notices \in SUBSET Notice
  /\ emitted \in SUBSET Tasks /\ active \in SUBSET Workflows
  /\ sent \in SUBSET Message
  /\ notified \in [Tasks -> Nat]
  /\ dead \in SUBSET Endpoints
  /\ overlapped \in BOOLEAN /\ faults \in 0..MaxFaults

\* First come, first served: however many endpoints executed a task and however
\* often they report it, the sidecar hears of it at most once.  A second notice
\* would set the promise of the waiting graph node twice.
NotifiedAtMostOnce == \A t \in Tasks : notified[t] <= 1

\* A second execution is only ever started because the first executor was
\* declared dead: of the endpoints a task was sent to, at most one has never
\* been expired by a sweep (the one it is bound to now).
SecondExecutorOnlyAfterDeath ==
  \A m \in sent : m.endpointId = account[m.taskId].endpointId \/ m.endpointId \in dead

\* The requestId of a message and of an account entry is the one of the endpoint
\* it names, across reassignments and across the awaits of a poll.
RequestIdNamesEndpoint ==
  /\ \A m \in sent : m.requestId = RequestIdFor(m.endpointId, m.taskId)
  /\ \A t \in Tasks : Recorded(t) =>
       account[t].requestId = RequestIdFor(account[t].endpointId, t)

\* `pushed` means the push to the entry's endpoint succeeded (the field's comment).
PushedMeansSent ==
  \A t \in Tasks : Pushed(t) =>
    \E m \in sent : m.taskId = t /\ m.endpointId = account[t].endpointId

\* ... which the code guarantees as long as no tick starts before the previous
\* poll has returned.
PushedMeansSentWithoutOverlap == ~overlapped => PushedMeansSent

\* A task changes endpoint only while in flight on an endpoint that the same step
\* removes from the registry, and only to a registered endpoint with room.
RebindOnlyOnExpiry ==
  [][\A t \in Tasks :
       Recorded(t) /\ account'[t] # None /\ account'[t].endpointId # account[t].endpointId =>
         /\ InFlight(t) /\ ~account'[t].pushed
         /\ account[t].endpointId \in registered \ registered'
         /\ account'[t].endpointId \in registered'
         /\ remaining'[account'[t].endpointId][ModelOf[t]] >= 1]_vars

\* A deferred task is retried: one that is waiting in a running workflow and whose
\* endpoint stays connected, alive and with room does not stay unpushed forever.
Dispatchable(t) ==
  LET e == TargetOf(t)
  IN  /\ t \in emitted /\ WorkflowOf[t] \in active
      /\ e \in online /\ e \in Alive /\ remaining[e][ModelOf[t]] >= 1
DeferredIsRetried == \A t \in Tasks : []<>(~Dispatchable(t) \/ Pushed(t))

\* The control plane implements ResultDelivery: recording opens a task, the first
\* report settles it, and one notice per settled task is delivered or lost.
Phase(t) == IF ~Recorded(t) THEN "unknown"
            ELSE IF account[t].reported THEN "settled" ELSE "open"
Delivery == INSTANCE ResultDelivery WITH
              phase     <- [t \in Tasks |-> Phase(t)],
              inTransit <- {n.taskId : n \in notices},
              delivered <- notified
DeliverySpec == Delivery!Spec


=============================================================================
