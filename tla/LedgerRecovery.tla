--------------------------- MODULE LedgerRecovery ---------------------------
(***************************************************************************)
(* DispatchPump with the durable side of its task account: the table that  *)
(* ledger-store.ts writes every change of an entry to, and the crash and   *)
(* restart of the control plane (instrumentation.ts, ensureTaskAccount).   *)
(*                                                                         *)
(* persist starts a write and waits for nothing, and nothing orders the    *)
(* writes of a task: they reach the table in any order, or never.  Memory  *)
(* is what the pump works on; the table is read once, at the start.  What  *)
(* else the process holds (registry, sockets, polls, handlers) is gone     *)
(* with it, the workflow ledger included, whose records say which endpoint *)
(* a task is bound to.  The sidecar may outlive it, when port and token    *)
(* are fixed, or die, then or at any other time, and its runs with it.     *)
(***************************************************************************)
EXTENDS DispatchPump

CONSTANT MaxCrashes  \* bound on crashes of the control plane

ASSUME RecoveryAssumption == MaxCrashes \in Nat

VARIABLES
  kind,       \* the store: "pg" if DATABASE_URL is set, else "memory", lost in a crash
  up,         \* the process runs and `register` has finished
  table,      \* infer_task_account: the row of each task
  writes,     \* putTask calls under way
  ledger,     \* workflows whose record, endpoints included, WorkflowLedger has
  runsLost,   \* the sidecar's runs are gone
  crashes,    \* history: crashes of the control plane so far
  resent,     \* history: tasks pushed since the last restart
  durable,    \* history: tasks whose last write to land says `reported`
  answered,   \* history: tasks a crash found reported
  forgotten   \* history: those of them a restart found not durable

storeVars == <<table, writes, durable>>
recoveryVars == <<kind, up, table, writes, ledger, runsLost, crashes, resent, durable, answered,
                  forgotten>>

Write == [taskId : Tasks, entry : Entry]

-----------------------------------------------------------------------------
(* The store *)

\* createLedgerStore.  A map in memory is written within the call; as it dies with the
\* process, its table is never read and stays empty here.
Store == {"pg", "memory"}

\* putTask's statement: an insert, or an update of the columns an entry can
\* change (a variant leaves `reported` out of the update).
UpsertKeepingReported(row, entry) ==
  IF row = None THEN entry ELSE [entry EXCEPT !.reported = row.reported]
Upsert(row, entry) ==
  IF row = None THEN entry
  ELSE [row EXCEPT !.requestId = entry.requestId, !.endpointId = entry.endpointId,
                   !.priority = entry.priority, !.pushed = entry.pushed,
                   !.reported = entry.reported]

\* record, markReported, markPushed and reassign each persist the entry they leave.
Persisted ==
  {[taskId |-> t, entry |-> account'[t]] :
     t \in {u \in Tasks : kind = "pg" /\ account'[u] # account[u]}}

Lands(w) ==
  /\ w \in writes
  /\ table' = [table EXCEPT ![w.taskId] = Upsert(@, w.entry)]
  /\ writes' = writes \ {w}
  /\ durable' = IF w.entry.reported THEN durable \cup {w.taskId} ELSE durable \ {w.taskId}
  /\ UNCHANGED <<vars, kind, up, ledger, runsLost, crashes, resent, answered, forgotten>>

\* putTask rejects: a warning.
WriteFails(w) ==
  /\ w \in writes
  /\ Fault
  /\ writes' = writes \ {w}
  /\ UNCHANGED <<registryVars, online, account, pollVars, notices, sidecarVars, sent, notified,
                 dead, overlapped, kind, up, table, ledger, runsLost, crashes, resent, durable,
                 answered, forgotten>>

-----------------------------------------------------------------------------
(* Crash and restart *)

\* Of the notices on their way, some are already on the sidecar's socket.
Crash ==
  /\ up /\ crashes < MaxCrashes
  /\ up' = FALSE /\ crashes' = crashes + 1
  /\ answered' = answered \cup {t \in Tasks : Reported(t)}
  /\ registered' = {} /\ stale' = {} /\ online' = {}
  /\ remaining' = [e \in Endpoints |-> [m \in Models |-> 0]]
  /\ account' = [t \in Tasks |-> None]
  /\ pc' = [p \in Polls |-> "idle"]
  /\ workflows' = [p \in Polls |-> {}] /\ pending' = [p \in Polls |-> {}]
  /\ signed' = [p \in Polls |-> None]
  /\ ledger' = {}
  /\ notices' \in SUBSET notices
  /\ UNCHANGED <<sidecarVars, sent, notified, dead, overlapped, faults, kind, storeVars,
                 runsLost, resent, forgotten>>

\* resetInFlightForRecovery (the variant: hydrated entries stay as they were).
HydratedOnly(row) == row
Recovered(row) ==
  IF row # None /\ row.pushed /\ ~row.reported THEN [row EXCEPT !.pushed = FALSE] ELSE row

\* loadAll and hydrate: memory holds nothing yet, so that every row becomes an entry
\* (the variant: loadAll leaves a column out of the row it answers).
HydratedWithoutPriority(t) ==
  IF table[t] = None THEN None ELSE [f \in DOMAIN table[t] \ {"priority"} |-> table[t][f]]
Hydrated(t) == table[t]

\* hydrate of the workflow ledger: the rows of the records, written as late and as
\* unreliably as those of the tasks; the map in memory is a new one.
RecordsFound == IF kind = "pg" THEN SUBSET Workflows ELSE {{}}

\* register: hydrate, reset, and only then attach the store, so that the reset is
\* not written back.  The timer starts after it.
Restart ==
  /\ ~up
  /\ up' = TRUE
  /\ account' = [t \in Tasks |-> Recovered(Hydrated(t))]
  /\ ledger' \in RecordsFound
  /\ resent' = {} /\ forgotten' = forgotten \cup (answered \ durable)
  /\ UNCHANGED <<registryVars, online, pollVars, notices, sidecarVars, sent, notified, dead,
                 overlapped, faults, kind, storeVars, runsLost, crashes, answered>>

\* The child exits: a new one knows no run.
SidecarDies ==
  /\ ~runsLost
  /\ runsLost' = TRUE
  /\ emitted' = {} /\ active' = {}
  /\ UNCHANGED <<registryVars, online, account, pollVars, notices, sent, notified, dead,
                 overlapped, faults, kind, up, storeVars, ledger, crashes, resent, answered,
                 forgotten>>

-----------------------------------------------------------------------------
(* The rest of the system, as DispatchPump has it *)

\* A sidecar that has lost its runs emits no task and takes no notice (404).
LostRunsAreSilent == runsLost => emitted' = emitted /\ notified' = notified

\* resolveEndpoint finds no record, or no endpoint in it: a task without an entry falls
\* to DEFAULT_DISPATCH_ENDPOINT_ID, which no endpoint connects as, and is passed over.
\* (Binding and TargetOf still say where the submit had bound the task.)
Unbound(t) == ~Recorded(t) /\ WorkflowOf[t] \notin ledger

SkipUnbound(p, t) ==
  /\ pc[p] = "loop" /\ t \in pending[p]
  /\ Unbound(t)
  /\ Skip(p, t)
  /\ UNCHANGED <<registryVars, online, account, notices, sidecarVars, sent, notified,
                 dead, overlapped, faults>>

TakesBoundOnly ==
  \A p \in Polls : \A t \in pending[p] \ pending'[p] : pc[p] = "loop" => ~Unbound(t)

ControlPlane(step) ==
  /\ up
  /\ step
  /\ LostRunsAreSilent
  /\ writes' = writes \cup Persisted
  /\ resent' = resent \cup {signed[p].taskId : p \in {q \in Polls : pc[q] = "signing" /\ pc'[q] = "pushed"}}
  /\ UNCHANGED <<kind, up, table, ledger, runsLost, crashes, durable, answered, forgotten>>

\* While the control plane is down the sidecar goes on.
SidecarAlone ==
  /\ ~up /\ ~runsLost
  /\ \/ \E n \in notices : Notify(n)
     \/ \E t \in Tasks : Emit(t)
     \/ \E w \in Workflows : RunEnds(w)
  /\ UNCHANGED recoveryVars

RecoveryInit ==
  /\ Init
  /\ kind \in Store
  /\ up = TRUE /\ table = account /\ writes = {} /\ runsLost = FALSE /\ crashes = 0
  /\ ledger = Workflows
  /\ resent = {} /\ durable = {} /\ answered = {} /\ forgotten = {}

RecoveryNext ==
  \/ ControlPlane(Next /\ TakesBoundOnly)
  \/ \E p \in Polls, t \in Tasks : ControlPlane(SkipUnbound(p, t))
  \/ SidecarAlone
  \/ \E w \in writes : Lands(w)
  \/ \E w \in writes : WriteFails(w)
  \/ Crash
  \/ Restart
  \/ SidecarDies

RecoverySpec == RecoveryInit /\ [][RecoveryNext]_<<vars, recoveryVars>>

PollOn(p) == (PollStep(p) /\ TakesBoundOnly) \/ \E t \in Tasks : SkipUnbound(p, t)

\* The supervisor of the process restarts it, and its timer and polls go on as in
\* DispatchPump.  Nothing is assumed of the writes.
FairRecoverySpec ==
  /\ RecoverySpec
  /\ WF_<<vars, recoveryVars>>(Restart)
  /\ \A p \in Polls : /\ WF_<<vars, recoveryVars>>(ControlPlane(Tick(p)))
                      /\ WF_<<vars, recoveryVars>>(ControlPlane(PollOn(p)))

-----------------------------------------------------------------------------
(* Properties *)

\* The types of the pump's variables across restarts, of the rows and the writes.
RecoveryTypeOK ==
  /\ TypeOK
  /\ kind \in Store /\ up \in BOOLEAN /\ runsLost \in BOOLEAN /\ crashes \in 0..MaxCrashes
  /\ table \in [Tasks -> Entry \cup {None}] /\ writes \in SUBSET Write
  /\ ledger \in SUBSET Workflows
  /\ resent \in SUBSET Tasks /\ durable \in SUBSET Tasks
  /\ answered \in SUBSET Tasks /\ forgotten \in SUBSET Tasks

\* The sidecar hears of a task again only when a restart does not find its report in
\* the table, because the write had not landed or an older one landed after it: what
\* is durably reported never reaches the waiting node a second time.
NoticeRepeatedOnlyAfterLostReport ==
  \A t \in Tasks : notified[t] > 1 => t \in forgotten

\* A push of an earlier process is not trusted: a task that the sidecar still waits
\* for is pushed again by the restarted pump, or is reported, as soon as its
\* endpoint is back and has room; unless the restart found neither an entry for the
\* task nor its workflow's record, and with it no endpoint.
WaitingIsSentAgain ==
  \A t \in Tasks : []<>(~Dispatchable(t) \/ t \in resent \/ Reported(t) \/ Unbound(t))

=============================================================================
