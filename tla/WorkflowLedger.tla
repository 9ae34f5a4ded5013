--------------------------- MODULE WorkflowLedger ---------------------------
(***************************************************************************)
(* The life of one workflow in the control plane: its record in the ledger *)
(* (lib/workflow-ledger.ts) under the handlers that share it, each split   *)
(* at its awaits:                                                          *)
(*   - POST /api/infer/workflows, which binds, inspects, and asks the      *)
(*     sidecar to start the run;                                           *)
(*   - the two GETs on a workflow, which advance the record along the      *)
(*     sidecar's snapshot and revoke its tasks when it ends                *)
(*     (lib/workflow-status.ts);                                           *)
(*   - the upload route, which opens the record;                           *)
(*   - the pump, as far as it resolves an endpoint from the record and     *)
(*     marks tasks pushed (the rest of it is DispatchPump).                *)
(* Handlers of different workflows share nothing here, so one workflow is  *)
(* modelled.  Its graph has remote nodes (Tasks).  The run itself is       *)
(* RunStatus, which WorkflowRun implements.                                *)
(***************************************************************************)
EXTENDS Naturals, FiniteSets

CONSTANTS
  Submits,     \* submit requests for the workflow
  Readers,     \* handlers of its status queries
  Tasks,       \* tasks of its remote nodes
  MaxCrashes   \* sidecar processes that may die

ASSUME ConstantsAssumption ==
  /\ Tasks # {}
  /\ MaxCrashes \in Nat

VARIABLES
  record,    \* the record's status, "absent" without one
  bound,     \* it has endpointId and bindingsJson
  run,       \* the sidecar's run, "none" without one
  crashes,   \* sidecar processes that died
  submit,    \* each submit handler
  reader,    \* each query handler
  seen,      \* the status it read from the record before its await
  snapshot,  \* the run status it was answered, "null" for a failed call
  account,   \* each task's account entry
  poll,      \* what the pump is doing with each task
  revoked,   \* tasks a revocation was sent for
  late,      \* history: tasks pushed after the record had ended
  disturbed  \* history: submits overlapped, or a start was accepted unheard

submitVars == <<submit, disturbed>>
readerVars == <<reader, seen, snapshot>>
taskVars   == <<account, poll, revoked, late>>
vars == <<record, bound, run, crashes, submit, reader, seen, snapshot, account, poll,
          revoked, late, disturbed>>

RS == INSTANCE RunStatus WITH status <- run

-----------------------------------------------------------------------------
(* The ledger *)

Terminal == {"completed", "failed", "rejected", "cancelled"}

\* LEGAL_TRANSITIONS.
Legal ==
  [registered  |-> {"inspecting", "binding", "dispatching", "rejected", "failed"},
   inspecting  |-> {"rejected", "binding", "failed"},
   binding     |-> {"rejected", "dispatching", "failed"},
   dispatching |-> {"executing", "completed", "failed", "cancelled"},
   executing   |-> {"collecting", "completed", "failed", "cancelled"},
   collecting  |-> {"aggregating", "completed", "failed", "cancelled"},
   aggregating |-> {"completed", "failed", "cancelled"}]

\* Whether the table lets the record move on (variants: any move out of a state that
\* is not terminal; a table without dispatching -> completed).
MayBecomeAnything(next) == record # "absent" /\ record \notin Terminal
MayBecomeStepwise(next) ==
  /\ record \in DOMAIN Legal /\ next \in Legal[record]
  /\ record = "dispatching" => next # "completed"
MayBecome(next) == record \in DOMAIN Legal /\ next \in Legal[record]

\* transition: an illegal one leaves the record as it is.
Transition(next) == record' = IF MayBecome(next) THEN next ELSE record

\* The record's first version, made by an upload intent or by the submit itself.
OpenByUpload ==
  /\ record = "absent"
  /\ record' = "registered"
  /\ UNCHANGED <<bound, run, crashes, submitVars, readerVars, taskVars>>

-----------------------------------------------------------------------------
(* POST /api/infer/workflows *)

\* The record a submit accepts: none yet, or registered (the variant: any).
SubmittableAlways == TRUE
Submittable == record \in {"absent", "registered"}

UnderWay == {s \in Submits : submit[s] \in {"signing", "sent", "accepted", "refused"}}

\* Up to the signer's await: 409, refused by binding or inspection, no sidecar, or on.
SubmitRefused(s) ==
  /\ submit[s] = "idle" /\ ~Submittable
  /\ submit' = [submit EXCEPT ![s] = "over"]
  /\ UNCHANGED <<record, bound, run, crashes, disturbed, readerVars, taskVars>>

SubmitCloses(s, next) ==
  /\ submit[s] = "idle" /\ Submittable
  /\ record' = next
  /\ submit' = [submit EXCEPT ![s] = "over"]
  /\ disturbed' = (disturbed \/ UnderWay # {})
  /\ UNCHANGED <<bound, run, crashes, readerVars, taskVars>>

SubmitBinds(s) ==
  /\ submit[s] = "idle" /\ Submittable
  /\ record' = IF record = "absent" THEN "registered" ELSE record
  /\ submit' = [submit EXCEPT ![s] = "signing"]
  /\ disturbed' = (disturbed \/ UnderWay # {})
  /\ UNCHANGED <<bound, run, crashes, readerVars, taskVars>>

\* The signer throws: the request fails, the record stays.
SignerThrows(s) ==
  /\ submit[s] = "signing"
  /\ submit' = [submit EXCEPT ![s] = "over"]
  /\ UNCHANGED <<record, bound, run, crashes, disturbed, readerVars, taskVars>>

AskStart(s) ==
  /\ submit[s] = "signing"
  /\ submit' = [submit EXCEPT ![s] = "sent"]
  /\ UNCHANGED <<record, bound, run, crashes, disturbed, readerVars, taskVars>>

\* The sidecar registers and starts the run; an id it knows is a 409.
SidecarStarts(s) ==
  /\ submit[s] = "sent"
  /\ run = "none"
  /\ run' \in {"starting", "failed"}
  /\ submit' = [submit EXCEPT ![s] = "accepted"]
  /\ UNCHANGED <<record, bound, crashes, disturbed, readerVars, taskVars>>

\* 409, a graph it cannot build, or no answer ...
SidecarRefuses(s) ==
  /\ submit[s] = "sent"
  /\ submit' = [submit EXCEPT ![s] = "refused"]
  /\ UNCHANGED <<record, bound, run, crashes, disturbed, readerVars, taskVars>>

\* ... or a 500 or a broken connection after the run was registered.
AnswerLost(s) ==
  /\ submit[s] = "accepted"
  /\ submit' = [submit EXCEPT ![s] = "refused"]
  /\ disturbed' = TRUE
  /\ UNCHANGED <<record, bound, run, crashes, readerVars, taskVars>>

SubmitFails(s) ==
  /\ submit[s] = "refused"
  /\ Transition("failed")
  /\ submit' = [submit EXCEPT ![s] = "over"]
  /\ UNCHANGED <<bound, run, crashes, disturbed, readerVars, taskVars>>

\* The endpoints come with the transition: refused, it loses them.
SubmitSucceeds(s) ==
  /\ submit[s] = "accepted"
  /\ Transition("dispatching")
  /\ bound' = (bound \/ MayBecome("dispatching"))
  /\ submit' = [submit EXCEPT ![s] = "over"]
  /\ UNCHANGED <<run, crashes, disturbed, readerVars, taskVars>>

-----------------------------------------------------------------------------
(* advanceWorkflowStatus *)

\* The records for which the sidecar is asked (the variant: every one).
AdvancingAlways == record # "absent"
Advancing == record # "absent" /\ record \notin Terminal

\* The record is read; one that is absent or terminal is answered at once.
Query(r) ==
  /\ reader[r] = "idle" /\ Advancing
  /\ reader' = [reader EXCEPT ![r] = "asked"]
  /\ seen' = [seen EXCEPT ![r] = record]
  /\ UNCHANGED <<record, bound, run, crashes, submitVars, snapshot, taskVars>>

\* The sidecar's answer; "null" when it has no such run or cannot be reached.
Answer(r) ==
  /\ reader[r] = "asked"
  /\ snapshot' = [snapshot EXCEPT ![r] = IF run = "none" THEN "null" ELSE run]
  /\ reader' = [reader EXCEPT ![r] = "answered"]
  /\ UNCHANGED <<record, bound, run, crashes, submitVars, seen, taskVars>>

\* sidecarToLifecycle.
Lifecycle(status) ==
  CASE status = "starting" -> "dispatching"
    [] status \in {"waitingRemote", "executing"} -> "executing"
    [] OTHER -> status

\* Tasks whose revocation the end of a workflow sends: pushed, not reported (the
\* variant: only when it completed).
ToRevokeOnSuccess(next) ==
  IF next = "completed" THEN {t \in Tasks : account[t] = "pushed"} ELSE {}
ToRevoke(next) ==
  IF next \in {"completed", "failed"} THEN {t \in Tasks : account[t] = "pushed"} ELSE {}

\* After the await: transition, and revoke even when the transition was refused.  A
\* snapshot with an outcome carries a uri or an error code.
Advance(r) ==
  LET next == Lifecycle(snapshot[r])
      moves == snapshot[r] # "null" /\ (next # seen[r] \/ snapshot[r] \in RS!Outcomes)
  IN  /\ reader[r] = "answered"
      /\ IF moves THEN Transition(next) /\ revoked' = revoked \cup ToRevoke(next)
                  ELSE UNCHANGED <<record, revoked>>
      /\ reader' = [reader EXCEPT ![r] = "idle"]
      /\ seen' = [seen EXCEPT ![r] = "absent"]
      /\ snapshot' = [snapshot EXCEPT ![r] = "null"]
      /\ UNCHANGED <<bound, run, crashes, submitVars, account, poll, late>>

-----------------------------------------------------------------------------
(* The pump and the sidecar *)

\* A poll finds the task among the pending dispatches of a run under way.
PollReads(t) ==
  /\ poll[t] = "idle"
  /\ run \in {"waitingRemote", "executing"}
  /\ poll' = [poll EXCEPT ![t] = "read"]
  /\ UNCHANGED <<record, bound, run, crashes, submitVars, readerVars, account, revoked, late>>

\* It takes a task not yet pushed, once the entry or the record names an endpoint (the
\* default endpoint of the code is never online).
PollAdmits(t) ==
  /\ poll[t] = "read"
  /\ account[t] = "deferred" \/ (account[t] = "none" /\ bound)
  /\ account' = [account EXCEPT ![t] = "deferred"]
  /\ poll' = [poll EXCEPT ![t] = "signing"]
  /\ UNCHANGED <<record, bound, run, crashes, submitVars, readerVars, revoked, late>>

PollSkips(t) ==
  /\ poll[t] \in {"read", "signing"}
  /\ poll' = [poll EXCEPT ![t] = "idle"]
  /\ UNCHANGED <<record, bound, run, crashes, submitVars, readerVars, account, revoked, late>>

PollPushes(t) ==
  /\ poll[t] = "signing"
  /\ account' = [account EXCEPT ![t] = IF @ = "deferred" THEN "pushed" ELSE @]
  /\ poll' = [poll EXCEPT ![t] = "idle"]
  /\ late' = IF record \in Terminal THEN late \cup {t} ELSE late
  /\ UNCHANGED <<record, bound, run, crashes, submitVars, readerVars, revoked>>

\* markReported.
Report(t) ==
  /\ account[t] = "pushed"
  /\ account' = [account EXCEPT ![t] = "reported"]
  /\ UNCHANGED <<record, bound, run, crashes, submitVars, readerVars, poll, revoked, late>>

RunStep ==
  /\ run # "none"
  /\ RS!Next
  /\ UNCHANGED <<record, bound, crashes, submitVars, readerVars, taskVars>>

\* The process dies and its runs with it; the supervisor starts another.
SidecarDies ==
  /\ crashes < MaxCrashes
  /\ crashes' = crashes + 1
  /\ run' = "none"
  /\ UNCHANGED <<record, bound, submitVars, readerVars, taskVars>>

-----------------------------------------------------------------------------
Init ==
  /\ record = "absent" /\ bound = FALSE
  /\ run = "none" /\ crashes = 0
  /\ submit = [s \in Submits |-> "idle"] /\ disturbed = FALSE
  /\ reader = [r \in Readers |-> "idle"] /\ seen = [r \in Readers |-> "absent"]
  /\ snapshot = [r \in Readers |-> "null"]
  /\ account = [t \in Tasks |-> "none"] /\ poll = [t \in Tasks |-> "idle"]
  /\ revoked = {} /\ late = {}

SubmitStep(s) ==
  \/ SubmitRefused(s)
  \/ \E next \in {"rejected", "failed"} : SubmitCloses(s, next)
  \/ SubmitBinds(s)
  \/ SignerThrows(s)
  \/ AskStart(s)
  \/ SidecarStarts(s)
  \/ SidecarRefuses(s)
  \/ AnswerLost(s)
  \/ SubmitFails(s)
  \/ SubmitSucceeds(s)

ReaderStep(r) == Query(r) \/ Answer(r) \/ Advance(r)

PollStep(t) == PollReads(t) \/ PollAdmits(t) \/ PollSkips(t) \/ PollPushes(t)

Next ==
  \/ OpenByUpload
  \/ \E s \in Submits : SubmitStep(s)
  \/ \E r \in Readers : ReaderStep(r)
  \/ \E t \in Tasks : PollStep(t)
  \/ \E t \in Tasks : Report(t)
  \/ RunStep
  \/ SidecarDies

Spec == Init /\ [][Next]_vars

\* A handler's awaits end, and the consumer polls until the workflow has ended.
FairSpec ==
  /\ Spec
  /\ \A s \in Submits : WF_vars(submit[s] # "idle" /\ SubmitStep(s))
  /\ \A r \in Readers : WF_vars(ReaderStep(r))

-----------------------------------------------------------------------------
(* Properties *)

\* Every variable keeps its type.
TypeOK ==
  /\ record \in {"absent"} \cup DOMAIN Legal \cup Terminal /\ bound \in BOOLEAN
  /\ run \in {"none"} \cup RS!Live \cup RS!Outcomes /\ crashes \in 0..MaxCrashes
  /\ submit \in [Submits -> {"idle", "signing", "sent", "accepted", "refused", "over"}]
  /\ reader \in [Readers -> {"idle", "asked", "answered"}]
  /\ seen \in [Readers -> {"absent"} \cup DOMAIN Legal]
  /\ snapshot \in [Readers -> {"null"} \cup RS!Live \cup RS!Outcomes]
  /\ account \in [Tasks -> {"none", "deferred", "pushed", "reported"}]
  /\ poll \in [Tasks -> {"idle", "read", "signing"}]
  /\ revoked \in SUBSET Tasks /\ late \in SUBSET Tasks /\ disturbed \in BOOLEAN

\* The order of the states a workflow goes through.
Stage(status) ==
  CASE status = "absent" -> 0
    [] status = "registered" -> 1
    [] status = "inspecting" -> 2
    [] status = "binding" -> 3
    [] status = "dispatching" -> 4
    [] status = "executing" -> 5
    [] status = "collecting" -> 6
    [] status = "aggregating" -> 7
    [] OTHER -> 8

\* Readers that resume with old snapshots in any order never take the record back,
\* and never change an end.
RecordGoesForward ==
  [][record' # record => Stage(record) < Stage(record')]_vars

\* A record that says the workflow is over has no run under way behind it, unless
\* submits overlapped or an accepted start went unheard.
ClosedRecordHasNoLiveRun ==
  record \in Terminal /\ ~disturbed => run \notin RS!Live

\* Every task in flight when the workflow's end was recorded has been revoked (with
\* the same exception: the submit handler's `failed` revokes nothing); what the pump
\* pushed afterwards has not.
EndRevokesInFlight ==
  record \in {"completed", "failed"} /\ ~disturbed =>
    \A t \in Tasks : account[t] = "pushed" => t \in revoked \cup late

\* A run's end reaches the record while the consumer keeps polling.
EndedRunIsRecorded ==
  run \in RS!Outcomes ~> (record \in Terminal \/ run = "none")

\* An entry without an endpoint is that of a graph without remote nodes (the comment
\* of WorkflowRecord.endpointId); this one has some.
DispatchedIsBound == record \in {"dispatching", "executing"} => bound

=============================================================================
