------------------------ MODULE WorkflowLedgerProofs -------------------------
(***************************************************************************)
(* Proofs about WorkflowLedger for any set of submits, readers and tasks   *)
(* and any number of sidecar crashes.                                      *)
(***************************************************************************)
EXTENDS WorkflowLedger, TLAPS

Open == {"absent", "registered", "inspecting", "binding", "dispatching", "executing",
         "collecting", "aggregating"}

\* While a submit waits for the signer or the sidecar, or has been refused, nobody
\* else moves the record.
WaitingSubmitOwnsRecord ==
  /\ \A s \in UnderWay : record # "absent"
  /\ \A s, u \in UnderWay : s = u
  /\ \A s \in Submits : submit[s] \in {"signing", "sent", "refused"} => record = "registered"

\* Before a start has been accepted there is no run, and nothing that comes of one.
NothingBeforeStart ==
  record \in {"absent", "registered"} /\ (\A s \in Submits : submit[s] # "accepted") =>
    /\ run = "none"
    /\ \A r \in Readers : snapshot[r] = "null"
    /\ \A t \in Tasks : account[t] = "none" /\ poll[t] = "idle"

\* The end a reader was told of is one: the run has not been started anew since.
EndSeenIsEnd == \A r \in Readers : snapshot[r] \in RS!Outcomes => run \notin RS!Live

IInv ==
  /\ TypeOK
  /\ ~disturbed => /\ WaitingSubmitOwnsRecord /\ NothingBeforeStart /\ EndSeenIsEnd
                   /\ ClosedRecordHasNoLiveRun /\ EndRevokesInFlight

-----------------------------------------------------------------------------
(* The table and the mapping *)

\* A legal transition leaves a state that is open, and goes forward.
LEMMA LegalForward ==
  ASSUME record \in DOMAIN Legal, NEW next \in Legal[record]
  PROVE  /\ record \in Open \ {"absent"}
         /\ next \in Open \cup Terminal /\ next \notin {"absent", "registered"}
         /\ Stage(record) < Stage(next)
<1>1. record \in Open \ {"absent"}
  BY DEF Legal, Open
<1>2. CASE record = "registered"
  BY <1>2 DEF Legal, Open, Terminal, Stage
<1>3. CASE record = "inspecting"
  BY <1>3 DEF Legal, Open, Terminal, Stage
<1>4. CASE record = "binding"
  BY <1>4 DEF Legal, Open, Terminal, Stage
<1>5. CASE record = "dispatching"
  BY <1>5 DEF Legal, Open, Terminal, Stage
<1>6. CASE record = "executing"
  BY <1>6 DEF Legal, Open, Terminal, Stage
<1>7. CASE record = "collecting"
  BY <1>7 DEF Legal, Open, Terminal, Stage
<1>8. CASE record = "aggregating"
  BY <1>8 DEF Legal, Open, Terminal, Stage
<1>9. QED
  BY <1>1, <1>2, <1>3, <1>4, <1>5, <1>6, <1>7, <1>8 DEF Open

LEMMA LegalDomain == DOMAIN Legal = Open \ {"absent"}
BY DEF Legal, Open

LEMMA LifecycleRange ==
  ASSUME NEW status \in RS!Live \cup RS!Outcomes
  PROVE  /\ Lifecycle(status) \in {"dispatching", "executing", "completed", "failed"}
         /\ Lifecycle(status) \in Terminal => status \in RS!Outcomes
         /\ status \in RS!Outcomes => Lifecycle(status) = status
BY DEF Lifecycle, RS!Live, RS!Outcomes, Terminal

\* What a transition leaves: the record as it was, or a later state.
LEMMA TransitionEffect ==
  ASSUME TypeOK, NEW next, Transition(next)
  PROVE  /\ record' \in {"absent"} \cup DOMAIN Legal \cup Terminal
         /\ \/ record' = record
            \/ /\ record' = next /\ Stage(record) < Stage(record')
               /\ record \notin Terminal /\ record' \notin {"absent", "registered"}
<1>1. CASE record' = record
  BY <1>1 DEF TypeOK
<1>2. CASE MayBecome(next) /\ record' = next
  <2>1. record \in DOMAIN Legal /\ next \in Legal[record]
    BY <1>2 DEF MayBecome
  <2>2. record \in Open /\ Stage(record) < Stage(next) /\ next \notin {"absent", "registered"}
        /\ next \in Open \cup Terminal
    BY <2>1, LegalForward
  <2>3. record \notin Terminal
    BY <2>2 DEF Open, Terminal
  <2>4. QED
    BY <1>2, <2>2, <2>3, LegalDomain
<1>3. QED
  BY <1>1, <1>2 DEF Transition

-----------------------------------------------------------------------------
(* Types, and the order of the record *)

LEMMA InitType == Init => TypeOK
<1> SUFFICES ASSUME Init PROVE TypeOK
  OBVIOUS
<1>1. crashes \in 0..MaxCrashes
  BY ConstantsAssumption DEF Init
<1>2. bound \in BOOLEAN /\ disturbed \in BOOLEAN
  BY DEF Init
<1>3. QED
  BY <1>1, <1>2 DEF Init, TypeOK

LEMMA SubmitType ==
  ASSUME TypeOK, NEW s \in Submits, SubmitStep(s)
  PROVE  TypeOK'
<1> USE DEF TypeOK, readerVars, taskVars
<1>1. ASSUME SubmitRefused(s) \/ SignerThrows(s) \/ AskStart(s) \/ SidecarRefuses(s)
      PROVE  TypeOK'
  BY <1>1 DEF SubmitRefused, SignerThrows, AskStart, SidecarRefuses
<1>2. ASSUME NEW next \in {"rejected", "failed"}, SubmitCloses(s, next) PROVE TypeOK'
  <2>1. record' \in Terminal /\ disturbed' \in BOOLEAN
    BY <1>2 DEF SubmitCloses, Terminal
  <2>2. QED
    BY <1>2, <2>1 DEF SubmitCloses
<1>3. CASE SubmitBinds(s)
  <2>1. record' \in {"absent"} \cup DOMAIN Legal \cup Terminal
    BY <1>3, LegalDomain DEF SubmitBinds, Open
  <2>2. disturbed' \in BOOLEAN
    BY <1>3 DEF SubmitBinds
  <2>3. QED
    BY <1>3, <2>1, <2>2 DEF SubmitBinds
<1>4. CASE SidecarStarts(s)
  BY <1>4 DEF SidecarStarts, RS!Live, RS!Outcomes
<1>5. CASE AnswerLost(s)
  BY <1>5 DEF AnswerLost
<1>6. CASE SubmitFails(s)
  BY <1>6, TransitionEffect DEF SubmitFails
<1>7. CASE SubmitSucceeds(s)
  <2>1. bound' \in BOOLEAN
    BY <1>7 DEF SubmitSucceeds
  <2>2. QED
    BY <1>7, <2>1, TransitionEffect DEF SubmitSucceeds
<1>8. QED
  BY <1>1, <1>2, <1>3, <1>4, <1>5, <1>6, <1>7 DEF SubmitStep

LEMMA StepType == TypeOK /\ [Next]_vars => TypeOK'
<1> SUFFICES ASSUME TypeOK, [Next]_vars PROVE TypeOK'
  OBVIOUS
<1> USE DEF submitVars, readerVars, taskVars
<1>1. CASE UNCHANGED vars
  BY <1>1 DEF vars, TypeOK
<1>2. CASE OpenByUpload
  <2>1. record' \in DOMAIN Legal
    BY <1>2, LegalDomain DEF OpenByUpload, Open
  <2>2. QED
    BY <1>2, <2>1 DEF OpenByUpload, TypeOK
<1>3. ASSUME NEW s \in Submits, SubmitStep(s) PROVE TypeOK'
  BY <1>3, SubmitType
<1>4. ASSUME NEW r \in Readers, Query(r) \/ Answer(r) PROVE TypeOK'
  BY <1>4 DEF Query, Advancing, Answer, TypeOK
<1>5. ASSUME NEW r \in Readers, Advance(r) PROVE TypeOK'
  <2>1. record' \in {"absent"} \cup DOMAIN Legal \cup Terminal
    BY <1>5, TransitionEffect DEF Advance, TypeOK
  <2>2. revoked' \in SUBSET Tasks
    BY <1>5 DEF Advance, ToRevoke, TypeOK
  <2>3. QED
    BY <1>5, <2>1, <2>2 DEF Advance, TypeOK
<1>6. ASSUME NEW t \in Tasks, PollStep(t) \/ Report(t) PROVE TypeOK'
  BY <1>6 DEF PollStep, PollReads, PollAdmits, PollSkips, PollPushes, Report, TypeOK
<1>7. CASE RunStep
  BY <1>7 DEF RunStep, RS!Next, RS!Waits, RS!Executes, RS!Ends, RS!Overturned, RS!Live,
              RS!Outcomes, TypeOK
<1>8. CASE SidecarDies
  BY <1>8, ConstantsAssumption DEF SidecarDies, TypeOK
<1>9. QED
  BY <1>1, <1>2, <1>3, <1>4, <1>5, <1>6, <1>7, <1>8 DEF Next, ReaderStep

LEMMA StepForward ==
  ASSUME TypeOK, [Next]_vars, record' # record
  PROVE  Stage(record) < Stage(record')
<1>1. ASSUME NEW next, Transition(next) PROVE Stage(record) < Stage(record')
  BY <1>1, TransitionEffect
<1>2. CASE OpenByUpload
  BY <1>2 DEF OpenByUpload, Stage
<1>3. ASSUME NEW s \in Submits, NEW next \in {"rejected", "failed"}, SubmitCloses(s, next)
      PROVE  Stage(record) < Stage(record')
  BY <1>3 DEF SubmitCloses, Submittable, Stage
<1>4. ASSUME NEW s \in Submits, SubmitBinds(s) PROVE Stage(record) < Stage(record')
  BY <1>4 DEF SubmitBinds, Submittable, Stage
<1>5. ASSUME NEW r \in Readers, Advance(r) PROVE Stage(record) < Stage(record')
  BY <1>1, <1>5 DEF Advance
<1>6. QED
  BY <1>1, <1>2, <1>3, <1>4, <1>5
  DEF Next, SubmitStep, ReaderStep, PollStep, vars, SubmitRefused, SignerThrows, AskStart,
      SidecarStarts, SidecarRefuses, AnswerLost, SubmitFails, SubmitSucceeds, Query, Answer,
      PollReads, PollAdmits, PollSkips, PollPushes, Report, RunStep, SidecarDies

-----------------------------------------------------------------------------
(* The inductive step, one lemma per kind of handler *)

Calm ==
  /\ WaitingSubmitOwnsRecord /\ NothingBeforeStart /\ EndSeenIsEnd
  /\ ClosedRecordHasNoLiveRun /\ EndRevokesInFlight

\* Before a start nothing has come of a run: said of a submit that is on its way to it.
LEMMA NothingYet ==
  ASSUME IInv, ~disturbed, NEW s \in Submits, submit[s] \in {"signing", "sent", "refused"}
  PROVE  /\ record = "registered" /\ run = "none"
         /\ \A r \in Readers : snapshot[r] = "null"
         /\ \A t \in Tasks : account[t] = "none" /\ poll[t] = "idle"
<1>1. \A u \in Submits : submit[u] # "accepted"
  BY DEF IInv, WaitingSubmitOwnsRecord, UnderWay
<1>2. record = "registered"
  BY DEF IInv, WaitingSubmitOwnsRecord
<1>3. QED
  BY <1>1, <1>2 DEF IInv, NothingBeforeStart

LEMMA SubmitCalm ==
  ASSUME IInv, NEW s \in Submits, SubmitStep(s), ~disturbed'
  PROVE  Calm'
<1> USE DEF WaitingSubmitOwnsRecord, NothingBeforeStart, EndSeenIsEnd, readerVars, taskVars
<1>t. TypeOK /\ submit \in [Submits -> {"idle", "signing", "sent", "accepted", "refused", "over"}]
  BY DEF IInv, TypeOK
<1>r. "none" \notin RS!Live
  BY DEF RS!Live
<1>1. CASE SubmitRefused(s)
  <2>1. Calm /\ submit' = [submit EXCEPT ![s] = "over"] /\ submit[s] = "idle"
    BY <1>1 DEF SubmitRefused, IInv, Calm
  <2>2. UNCHANGED <<record, run, disturbed, snapshot, account, poll, revoked, late>>
    BY <1>1 DEF SubmitRefused
  <2>3. WaitingSubmitOwnsRecord' /\ NothingBeforeStart'
    BY <1>t, <2>1, <2>2 DEF Calm, UnderWay
  <2>4. QED
    BY <2>1, <2>2, <2>3 DEF Calm, ClosedRecordHasNoLiveRun, EndRevokesInFlight
<1>2. ASSUME NEW next \in {"rejected", "failed"}, SubmitCloses(s, next) PROVE Calm'
  <2>1. ~disturbed /\ UnderWay = {} /\ record \in {"absent", "registered"}
        /\ record' = next /\ submit' = [submit EXCEPT ![s] = "over"]
        /\ UNCHANGED <<run, snapshot, account, poll, revoked, late>>
    BY <1>2 DEF SubmitCloses, Submittable
  <2>2. run = "none" /\ (\A r \in Readers : snapshot[r] = "null")
        /\ \A t \in Tasks : account[t] = "none" /\ poll[t] = "idle"
    BY <2>1 DEF IInv, UnderWay
  <2>3. WaitingSubmitOwnsRecord' /\ NothingBeforeStart' /\ EndSeenIsEnd'
    BY <1>t, <1>r, <2>1, <2>2 DEF UnderWay
  <2>4. ClosedRecordHasNoLiveRun' /\ EndRevokesInFlight'
    BY <1>r, <2>1, <2>2 DEF ClosedRecordHasNoLiveRun, EndRevokesInFlight
  <2>5. QED
    BY <2>3, <2>4 DEF Calm
<1>3. CASE SubmitBinds(s)
  <2>1. ~disturbed /\ UnderWay = {} /\ record \in {"absent", "registered"}
        /\ record' = "registered" /\ submit' = [submit EXCEPT ![s] = "signing"]
        /\ UNCHANGED <<run, snapshot, account, poll, revoked, late>>
    BY <1>3 DEF SubmitBinds, Submittable
  <2>2. run = "none" /\ (\A r \in Readers : snapshot[r] = "null")
        /\ \A t \in Tasks : account[t] = "none" /\ poll[t] = "idle"
    BY <2>1 DEF IInv, UnderWay
  <2>3. \A u \in Submits : u # s => u \notin UnderWay /\ submit'[u] = submit[u]
    BY <1>t, <2>1
  <2>4. WaitingSubmitOwnsRecord' /\ NothingBeforeStart' /\ EndSeenIsEnd'
    BY <1>r, <2>1, <2>2, <2>3 DEF UnderWay
  <2>5. ClosedRecordHasNoLiveRun' /\ EndRevokesInFlight'
    BY <1>r, <2>1, <2>2 DEF ClosedRecordHasNoLiveRun, EndRevokesInFlight
  <2>6. QED
    BY <2>4, <2>5 DEF Calm
<1>4. ASSUME SignerThrows(s) \/ AskStart(s) \/ SidecarRefuses(s) PROVE Calm'
  <2>1. ~disturbed /\ submit[s] \in {"signing", "sent"}
        /\ UNCHANGED <<record, run, snapshot, account, poll, revoked, late, disturbed>>
    BY <1>4 DEF SignerThrows, AskStart, SidecarRefuses
  <2>2. \E k \in {"over", "sent", "refused"} : submit' = [submit EXCEPT ![s] = k]
    BY <1>4 DEF SignerThrows, AskStart, SidecarRefuses
  <2>3. record = "registered" /\ run = "none" /\ (\A r \in Readers : snapshot[r] = "null")
        /\ \A t \in Tasks : account[t] = "none" /\ poll[t] = "idle"
    BY <2>1, NothingYet
  <2>4. UnderWay' \subseteq UnderWay
    BY <1>t, <2>1, <2>2 DEF UnderWay
  <2>5. WaitingSubmitOwnsRecord' /\ NothingBeforeStart' /\ EndSeenIsEnd'
    BY <1>r, <2>1, <2>3, <2>4 DEF IInv
  <2>6. ClosedRecordHasNoLiveRun' /\ EndRevokesInFlight'
    BY <1>r, <2>1, <2>3 DEF ClosedRecordHasNoLiveRun, EndRevokesInFlight
  <2>7. QED
    BY <2>5, <2>6 DEF Calm
<1>5. CASE SidecarStarts(s)
  <2>1. ~disturbed /\ submit[s] = "sent" /\ submit' = [submit EXCEPT ![s] = "accepted"]
        /\ UNCHANGED <<record, snapshot, account, poll, revoked, late, disturbed>>
    BY <1>5 DEF SidecarStarts
  <2>2. record = "registered" /\ \A r \in Readers : snapshot[r] = "null"
    BY <2>1, NothingYet
  <2>3. UnderWay' = UnderWay /\ s \in UnderWay
    BY <1>t, <2>1 DEF UnderWay
  <2>4. WaitingSubmitOwnsRecord' /\ NothingBeforeStart'
    BY <1>t, <2>1, <2>2, <2>3 DEF IInv
  <2>5. EndSeenIsEnd'
    BY <2>1, <2>2 DEF RS!Outcomes
  <2>6. ClosedRecordHasNoLiveRun' /\ EndRevokesInFlight'
    BY <2>1, <2>2 DEF ClosedRecordHasNoLiveRun, EndRevokesInFlight, Terminal
  <2>7. QED
    BY <2>4, <2>5, <2>6 DEF Calm
<1>6. CASE AnswerLost(s)
  BY <1>6 DEF AnswerLost
<1>7. CASE SubmitFails(s)
  <2>1. ~disturbed /\ submit[s] = "refused" /\ submit' = [submit EXCEPT ![s] = "over"]
        /\ UNCHANGED <<run, snapshot, account, poll, revoked, late, disturbed>>
    BY <1>7 DEF SubmitFails
  <2>2. record = "registered" /\ run = "none" /\ (\A r \in Readers : snapshot[r] = "null")
        /\ \A t \in Tasks : account[t] = "none" /\ poll[t] = "idle"
    BY <2>1, NothingYet
  <2>3. UnderWay' = {}
    <3>1. UnderWay = {s}
      BY <2>1 DEF IInv, UnderWay
    <3>2. QED
      BY <1>t, <2>1, <3>1 DEF UnderWay
  <2>4. record' # "absent"
    BY <1>7, <1>t, <2>2, TransitionEffect DEF SubmitFails
  <2>5. WaitingSubmitOwnsRecord' /\ NothingBeforeStart' /\ EndSeenIsEnd'
    BY <1>r, <2>1, <2>2, <2>3 DEF UnderWay
  <2>6. ClosedRecordHasNoLiveRun' /\ EndRevokesInFlight'
    BY <1>r, <2>1, <2>2 DEF ClosedRecordHasNoLiveRun, EndRevokesInFlight
  <2>7. QED
    BY <2>5, <2>6 DEF Calm
<1>8. CASE SubmitSucceeds(s)
  <2>1. ~disturbed /\ submit[s] = "accepted" /\ submit' = [submit EXCEPT ![s] = "over"]
        /\ Transition("dispatching")
        /\ UNCHANGED <<run, snapshot, account, poll, revoked, late, disturbed>>
    BY <1>8 DEF SubmitSucceeds
  <2>2. UnderWay = {s} /\ record # "absent"
    BY <2>1 DEF IInv, UnderWay
  <2>3. UnderWay' = {}
    BY <1>t, <2>1, <2>2 DEF UnderWay
  <2>4. record' \notin {"absent", "registered"}
    <3>1. CASE record = "registered"
      BY <2>1, <3>1 DEF Transition, MayBecome, Legal
    <3>2. CASE record # "registered"
      BY <1>t, <2>1, <2>2, <3>2, TransitionEffect
    <3>3. QED
      BY <3>1, <3>2
  <2>5. record' = record \/ record' \notin Terminal
    BY <1>t, <2>1, TransitionEffect DEF Terminal
  <2>6. WaitingSubmitOwnsRecord' /\ NothingBeforeStart' /\ EndSeenIsEnd'
    BY <2>1, <2>3, <2>4 DEF IInv, UnderWay
  <2>7. ClosedRecordHasNoLiveRun' /\ EndRevokesInFlight'
    BY <2>1, <2>5 DEF IInv, ClosedRecordHasNoLiveRun, EndRevokesInFlight, Terminal
  <2>8. QED
    BY <2>6, <2>7 DEF Calm
<1>9. QED
  BY <1>1, <1>2, <1>3, <1>4, <1>5, <1>6, <1>7, <1>8 DEF SubmitStep

\* A reader resumes: what it was told before the start it ignores, an end it was told
\* of still is one, and with the end it revokes what is in flight.
LEMMA AdvanceCalm ==
  ASSUME IInv, NEW r \in Readers, Advance(r), ~disturbed'
  PROVE  Calm'
<1> DEFINE next == Lifecycle(snapshot[r])
           moves == snapshot[r] # "null" /\ (next # seen[r] \/ snapshot[r] \in RS!Outcomes)
<1>1. /\ TypeOK /\ ~disturbed /\ Calm
      /\ UNCHANGED <<run, submit, disturbed, account, poll, late>>
      /\ snapshot' = [snapshot EXCEPT ![r] = "null"]
  BY DEF Advance, IInv, Calm, submitVars
<1>2. EndSeenIsEnd'
  BY <1>1 DEF Calm, EndSeenIsEnd, TypeOK, RS!Outcomes
<1>3. UnderWay' = UnderWay
  BY <1>1 DEF UnderWay
<1>4. \A q \in Readers : snapshot[q] = "null" => snapshot'[q] = "null"
  BY <1>1 DEF TypeOK
<1>5. CASE ~moves
  <2>1. UNCHANGED <<record, revoked>>
    BY <1>5 DEF Advance
  <2>2. QED
    BY <1>1, <1>2, <1>3, <1>4, <2>1
    DEF Calm, WaitingSubmitOwnsRecord, NothingBeforeStart, ClosedRecordHasNoLiveRun,
        EndRevokesInFlight
<1>6. CASE moves
  <2>1. Transition(next) /\ revoked' = revoked \cup ToRevoke(next)
    BY <1>6 DEF Advance
  <2>2. /\ snapshot[r] \in RS!Live \cup RS!Outcomes
        /\ next \in {"dispatching", "executing", "completed", "failed"}
        /\ next \in Terminal => snapshot[r] \in RS!Outcomes
    BY <1>1, <1>6, LifecycleRange DEF TypeOK
  <2>3. record' = record \/ (record' = next /\ record' \notin {"absent", "registered"})
    BY <1>1, <2>1, TransitionEffect
  <2>4. \A s \in Submits : submit[s] \notin {"signing", "sent", "refused"}
    BY <1>1, <1>6, NothingYet
  <2>5. WaitingSubmitOwnsRecord' /\ NothingBeforeStart'
    BY <1>1, <1>3, <1>4, <2>3, <2>4 DEF Calm, WaitingSubmitOwnsRecord, NothingBeforeStart
  <2>6. ClosedRecordHasNoLiveRun'
    BY <1>1, <2>2, <2>3 DEF Calm, ClosedRecordHasNoLiveRun, EndSeenIsEnd
  <2>7. EndRevokesInFlight'
    <3>1. CASE record' = record
      BY <1>1, <2>1, <3>1 DEF Calm, EndRevokesInFlight
    <3>2. CASE record' = next
      BY <1>1, <2>1, <3>2 DEF EndRevokesInFlight, ToRevoke
    <3>3. QED
      BY <2>3, <3>1, <3>2
  <2>8. QED
    BY <1>2, <2>5, <2>6, <2>7 DEF Calm
<1>7. QED
  BY <1>5, <1>6

LEMMA StepIInv == IInv /\ [Next]_vars => IInv'
<1> SUFFICES ASSUME IInv, [Next]_vars, ~disturbed' PROVE Calm'
  BY StepType DEF IInv, Calm
<1> USE DEF submitVars, readerVars, taskVars
<1>t. TypeOK
  BY DEF IInv
<1>1. ASSUME NEW s \in Submits, SubmitStep(s) PROVE Calm'
  BY <1>1, SubmitCalm
<1>2. ASSUME NEW r \in Readers, Advance(r) PROVE Calm'
  BY <1>2, AdvanceCalm
<1>3. ASSUME UNCHANGED submitVars PROVE Calm /\ UnderWay' = UnderWay /\ ~disturbed
  BY <1>3 DEF IInv, Calm, UnderWay
<1>4. CASE UNCHANGED vars
  <2>1. Calm /\ UnderWay' = UnderWay
    BY <1>3, <1>4 DEF vars
  <2>2. QED
    BY <1>4, <2>1 DEF vars, Calm, WaitingSubmitOwnsRecord, NothingBeforeStart, EndSeenIsEnd,
                      ClosedRecordHasNoLiveRun, EndRevokesInFlight
<1>5. CASE OpenByUpload
  <2>1. Calm /\ UnderWay' = UnderWay /\ record = "absent" /\ record' = "registered"
        /\ UNCHANGED <<run, submit, disturbed, snapshot, account, poll, revoked, late>>
    BY <1>3, <1>5 DEF OpenByUpload
  <2>2. QED
    BY <2>1 DEF Calm, WaitingSubmitOwnsRecord, NothingBeforeStart, EndSeenIsEnd,
                ClosedRecordHasNoLiveRun, EndRevokesInFlight, Terminal
<1>6. ASSUME NEW r \in Readers, Query(r) \/ Answer(r) PROVE Calm'
  <2>1. Calm /\ UnderWay' = UnderWay
        /\ UNCHANGED <<record, run, submit, disturbed, account, poll, revoked, late>>
    BY <1>3, <1>6 DEF Query, Answer
  <2>2. \A q \in Readers : \/ snapshot'[q] = snapshot[q]
                          \/ snapshot'[q] = IF run = "none" THEN "null" ELSE run
    BY <1>6, <1>t DEF Query, Answer, TypeOK
  <2>3. NothingBeforeStart' /\ EndSeenIsEnd'
    BY <2>1, <2>2 DEF Calm, NothingBeforeStart, EndSeenIsEnd, RS!Live, RS!Outcomes
  <2>4. QED
    BY <2>1, <2>3 DEF Calm, WaitingSubmitOwnsRecord, ClosedRecordHasNoLiveRun, EndRevokesInFlight
<1>7. ASSUME NEW t \in Tasks, PollStep(t) \/ Report(t) PROVE Calm'
  <2>1. Calm /\ UnderWay' = UnderWay
        /\ UNCHANGED <<record, run, submit, disturbed, snapshot, revoked>>
    BY <1>3, <1>7 DEF PollStep, PollReads, PollAdmits, PollSkips, PollPushes, Report
  <2>2. run # "none" \/ account[t] # "none" \/ poll[t] # "idle"
    BY <1>7 DEF PollStep, PollReads, PollAdmits, PollSkips, PollPushes, Report
  <2>3. NothingBeforeStart'
    BY <2>1, <2>2 DEF Calm, NothingBeforeStart
  <2>4. EndRevokesInFlight'
    <3>1. late \subseteq late' /\ \A u \in Tasks : account'[u] = "pushed" =>
            account[u] = "pushed" \/ (record \in Terminal => u \in late')
      BY <1>7, <1>t DEF PollStep, PollReads, PollAdmits, PollSkips, PollPushes, Report, TypeOK
    <3>2. QED
      BY <2>1, <3>1 DEF Calm, EndRevokesInFlight, Terminal
  <2>5. QED
    BY <2>1, <2>3, <2>4 DEF Calm, WaitingSubmitOwnsRecord, EndSeenIsEnd, ClosedRecordHasNoLiveRun
<1>8. ASSUME RunStep \/ SidecarDies PROVE Calm'
  <2>1. Calm /\ UnderWay' = UnderWay
        /\ UNCHANGED <<record, submit, disturbed, snapshot, account, poll, revoked, late>>
    BY <1>3, <1>8 DEF RunStep, SidecarDies
  <2>2. (run = "none" => run' = "none") /\ (run' \in RS!Live => run \in RS!Live)
    BY <1>8 DEF RunStep, SidecarDies, RS!Next, RS!Waits, RS!Executes, RS!Ends,
                RS!Overturned, RS!Live, RS!Outcomes
  <2>3. QED
    BY <2>1, <2>2 DEF Calm, WaitingSubmitOwnsRecord, NothingBeforeStart, EndSeenIsEnd,
                      ClosedRecordHasNoLiveRun, EndRevokesInFlight
<1>9. QED
  BY <1>1, <1>2, <1>4, <1>5, <1>6, <1>7, <1>8 DEF Next, ReaderStep

LEMMA SpecIInv == Spec => []IInv
<1>1. Init => IInv
  BY InitType
  DEF Init, IInv, WaitingSubmitOwnsRecord, UnderWay, NothingBeforeStart, EndSeenIsEnd,
      ClosedRecordHasNoLiveRun, EndRevokesInFlight, Terminal, RS!Outcomes
<1>2. IInv /\ [Next]_vars => IInv'
  BY StepIInv
<1>3. QED
  BY <1>1, <1>2, PTL DEF Spec

-----------------------------------------------------------------------------
(* The theorems *)

\* Every variable keeps its type: among others a reader only ever holds, across its
\* await, a record that was not over when it read it.
THEOREM TypeCorrect == Spec => []TypeOK
<1>1. IInv => TypeOK
  BY DEF IInv
<1>2. QED
  BY <1>1, SpecIInv, PTL

\* Whatever order submits and readers resume in, the record is never taken back, and
\* an end is never changed.
THEOREM GoesForward == Spec => RecordGoesForward
<1>1. IInv /\ [Next]_vars => [record' # record => Stage(record) < Stage(record')]_vars
  BY StepForward DEF IInv
<1>2. QED
  BY <1>1, SpecIInv, PTL DEF Spec, RecordGoesForward

\* A workflow recorded as over has no run under way, unless submits overlapped or the
\* answer to an accepted start was lost.
THEOREM ClosedHasNoLiveRun == Spec => []ClosedRecordHasNoLiveRun
<1>1. IInv => ClosedRecordHasNoLiveRun
  BY DEF IInv, ClosedRecordHasNoLiveRun
<1>2. QED
  BY <1>1, SpecIInv, PTL

\* With the end of a workflow every task then in flight is revoked, with the same
\* exceptions: whoever records the end, none is left behind.
THEOREM EndRevokes == Spec => []EndRevokesInFlight
<1>1. IInv => EndRevokesInFlight
  BY DEF IInv, EndRevokesInFlight
<1>2. QED
  BY <1>1, SpecIInv, PTL

=============================================================================
