------------------------- MODULE LedgerRecoveryProofs ------------------------
(***************************************************************************)
(* Proofs about LedgerRecovery for any instance of the pump, either store  *)
(* and any number of crashes.  What DispatchPumpProofs shows of a step of  *)
(* the pump is used where it rests on the types alone: its inductive       *)
(* invariant does not survive a crash.                                     *)
(***************************************************************************)
EXTENDS LedgerRecovery, DispatchPumpProofs

\* A task whose last write to land says `reported` has a row that says so.
DurableInTable == \A t \in durable : table[t] # None /\ table[t].reported

\* What a crash found reported is reported again after the restart, or is forgotten.
AnsweredKnown == up => \A t \in answered : Reported(t) \/ t \in forgotten

\* The sidecar can have heard of a task only if it is reported, or was at a crash.
\* Until a report is forgotten there is one notice: on its way, or counted.
NoticesCounted ==
  /\ \A n \in notices :
       Reported(n.taskId) \/ n.taskId \in answered
  /\ \A t \in Tasks : notified[t] > 0 => Reported(t) \/ t \in answered
  /\ \A t \in Tasks \ forgotten : notified[t] <= 1
  /\ \A n \in notices : n.taskId \notin forgotten =>
       notified[n.taskId] = 0 /\ \A k \in notices : k.taskId = n.taskId => k = n

\* While the control plane is down nothing of it is left.
NothingLeft ==
  ~up => (\A p \in Polls : pc[p] = "idle") /\ (\A t \in Tasks : account[t] = None)

RInv ==
  /\ RecoveryTypeOK /\ HeldRecorded /\ NothingLeft
  /\ DurableInTable /\ AnsweredKnown /\ NoticesCounted

NoticeInv == AnsweredKnown /\ NoticesCounted

LEMMA RBase == RInv => Base
BY DEF RInv, Base, RecoveryTypeOK

-----------------------------------------------------------------------------
(* Steps of the pump *)

LEMMA ReportedStays ==
  ASSUME Base, [Next]_vars, NEW t \in Tasks, Reported(t)
  PROVE  Reported(t)'
<1>1. account[t] \in Entry /\ EntryStep(t) /\ Recorded(t)'
  BY EntryStepBase, BindingStableBase, ConstantsAssumption
  DEF Reported, Recorded, Base, TypeOK
<1>2. QED
  BY <1>1 DEF EntryStep, Reported, Recorded, Entry, InFlight, FirstReport

\* A poll still holds a recorded task: no step of the pump forgets one.
LEMMA HeldRecordedKept == Base /\ [Next]_vars => HeldRecorded'
<1> SUFFICES ASSUME Base, [Next]_vars, NEW p \in Polls, Suspended(p)'
             PROVE  signed'[p] \in Message /\ Recorded(signed[p].taskId)'
  BY DEF HeldRecorded
<1>1. CASE Suspended(p) /\ signed'[p] = signed[p]
  <2>1. signed[p] \in Message /\ Recorded(signed[p].taskId) /\ signed[p].taskId \in Tasks
    BY <1>1 DEF Base, HeldRecorded, Message
  <2>2. account'[signed[p].taskId] \in Entry
    BY <2>1, BindingStableBase
  <2>3. QED
    BY <1>1, <2>1, <2>2, ConstantsAssumption DEF Recorded
<1>2. CASE \E t \in Tasks : Admit(p, t)
  BY <1>2, AdmittedSound DEF Base, Sound, Recorded
<1>3. QED
  BY <1>1, <1>2, SuspendedStep DEF Base

LEMMA SentType ==
  ASSUME Base, [Next]_vars
  PROVE  sent' \in SUBSET Message
<1>1. ASSUME NEW m \in sent' PROVE m \in sent \/ \E p \in Polls : Suspended(p) /\ m = signed[p]
  BY DEF Suspended, Next, vars, Tick, PollStep, Ping, Status, SkipPushed, SkipOffline,
     SkipNoRoom, Admit, Push, Resume, PollFails, Report, Notify, NotifyFails, EndpointStep,
     Register, Heartbeat, TtlElapses, StatusSweep, Connect, Disconnect, Emit, RunEnds
<1>2. QED
  BY <1>1 DEF Base, TypeOK, HeldRecorded

LEMMA PumpType == Base /\ [Next]_vars => TypeOK'
<1> SUFFICES ASSUME Base, [Next]_vars PROVE TypeOK'
  OBVIOUS
<1>1. TypeOK /\ sent' \in SUBSET Message
  BY SentType DEF Base
<1>2. QED
  BY <1>1, AccountType, RegistryType, PollType, EnvironmentType DEF TypeOK

\* Reports open notices, the sidecar's answers count them, and a first report of a
\* task that was reported before a crash is one the restart has forgotten.
LEMMA NoticesKept ==
  ASSUME RInv, [Next]_vars, up \/ UNCHANGED account,
         UNCHANGED <<up, answered, forgotten>>
  PROVE  NoticeInv'
<1>1. Base /\ notices \in SUBSET Notice /\ notified \in [Tasks -> Nat]
  BY RBase DEF RInv, RecoveryTypeOK, TypeOK
<1>2. \A t \in Tasks : Reported(t) => Reported(t)'
  BY <1>1, ReportedStays
<1>3. answered \subseteq Tasks /\ answered' = answered /\ forgotten' = forgotten
  BY DEF RInv, RecoveryTypeOK
<1>4. AnsweredKnown'
  BY <1>2, <1>3 DEF RInv, AnsweredKnown
<1>5. \A n \in notices : n.taskId \in Tasks
  BY <1>1 DEF Notice
<1>6. CASE UNCHANGED <<notices, notified>>
  <2>1. NoticesCounted'
    BY <1>2, <1>3, <1>5, <1>6 DEF RInv, NoticesCounted
  <2>2. QED
    BY <1>4, <2>1 DEF NoticeInv
<1>7. ASSUME NEW m \in sent, NEW ok \in BOOLEAN, Report(m, ok) PROVE NoticeInv'
  <2> DEFINE s == m.taskId
  <2>1. s \in Tasks /\ ~Reported(s) /\ account[s] \in Entry
    BY <1>1, <1>7 DEF Base, TypeOK, Message, Report, FirstReport, Reported, Recorded
  <2>2. account' = [account EXCEPT ![s].reported = TRUE]
    BY <1>7 DEF Report
  <2>3. Reported(s)' /\ account' # account
    <3>1. account' = [account EXCEPT ![s] = [account[s] EXCEPT !.reported = TRUE]]
      BY <2>2
    <3>2. account'[s] = [account[s] EXCEPT !.reported = TRUE] /\ account'[s] \in Entry
      BY <1>1, <2>1, <3>1 DEF Base, TypeOK, Entry
    <3>3. Reported(s)'
      BY <2>1, <3>2, ConstantsAssumption DEF Reported, Recorded, Entry
    <3>4. QED
      BY <2>1, <3>3 DEF Reported, Recorded
  <2>4. s \in answered => s \in forgotten
    BY <2>1, <2>3 DEF RInv, AnsweredKnown
  <2>5. s \notin forgotten => notified[s] = 0 /\ \A n \in notices : n.taskId # s
    BY <1>1, <2>1, <2>4 DEF RInv, NoticesCounted
  <2>6. notices' = notices \cup {[taskId |-> s, ok |-> ok]} /\ notified' = notified
    BY <1>7 DEF Report
  <2>7. NoticesCounted'
    BY <1>1, <1>2, <1>3, <1>5, <2>1, <2>3, <2>5, <2>6 DEF RInv, NoticesCounted
  <2>8. QED
    BY <1>4, <2>7 DEF NoticeInv
<1>8. ASSUME NEW n \in notices, Notify(n) PROVE NoticeInv'
  <2>1. notices' = notices \ {n} /\ notified' = [notified EXCEPT ![n.taskId] = @ + 1]
    BY <1>8 DEF Notify
  <2>2. /\ n.taskId \in Tasks /\ (Reported(n.taskId) \/ n.taskId \in answered)
        /\ n.taskId \notin forgotten => notified[n.taskId] = 0 /\ notified'[n.taskId] = 1
    BY <1>1, <1>5, <2>1 DEF RInv, NoticesCounted
  <2>3. \A k \in notices' : k.taskId \notin forgotten => k.taskId # n.taskId
    BY <2>1 DEF RInv, NoticesCounted
  <2>4. \A t \in Tasks : t # n.taskId => notified'[t] = notified[t]
    BY <1>1, <2>1
  <2>5. NoticesCounted'
    BY <1>1, <1>2, <1>3, <1>5, <2>1, <2>2, <2>3, <2>4 DEF RInv, NoticesCounted
  <2>6. QED
    BY <1>4, <2>5 DEF NoticeInv
<1>9. ASSUME NEW n \in notices, NotifyFails(n) PROVE NoticeInv'
  <2>1. notices' = notices \ {n} /\ notified' = notified
    BY <1>9 DEF NotifyFails
  <2>2. NoticesCounted'
    BY <1>2, <1>3, <1>5, <2>1 DEF RInv, NoticesCounted
  <2>3. QED
    BY <1>4, <2>2 DEF NoticeInv
<1>10. QED
  BY <1>6, <1>7, <1>8, <1>9
  DEF Next, vars, Tick, PollStep, Ping, Status, SkipPushed, SkipOffline, SkipNoRoom,
      Admit, Push, Resume, PollFails, EndpointStep, Register, Heartbeat, TtlElapses,
      StatusSweep, Connect, Disconnect, Emit, RunEnds

LEMMA UpsertType ==
  ASSUME NEW row \in Entry \cup {None}, NEW entry \in Entry
  PROVE  /\ Upsert(row, entry) \in Entry
         /\ Upsert(row, entry).reported = entry.reported
BY DEF Upsert, Entry

\* Every entry a step changes is well formed, and so is the write it starts.
LEMMA PersistedType ==
  ASSUME Base, [Next]_vars
  PROVE  Persisted \in SUBSET Write
<1>1. ASSUME NEW t \in Tasks, account'[t] # account[t] PROVE account'[t] \in Entry
  <2>1. CASE Recorded(t)
    BY <2>1, BindingStableBase
  <2>2. CASE ~Recorded(t)
    <3>1. EntryStep(t)
      BY EntryStepBase
    <3>2. \E e \in Endpoints : account'[t] = NewEntry(e, t)
      BY <1>1, <2>2, <3>1, ConstantsAssumption
      DEF EntryStep, Recorded, InFlight, Pushed, FirstReport
    <3>3. QED
      BY <3>2, NewEntryType
  <2>3. QED
    BY <2>1, <2>2
<1>2. QED
  BY <1>1 DEF Persisted, Write

-----------------------------------------------------------------------------
(* The steps of the recovery *)

LEMMA InitRInv == RecoveryInit => RInv
<1> SUFFICES ASSUME RecoveryInit PROVE RInv
  OBVIOUS
<1>1. Init /\ IInv /\ Base
  BY InitInductive, BaseHolds DEF RecoveryInit
<1>2. RecoveryTypeOK
  <2>1. crashes \in 0..MaxCrashes
    BY RecoveryAssumption DEF RecoveryInit
  <2>2. table \in [Tasks -> Entry \cup {None}]
    BY <1>1 DEF RecoveryInit, Base, TypeOK
  <2>3. kind \in Store /\ up \in BOOLEAN /\ runsLost \in BOOLEAN /\ ledger \in SUBSET Workflows
    BY DEF RecoveryInit
  <2>4. QED
    BY <1>1, <2>1, <2>2, <2>3 DEF RecoveryInit, RecoveryTypeOK, Base
<1>3. HeldRecorded /\ NothingLeft /\ DurableInTable /\ AnsweredKnown
  BY <1>1 DEF Base, RecoveryInit, NothingLeft, DurableInTable, AnsweredKnown
<1>4. NoticesCounted
  BY <1>1 DEF Init, NoticesCounted
<1>5. QED
  BY <1>2, <1>3, <1>4 DEF RInv

LEMMA StepRInv == RInv /\ [RecoveryNext]_<<vars, recoveryVars>> => RInv'
<1> SUFFICES ASSUME RInv, [RecoveryNext]_<<vars, recoveryVars>> PROVE RInv'
  OBVIOUS
<1>b. Base /\ RecoveryTypeOK /\ TypeOK
  BY RBase DEF RInv, RecoveryTypeOK
<1>1. CASE UNCHANGED <<vars, recoveryVars>>
  BY <1>1
  DEF vars, recoveryVars, RInv, RecoveryTypeOK, TypeOK, HeldRecorded, Suspended, Recorded,
      NothingLeft, DurableInTable, AnsweredKnown, NoticesCounted, Reported
<1>2. CASE ControlPlane(Next /\ TakesBoundOnly)
  <2>1. Next /\ up /\ UNCHANGED <<kind, up, table, ledger, runsLost, crashes, durable, answered, forgotten>>
    BY <1>2 DEF ControlPlane
  <2>2. HeldRecorded' /\ TypeOK' /\ NoticeInv'
    BY <1>b, <2>1, HeldRecordedKept, PumpType, NoticesKept
  <2>3. writes' \in SUBSET Write
    BY <1>2, <1>b, <2>1, PersistedType DEF ControlPlane, RecoveryTypeOK
  <2>4. resent' \in SUBSET Tasks
    <3>1. \A p \in Polls : pc[p] = "signing" => signed[p].taskId \in Tasks
      BY <1>b DEF Base, HeldRecorded, Suspended, Message
    <3>2. resent' = resent \cup {signed[p].taskId : p \in {q \in Polls : pc[q] = "signing" /\ pc'[q] = "pushed"}}
      BY <1>2 DEF ControlPlane
    <3>3. QED
      BY <1>b, <3>1, <3>2 DEF RecoveryTypeOK
  <2>5. RecoveryTypeOK' /\ DurableInTable' /\ NothingLeft'
    BY <1>b, <2>1, <2>2, <2>3, <2>4 DEF RecoveryTypeOK, RInv, DurableInTable, NothingLeft
  <2>6. QED
    BY <2>2, <2>5 DEF RInv, NoticeInv
<1>3. CASE SidecarAlone
  <2>1. Next /\ UNCHANGED recoveryVars /\ UNCHANGED <<account, pc>>
    BY <1>3 DEF SidecarAlone, Next, Notify, Emit, RunEnds, pollVars
  <2>2. HeldRecorded' /\ TypeOK' /\ NoticeInv'
    BY <1>b, <2>1, HeldRecordedKept, PumpType, NoticesKept DEF recoveryVars
  <2>3. RecoveryTypeOK' /\ DurableInTable' /\ NothingLeft'
    BY <1>b, <2>1, <2>2 DEF recoveryVars, RecoveryTypeOK, RInv, DurableInTable, NothingLeft
  <2>4. QED
    BY <2>2, <2>3 DEF RInv, NoticeInv
<1>4. ASSUME NEW w \in writes, Lands(w) PROVE RInv'
  <2>1. w.taskId \in Tasks /\ w.entry \in Entry /\ table[w.taskId] \in Entry \cup {None}
    BY <1>b DEF RecoveryTypeOK, Write
  <2>2. /\ table' = [table EXCEPT ![w.taskId] = Upsert(table[w.taskId], w.entry)]
        /\ durable' = IF w.entry.reported THEN durable \cup {w.taskId} ELSE durable \ {w.taskId}
        /\ writes' = writes \ {w}
        /\ UNCHANGED <<vars, kind, up, ledger, runsLost, crashes, resent, answered, forgotten>>
    BY <1>4 DEF Lands
  <2>3. /\ Upsert(table[w.taskId], w.entry) \in Entry
        /\ Upsert(table[w.taskId], w.entry).reported = w.entry.reported
    BY <2>1, UpsertType
  <2>4. TypeOK' /\ HeldRecorded' /\ NothingLeft' /\ AnsweredKnown' /\ NoticesCounted'
    BY <2>2 DEF RInv, RecoveryTypeOK, TypeOK, vars, HeldRecorded, Suspended, Recorded,
                NothingLeft, AnsweredKnown, NoticesCounted, Reported
  <2>5. RecoveryTypeOK'
    BY <1>b, <2>1, <2>2, <2>3, <2>4 DEF RecoveryTypeOK
  <2>6. DurableInTable'
    BY <1>b, <2>1, <2>2, <2>3, ConstantsAssumption DEF RInv, RecoveryTypeOK, DurableInTable
  <2>7. QED
    BY <2>4, <2>5, <2>6 DEF RInv
<1>5. ASSUME NEW w \in writes, WriteFails(w) PROVE RInv'
  <2>1. faults' \in 0..MaxFaults
    BY <1>5, <1>b, ConstantsAssumption DEF WriteFails, Fault, TypeOK
  <2>2. TypeOK' /\ RecoveryTypeOK'
    BY <1>5, <1>b, <2>1 DEF WriteFails, TypeOK, RecoveryTypeOK, registryVars, pollVars, sidecarVars
  <2>3. /\ HeldRecorded' /\ NothingLeft' /\ AnsweredKnown'
        /\ NoticesCounted' /\ DurableInTable'
    BY <1>5 DEF WriteFails, RInv, registryVars, pollVars, sidecarVars, HeldRecorded, Suspended,
                Recorded, NothingLeft, AnsweredKnown, NoticesCounted, Reported, DurableInTable
  <2>4. QED
    BY <2>2, <2>3 DEF RInv
<1>6. CASE Crash
  <2>1. TypeOK'
    <3>1. \A m \in Models : 0 \in 0..MaxRemaining
      BY ConstantsAssumption
    <3>2. remaining' \in [Endpoints -> Capability]
      BY <1>6, <3>1 DEF Crash, Capability
    <3>3. QED
      BY <1>6, <1>b, <3>2 DEF Crash, TypeOK, PollState, sidecarVars
  <2>2. RecoveryTypeOK'
    <3>1. crashes' \in 0..MaxCrashes
      BY <1>6, <1>b, RecoveryAssumption DEF Crash, RecoveryTypeOK
    <3>2. up' \in BOOLEAN /\ answered' \in SUBSET Tasks /\ ledger' \in SUBSET Workflows
      BY <1>6, <1>b DEF Crash, RecoveryTypeOK
    <3>3. UNCHANGED <<kind, runsLost, table, writes, durable, resent, forgotten>>
      BY <1>6 DEF Crash, storeVars
    <3>4. QED
      BY <1>b, <2>1, <3>1, <3>2, <3>3 DEF RecoveryTypeOK
  <2>3. HeldRecorded' /\ NothingLeft' /\ AnsweredKnown' /\ DurableInTable'
    BY <1>6 DEF Crash, HeldRecorded, Suspended, NothingLeft, AnsweredKnown, DurableInTable,
                storeVars, RInv
  <2>4. NoticesCounted'
    <3>1. \A t \in Tasks : Reported(t) => t \in answered'
      BY <1>6 DEF Crash
    <3>2. answered \subseteq answered' /\ notices' \subseteq notices
          /\ UNCHANGED <<notified, forgotten>>
      BY <1>6 DEF Crash
    <3>3. \A n \in notices : n.taskId \in Tasks
      BY <1>b DEF TypeOK, Notice
    <3>4. QED
      BY <3>1, <3>2, <3>3 DEF RInv, NoticesCounted
  <2>5. QED
    BY <2>2, <2>3, <2>4 DEF RInv
<1>7. CASE Restart
  <2>1. ~up /\ up' = TRUE /\ account' = [t \in Tasks |-> Recovered(table[t])]
        /\ forgotten' = forgotten \cup (answered \ durable) /\ resent' = {}
        /\ UNCHANGED <<notices, notified, answered, table, durable, pc, signed>>
    BY <1>7 DEF Restart, Hydrated, storeVars, pollVars
  <2>2. ASSUME NEW row \in Entry \cup {None}
        PROVE  /\ Recovered(row) \in Entry \cup {None}
               /\ row # None => Recovered(row) # None /\ Recovered(row).reported = row.reported
    <3>1. CASE row = None
      BY <3>1 DEF Recovered
    <3>2. CASE row \in Entry
      <4>1. Recovered(row) \in Entry /\ Recovered(row).reported = row.reported
        BY <3>2 DEF Recovered, Entry
      <4>2. QED
        BY <4>1, ConstantsAssumption
    <3>3. QED
      BY <3>1, <3>2
  <2>3. account' \in [Tasks -> Entry \cup {None}]
    BY <1>b, <2>1, <2>2 DEF RecoveryTypeOK
  <2>4. TypeOK' /\ RecoveryTypeOK'
    <3>1. TypeOK'
      BY <1>7, <1>b, <2>3 DEF Restart, TypeOK, registryVars, pollVars, sidecarVars
    <3>2. ledger' \in SUBSET Workflows
      BY <1>7 DEF Restart, RecordsFound
    <3>3. QED
      BY <1>7, <1>b, <3>1, <3>2 DEF Restart, RecoveryTypeOK, storeVars
  <2>5. \A t \in answered : Reported(t)' \/ t \in forgotten'
    <3> SUFFICES ASSUME NEW t \in answered, t \in durable PROVE Reported(t)'
      BY <2>1
    <3>1. t \in Tasks /\ table[t] \in Entry /\ table[t].reported
      BY <1>b DEF RInv, DurableInTable, RecoveryTypeOK
    <3>2. QED
      BY <2>1, <2>2, <3>1, ConstantsAssumption DEF Reported, Recorded
  <2>6. AnsweredKnown' /\ DurableInTable'
    BY <2>1, <2>5 DEF AnsweredKnown, DurableInTable, RInv
  <2>7. HeldRecorded' /\ NothingLeft'
    BY <2>1 DEF RInv, NothingLeft, HeldRecorded, Suspended
  <2>8. NoticesCounted'
    <3>1. \A t \in Tasks : ~Reported(t)
      BY <2>1 DEF RInv, NothingLeft, Reported, Recorded
    <3>2. \A n \in notices : n.taskId \in Tasks
      BY <1>b DEF TypeOK, Notice
    <3>3. QED
      BY <2>1, <3>1, <3>2 DEF RInv, NoticesCounted
  <2>9. QED
    BY <2>4, <2>6, <2>7, <2>8 DEF RInv
<1>8. CASE SidecarDies
  <2>1. TypeOK' /\ RecoveryTypeOK'
    BY <1>8, <1>b DEF SidecarDies, TypeOK, RecoveryTypeOK, registryVars, pollVars, storeVars
  <2>2. /\ HeldRecorded' /\ NothingLeft' /\ AnsweredKnown'
        /\ NoticesCounted' /\ DurableInTable'
    BY <1>8 DEF SidecarDies, RInv, registryVars, pollVars, storeVars, HeldRecorded, Suspended,
                Recorded, NothingLeft, AnsweredKnown, NoticesCounted, Reported, DurableInTable
  <2>3. QED
    BY <2>1, <2>2 DEF RInv
<1>9. ASSUME NEW p \in Polls, NEW t \in Tasks, ControlPlane(SkipUnbound(p, t)) PROVE RInv'
  <2>1. /\ pc[p] = "loop" /\ up
        /\ pending' = [pending EXCEPT ![p] = @ \ {t}]
        /\ pc' = [pc EXCEPT ![p] = After(pending[p] \ {t}, workflows[p])]
        /\ UNCHANGED <<registryVars, online, account, notices, sidecarVars, sent, notified,
                       dead, overlapped, faults, workflows, signed>>
        /\ UNCHANGED <<kind, up, table, ledger, runsLost, crashes, durable, answered, forgotten>>
    BY <1>9 DEF ControlPlane, SkipUnbound, Skip
  <2>2. pc'[p] \in PollState \ {"signing", "pushed", "deferred"}
        /\ \A q \in Polls \ {p} : pc'[q] = pc[q]
    BY <1>b, <2>1 DEF TypeOK, After, PollState
  <2>3. TypeOK'
    BY <1>b, <2>1, <2>2 DEF TypeOK, registryVars, sidecarVars
  <2>4. Persisted = {} /\ writes' = writes /\ resent' = resent
    <3>1. Persisted = {}
      BY <2>1 DEF Persisted
    <3>2. {signed[q].taskId : q \in {r \in Polls : pc[r] = "signing" /\ pc'[r] = "pushed"}} = {}
      BY <2>1, <2>2
    <3>3. QED
      BY <1>9, <3>1, <3>2 DEF ControlPlane
  <2>5. RecoveryTypeOK'
    BY <1>b, <2>1, <2>3, <2>4 DEF RecoveryTypeOK
  <2>6. HeldRecorded'
    BY <2>1, <2>2 DEF RInv, HeldRecorded, Suspended, Recorded
  <2>7. NothingLeft' /\ DurableInTable' /\ AnsweredKnown' /\ NoticesCounted'
    BY <2>1 DEF RInv, NothingLeft, DurableInTable, AnsweredKnown, NoticesCounted, Reported,
                Recorded
  <2>8. QED
    BY <2>5, <2>6, <2>7 DEF RInv
<1>10. QED
  BY <1>1, <1>2, <1>3, <1>4, <1>5, <1>6, <1>7, <1>8, <1>9 DEF RecoveryNext

LEMMA SpecRInv == RecoverySpec => []RInv
<1>1. RecoveryInit => RInv
  BY InitRInv
<1>2. RInv /\ [RecoveryNext]_<<vars, recoveryVars>> => RInv'
  BY StepRInv
<1>3. QED
  BY <1>1, <1>2, PTL DEF RecoverySpec

-----------------------------------------------------------------------------
(* The theorems *)

\* What the account, the rows and the writes under way hold stays well formed through
\* crashes and restarts, whatever writes land late or never.
THEOREM RecoveryTypeCorrect == RecoverySpec => []RecoveryTypeOK
<1>1. RInv => RecoveryTypeOK
  BY DEF RInv
<1>2. QED
  BY <1>1, SpecRInv, PTL

\* The waiting node hears twice only of a task whose report the restart did not find
\* in the table: with any number of crashes, polls and writes in any order.
THEOREM NoticeRepeated == RecoverySpec => []NoticeRepeatedOnlyAfterLostReport
<1>1. RInv => NoticeRepeatedOnlyAfterLostReport
  BY DEF RInv, RecoveryTypeOK, TypeOK, NoticesCounted, NoticeRepeatedOnlyAfterLostReport
<1>2. QED
  BY <1>1, SpecRInv, PTL

=============================================================================
