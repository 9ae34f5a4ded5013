------------------------ MODULE DispatchPumpProofs --------------------------
(***************************************************************************)
(* Proofs about DispatchPump for any sets of endpoints, models, tasks,     *)
(* workflows and polls.                                                    *)
(***************************************************************************)
EXTENDS DispatchPump, TLAPS

LEMMA RebindType ==
  ASSUME TypeOK, NEW t \in Tasks, Recorded(t), NEW e \in Endpoints
  PROVE  Rebind(t, e) \in Entry
<1>1. account[t] \in Entry
  BY DEF TypeOK, Recorded
<1>2. QED
  BY <1>1 DEF Rebind, Entry, RequestIdFor, RequestId, Priority

LEMMA NewEntryType ==
  ASSUME NEW t \in Tasks, NEW e \in Endpoints
  PROVE  NewEntry(e, t) \in Entry
BY DEF NewEntry, Entry, RequestIdFor, RequestId, Priority

\* What a sweep can do to one account entry: leave it, or move an in-flight task
\* of an expired endpoint to a live endpoint with room for its model.
LEMMA SweepEffect ==
  ASSUME TypeOK, NEW acc \in AccountsAfterSweep
  PROVE  /\ acc \in [Tasks -> Entry \cup {None}]
         /\ \A t \in Tasks :
              \/ acc[t] = account[t]
              \/ /\ InFlight(t) /\ account[t].endpointId \in stale
                 /\ \E e \in Alive : /\ remaining[e][ModelOf[t]] >= 1
                                     /\ acc[t] = Rebind(t, e)
<1>1. PICK alt \in AlternativeChoices :
        acc = [t \in Tasks |->
                 IF InFlight(t) /\ account[t].endpointId \in stale /\ alt[ModelOf[t]] # None
                   THEN Rebind(t, alt[ModelOf[t]]) ELSE account[t]]
  BY DEF AccountsAfterSweep
<1>2. ASSUME NEW t \in Tasks, alt[ModelOf[t]] # None
      PROVE  alt[ModelOf[t]] \in Alive /\ remaining[alt[ModelOf[t]]][ModelOf[t]] >= 1
  <2>1. alt[ModelOf[t]] \in Alternatives(ModelOf[t])
    BY <1>2, ConstantsAssumption DEF AlternativeChoices
  <2>2. QED
    BY <2>1 DEF Alternatives
<1>3. ASSUME NEW t \in Tasks, InFlight(t), NEW e \in Alive
      PROVE  Rebind(t, e) \in Entry
  BY <1>3, RebindType DEF TypeOK, InFlight, Pushed, Alive
<1>4. ASSUME NEW t \in Tasks
      PROVE  /\ acc[t] \in Entry \cup {None}
             /\ \/ acc[t] = account[t]
                \/ /\ InFlight(t) /\ account[t].endpointId \in stale
                   /\ \E e \in Alive : /\ remaining[e][ModelOf[t]] >= 1
                                       /\ acc[t] = Rebind(t, e)
  <2>1. CASE InFlight(t) /\ account[t].endpointId \in stale /\ alt[ModelOf[t]] # None
    <3>1. acc[t] = Rebind(t, alt[ModelOf[t]])
      BY <1>1, <2>1
    <3>2. QED
      BY <3>1, <2>1, <1>2, <1>3
  <2>2. CASE ~(InFlight(t) /\ account[t].endpointId \in stale /\ alt[ModelOf[t]] # None)
    <3>1. acc[t] = account[t]
      BY <1>1, <2>2
    <3>2. QED
      BY <3>1 DEF TypeOK
  <2>3. QED
    BY <2>1, <2>2
<1>5. QED
  BY <1>1, <1>4

LEMMA SweepEntriesType ==
  ASSUME TypeOK, SweepEntries
  PROVE  /\ registered' \in SUBSET Endpoints /\ stale' \in SUBSET registered'
         /\ remaining' \in [Endpoints -> Capability]
         /\ dead' \in SUBSET Endpoints
<1>1. \A m \in Models : 0 \in 0..MaxRemaining
  BY ConstantsAssumption
<1>2. QED
  BY <1>1 DEF TypeOK, SweepEntries, Alive, Capability

-----------------------------------------------------------------------------
(* The inductive invariant *)

\* A poll between Admit and Resume: it holds a dispatch across an await.
Suspended(p) == pc[p] \in {"signing", "pushed", "deferred"}

\* What the typing of a step rests on: a poll that will mark or defer the task of
\* the message it holds finds an entry for it.
HeldRecorded ==
  \A p \in Polls : Suspended(p) => signed[p] \in Message /\ Recorded(signed[p].taskId)

Base == TypeOK /\ HeldRecorded

BoundOrDead(m) ==
  account[m.taskId].endpointId = m.endpointId \/ m.endpointId \in dead

\* A message names a recorded task, carries its endpoint's requestId, and goes to
\* the endpoint the task is bound to unless that endpoint has died.
Sound(m) ==
  /\ m \in Message /\ Recorded(m.taskId)
  /\ m.requestId = RequestIdFor(m.endpointId, m.taskId)
  /\ BoundOrDead(m)

HeldSound ==
  \A p \in Polls : Suspended(p) => Sound(signed[p]) /\ (pc[p] = "pushed" => signed[p] \in sent)

SentSound == \A m \in sent : Sound(m)

EntryIds ==
  \A t \in Tasks : Recorded(t) => account[t].requestId = RequestIdFor(account[t].endpointId, t)

\* Unreported: no notice ever.  Notice on its way: the first, and the only one.
OneNotice ==
  /\ \A t \in Tasks : ~Reported(t) => notified[t] = 0 /\ \A n \in notices : n.taskId # t
  /\ \A n \in notices : notified[n.taskId] = 0
  /\ \A n, k \in notices : n.taskId = k.taskId => n = k
  /\ NotifiedAtMostOnce

\* As long as ticks have not overlapped there is one poll, and what it holds is
\* unpushed and still bound to the endpoint it is about to be pushed to.
Serial ==
  ~overlapped =>
    /\ \A p, q \in Polls : pc[p] # "idle" /\ pc[q] # "idle" => p = q
    /\ \A p \in Polls : Suspended(p) =>
         /\ account[signed[p].taskId].endpointId = signed[p].endpointId
         /\ ~Pushed(signed[p].taskId)
    /\ PushedMeansSent

IInv == TypeOK /\ HeldSound /\ SentSound /\ EntryIds /\ OneNotice /\ Serial

LEMMA BaseHolds == IInv => Base
BY DEF IInv, Base, HeldRecorded, HeldSound, Sound

-----------------------------------------------------------------------------
(* What a step does to one account entry *)

EntryStep(t) ==
  \/ account'[t] = account[t]
  \/ account[t] = None /\ \E e \in Endpoints : account'[t] = NewEntry(e, t)
  \/ /\ InFlight(t) /\ account[t].endpointId \in stale /\ account[t].endpointId \in dead'
     /\ \E e \in Alive : /\ remaining[e][ModelOf[t]] >= 1
                         /\ account'[t] = Rebind(t, e)
                         /\ registered' = Alive /\ remaining'[e] = remaining[e]
  \/ /\ account[t] \in Entry /\ account'[t] = [account[t] EXCEPT !.pushed = TRUE]
     /\ \E p \in Polls : Resume(p) /\ pc[p] = "pushed" /\ signed[p].taskId = t
  \/ /\ FirstReport(t) /\ account'[t] = [account[t] EXCEPT !.reported = TRUE]

LEMMA EntryStepBase ==
  ASSUME Base, [Next]_vars, NEW t \in Tasks
  PROVE  EntryStep(t)
<1> USE DEF Base
<1>1. ASSUME UNCHANGED account PROVE EntryStep(t)
  BY <1>1 DEF EntryStep
<1>2. ASSUME SweepEntries, NEW acc \in AccountsAfterSweep, account'[t] = acc[t]
      PROVE  EntryStep(t)
  <2>1. CASE acc[t] = account[t]
    BY <1>2, <2>1 DEF EntryStep
  <2>2. CASE acc[t] # account[t]
    <3>1. InFlight(t) /\ account[t].endpointId \in stale
      BY <1>2, <2>2, SweepEffect
    <3>2. PICK e \in Alive : remaining[e][ModelOf[t]] >= 1 /\ acc[t] = Rebind(t, e)
      BY <1>2, <2>2, SweepEffect
    <3>3. registered' = Alive /\ remaining'[e] = remaining[e] /\ account[t].endpointId \in dead'
      BY <1>2, <3>1, <3>2 DEF SweepEntries, Alive, TypeOK
    <3>4. QED
      BY <1>2, <3>1, <3>2, <3>3 DEF EntryStep
  <2>3. QED
    BY <2>1, <2>2
<1>3. ASSUME NEW p \in Polls, NEW s \in Tasks, SkipNoRoom(p, s) PROVE EntryStep(t)
  BY <1>2, <1>3 DEF SkipNoRoom
<1>4. ASSUME StatusSweep PROVE EntryStep(t)
  BY <1>2, <1>4 DEF StatusSweep
<1>5. ASSUME NEW p \in Polls, NEW s \in Tasks, Admit(p, s) PROVE EntryStep(t)
  <2>1. PICK acc \in AccountsAfterSweep :
          account' = [acc EXCEPT ![s] = IF @ = None THEN NewEntry(TargetOf(s), s) ELSE @]
    BY <1>5 DEF Admit
  <2>2. acc \in [Tasks -> Entry \cup {None}] /\ SweepEntries
    BY <1>5, SweepEffect DEF Admit
  <2>3. CASE s = t /\ acc[t] = None
    <3>1. account[t] = None
      <4>1. SUFFICES ASSUME acc[t] # account[t] PROVE FALSE
        BY <2>3
      <4>2. PICK e \in Alive : acc[t] = Rebind(t, e)
        BY <4>1, SweepEffect
      <4>3. Recorded(t) /\ e \in Endpoints
        BY <4>1, SweepEffect DEF InFlight, Pushed, Alive, TypeOK
      <4>4. QED
        BY <4>2, <4>3, <2>3, RebindType, ConstantsAssumption
    <3>2. account'[t] = NewEntry(TargetOf(t), t) /\ TargetOf(t) \in Endpoints
      BY <2>1, <2>2, <2>3, <3>1, ConstantsAssumption DEF TargetOf, Recorded
    <3>3. QED
      BY <3>1, <3>2 DEF EntryStep
  <2>4. CASE ~(s = t /\ acc[t] = None)
    <3>1. account'[t] = acc[t]
      BY <2>1, <2>2, <2>4
    <3>2. QED
      BY <2>2, <3>1, <1>2
  <2>5. QED
    BY <2>3, <2>4
<1>6. ASSUME NEW p \in Polls, Resume(p) PROVE EntryStep(t)
  <2>1. signed[p].taskId \in Tasks /\ Recorded(signed[p].taskId)
    BY <1>6 DEF Resume, HeldRecorded, Suspended, Message
  <2>2. account[signed[p].taskId] \in Entry
    BY <2>1 DEF TypeOK, Recorded
  <2>3. CASE pc[p] = "pushed" /\ signed[p].taskId = t
    <3>1. account'[t] = [account[t] EXCEPT !.pushed = TRUE]
      BY <1>6, <2>1, <2>3 DEF Resume, TypeOK
    <3>2. QED
      BY <1>6, <2>2, <2>3, <3>1 DEF EntryStep
  <2>4. CASE ~(pc[p] = "pushed" /\ signed[p].taskId = t)
    <3>1. account'[t] = account[t]
      BY <1>6, <2>1, <2>4 DEF Resume, TypeOK
    <3>2. QED
      BY <3>1 DEF EntryStep
  <2>5. QED
    BY <2>3, <2>4
<1>7. ASSUME NEW m \in sent, NEW ok \in BOOLEAN, Report(m, ok) PROVE EntryStep(t)
  <2>1. m.taskId \in Tasks /\ FirstReport(m.taskId)
    BY <1>7 DEF Report, TypeOK, Message
  <2>2. account' = [account EXCEPT ![m.taskId].reported = TRUE]
    BY <1>7 DEF Report
  <2>3. QED
    BY <2>1, <2>2 DEF EntryStep, TypeOK
<1>8. QED
  BY <1>1, <1>3, <1>4, <1>5, <1>6, <1>7
  DEF Next, vars, Tick, PollStep, Ping, Status, SkipPushed, SkipOffline, Push, PollFails,
      Notify, NotifyFails, EndpointStep, Register, Heartbeat, TtlElapses, Connect,
      Disconnect, Emit, RunEnds

LEMMA EntryStepLemma ==
  ASSUME IInv, [Next]_vars, NEW t \in Tasks
  PROVE  EntryStep(t)
BY BaseHolds, EntryStepBase

\* No step forgets a task, and none moves it off an endpoint that has not died.
LEMMA BindingStableBase ==
  ASSUME Base, [Next]_vars, NEW t \in Tasks, Recorded(t)
  PROVE  /\ account'[t] \in Entry
         /\ \/ account'[t].endpointId = account[t].endpointId
            \/ account[t].endpointId \in dead'
<1>1. account[t] \in Entry /\ account[t] # None
  BY DEF Base, TypeOK, Recorded
<1>2. EntryStep(t)
  BY EntryStepBase
<1>3. ASSUME NEW e \in Alive, account'[t] = Rebind(t, e) PROVE account'[t] \in Entry
  BY <1>3, RebindType DEF Base, TypeOK, Alive
<1>4. ASSUME account'[t] = [account[t] EXCEPT !.pushed = TRUE]
      PROVE  account'[t] \in Entry /\ account'[t].endpointId = account[t].endpointId
  BY <1>1, <1>4 DEF Entry
<1>5. ASSUME account'[t] = [account[t] EXCEPT !.reported = TRUE]
      PROVE  account'[t] \in Entry /\ account'[t].endpointId = account[t].endpointId
  BY <1>1, <1>5 DEF Entry
<1>6. QED
  BY <1>1, <1>2, <1>3, <1>4, <1>5 DEF EntryStep

LEMMA BindingStable ==
  ASSUME IInv, [Next]_vars, NEW t \in Tasks, Recorded(t)
  PROVE  /\ account'[t] \in Entry
         /\ \/ account'[t].endpointId = account[t].endpointId
            \/ account[t].endpointId \in dead'
BY BaseHolds, BindingStableBase

LEMMA DeadGrows ==
  ASSUME [Next]_vars
  PROVE  dead \subseteq dead'
BY DEF Next, vars, Tick, PollStep, Ping, Status, SkipPushed, SkipOffline, SkipNoRoom,
       Admit, Push, Resume, PollFails, Report, Notify, NotifyFails, EndpointStep, Register,
       Heartbeat, TtlElapses, StatusSweep, Connect, Disconnect, Emit, RunEnds, SweepEntries

LEMMA SentGrows ==
  ASSUME [Next]_vars
  PROVE  sent \subseteq sent'
BY DEF Next, vars, Tick, PollStep, Ping, Status, SkipPushed, SkipOffline, SkipNoRoom,
       Admit, Push, Resume, PollFails, Report, Notify, NotifyFails, EndpointStep, Register,
       Heartbeat, TtlElapses, StatusSweep, Connect, Disconnect, Emit, RunEnds, SweepEntries

LEMMA SoundStable ==
  ASSUME IInv, [Next]_vars, NEW m, Sound(m)
  PROVE  Sound(m)'
<1>1. m.taskId \in Tasks /\ account[m.taskId] \in Entry
  BY DEF IInv, TypeOK, Sound, Message, Recorded
<1>2. account'[m.taskId] \in Entry
  BY <1>1, BindingStable DEF Sound
<1>3. BoundOrDead(m)'
  BY <1>1, BindingStable, DeadGrows DEF Sound, BoundOrDead
<1>4. QED
  BY <1>2, <1>3, ConstantsAssumption DEF Sound, Recorded

\* A poll is suspended because it was before, or because it has just admitted.
LEMMA SuspendedStep ==
  ASSUME TypeOK, [Next]_vars, NEW p \in Polls, Suspended(p)'
  PROVE  \/ Suspended(p) /\ signed'[p] = signed[p] /\ pc'[p] = pc[p]
         \/ Push(p) /\ Suspended(p) /\ signed'[p] = signed[p]
         \/ \E t \in Tasks : Admit(p, t)
<1> USE DEF TypeOK, Suspended
<1>1. ASSUME UNCHANGED <<pc, signed>> PROVE Suspended(p) /\ signed'[p] = signed[p] /\ pc'[p] = pc[p]
  BY <1>1
<1>2. ASSUME NEW q \in Polls, Tick(q) \/ Ping(q) \/ (\E w \in Workflows : Status(q, w))
      PROVE  Suspended(p) /\ signed'[p] = signed[p] /\ pc'[p] = pc[p]
  BY <1>2 DEF Tick, Ping, Status, After
<1>3. ASSUME NEW q \in Polls, NEW t \in Tasks,
             SkipPushed(q, t) \/ SkipOffline(q, t) \/ SkipNoRoom(q, t)
      PROVE  Suspended(p) /\ signed'[p] = signed[p] /\ pc'[p] = pc[p]
  BY <1>3 DEF SkipPushed, SkipOffline, SkipNoRoom, Skip, After
<1>4. ASSUME NEW q \in Polls, NEW t \in Tasks, Admit(q, t), p # q
      PROVE  Suspended(p) /\ signed'[p] = signed[p] /\ pc'[p] = pc[p]
  BY <1>4 DEF Admit
<1>5. ASSUME NEW q \in Polls, Push(q), p # q
      PROVE  Suspended(p) /\ signed'[p] = signed[p] /\ pc'[p] = pc[p]
  BY <1>5 DEF Push
<1>6. ASSUME Push(p) PROVE Suspended(p) /\ signed'[p] = signed[p]
  BY <1>6 DEF Push
<1>7. ASSUME NEW q \in Polls, Resume(q) \/ PollFails(q)
      PROVE  Suspended(p) /\ signed'[p] = signed[p] /\ pc'[p] = pc[p]
  BY <1>7 DEF Resume, PollFails, Abandon, After
<1>8. QED
  BY <1>1, <1>2, <1>3, <1>4, <1>5, <1>6, <1>7
  DEF Next, vars, pollVars, PollStep, Report, Notify, NotifyFails, EndpointStep,
      Register, Heartbeat, TtlElapses, StatusSweep, Connect, Disconnect, Emit, RunEnds

\* What a poll admits is sound: it has just read the account it checks against.
LEMMA AdmittedSound ==
  ASSUME TypeOK, NEW p \in Polls, NEW t \in Tasks, Admit(p, t)
  PROVE  /\ signed'[p].taskId = t /\ signed'[p].endpointId = TargetOf(t)
         /\ Sound(signed[p])' /\ pc'[p] = "signing"
         /\ account'[t] \in Entry /\ account'[t].endpointId = TargetOf(t)
         /\ ~account'[t].pushed
<1>1. TargetOf(t) \in Endpoints
  BY ConstantsAssumption DEF TypeOK, TargetOf, Recorded, Entry
<1>2. signed'[p] = [endpointId |-> TargetOf(t), taskId |-> t,
                    requestId |-> RequestIdFor(TargetOf(t), t), priority |-> "normal"]
      /\ pc'[p] = "signing"
  BY DEF Admit, TypeOK
<1>3. PICK acc \in AccountsAfterSweep :
        account' = [acc EXCEPT ![t] = IF @ = None THEN NewEntry(TargetOf(t), t) ELSE @]
  BY DEF Admit
<1>4. acc \in [Tasks -> Entry \cup {None}] /\ acc[t] = account[t]
  BY SweepEffect DEF Admit, PushedAlready, InFlight
<1>5. /\ account'[t] \in Entry /\ account'[t].endpointId = TargetOf(t)
      /\ ~account'[t].pushed
  <2>1. CASE account[t] = None
    <3>1. account'[t] = NewEntry(TargetOf(t), t)
      BY <1>3, <1>4, <2>1
    <3>2. QED
      BY <3>1, <1>1, NewEntryType DEF NewEntry
  <2>2. CASE account[t] # None
    <3>1. account'[t] = account[t]
      BY <1>3, <1>4, <2>2
    <3>2. QED
      BY <3>1, <2>2 DEF TypeOK, Admit, PushedAlready, Pushed, Recorded, TargetOf
  <2>3. QED
    BY <2>1, <2>2
<1>6. signed'[p] \in Message
  BY <1>1, <1>2 DEF Message, RequestIdFor, RequestId, Priority
<1>7. QED
  BY <1>2, <1>5, <1>6, ConstantsAssumption DEF Sound, Recorded, BoundOrDead, RequestIdFor

LEMMA HeldPreserved == IInv /\ [Next]_vars => HeldSound'
<1> SUFFICES ASSUME IInv, [Next]_vars, NEW p \in Polls, Suspended(p)'
             PROVE  Sound(signed[p])' /\ (pc'[p] = "pushed" => signed'[p] \in sent')
  BY DEF HeldSound
<1>1. CASE Suspended(p) /\ signed'[p] = signed[p] /\ pc'[p] = pc[p]
  <2>1. Sound(signed[p]) /\ (pc[p] = "pushed" => signed[p] \in sent)
    BY <1>1 DEF IInv, HeldSound
  <2>2. sent \subseteq sent'
    BY SentGrows
  <2>3. \A m : Sound(m) => Sound(m)'
    BY SoundStable
  <2>4. QED
    BY <1>1, <2>1, <2>2, <2>3 DEF Sound, Recorded, BoundOrDead
<1>2. CASE Push(p) /\ Suspended(p) /\ signed'[p] = signed[p]
  <2>1. Sound(signed[p])
    BY <1>2 DEF IInv, HeldSound
  <2>2. \A m : Sound(m) => Sound(m)'
    BY SoundStable
  <2>3. pc'[p] = "pushed" => signed[p] \in sent'
    BY <1>2 DEF Push, IInv, TypeOK
  <2>4. QED
    BY <1>2, <2>1, <2>2, <2>3 DEF Sound, Recorded, BoundOrDead
<1>3. CASE \E t \in Tasks : Admit(p, t)
  BY <1>3, AdmittedSound DEF IInv
<1>4. QED
  BY <1>1, <1>2, <1>3, SuspendedStep DEF IInv

LEMMA SentPreserved == IInv /\ [Next]_vars => SentSound'
<1> SUFFICES ASSUME IInv, [Next]_vars, NEW m \in sent' PROVE Sound(m)'
  BY DEF SentSound
<1>1. m \in sent \/ \E p \in Polls : Suspended(p) /\ m = signed[p]
  BY DEF Suspended, Next, vars, Tick, PollStep, Ping, Status, SkipPushed, SkipOffline,
     SkipNoRoom, Admit, Push, Resume, PollFails, Report, Notify, NotifyFails, EndpointStep,
     Register, Heartbeat, TtlElapses, StatusSweep, Connect, Disconnect, Emit, RunEnds
<1>2. Sound(m)
  BY <1>1 DEF IInv, SentSound, HeldSound
<1>3. QED
  BY <1>2, SoundStable

LEMMA IdsPreserved == IInv /\ [Next]_vars => EntryIds'
<1> SUFFICES ASSUME IInv, [Next]_vars, NEW t \in Tasks, Recorded(t)'
             PROVE  account'[t].requestId = RequestIdFor(account'[t].endpointId, t)
  BY DEF EntryIds, RequestIdFor
<1>1. EntryStep(t)
  BY EntryStepLemma
<1>2. Recorded(t) => /\ account[t] \in Entry
                     /\ account[t].requestId = RequestIdFor(account[t].endpointId, t)
  BY DEF IInv, EntryIds, TypeOK, Recorded
<1>3. ASSUME NEW e, account'[t] = NewEntry(e, t)
      PROVE  account'[t].requestId = RequestIdFor(account'[t].endpointId, t)
  BY <1>3 DEF NewEntry
<1>4. ASSUME NEW e \in Alive, InFlight(t), account'[t] = Rebind(t, e)
      PROVE  account'[t].requestId = RequestIdFor(account'[t].endpointId, t)
  BY <1>2, <1>4 DEF Rebind, InFlight, Pushed, Entry
<1>5. ASSUME Recorded(t), \/ account'[t] = [account[t] EXCEPT !.pushed = TRUE]
                          \/ account'[t] = [account[t] EXCEPT !.reported = TRUE]
      PROVE  account'[t].requestId = RequestIdFor(account'[t].endpointId, t)
  BY <1>2, <1>5 DEF Entry
<1>6. QED
  BY <1>1, <1>2, <1>3, <1>4, <1>5, ConstantsAssumption DEF EntryStep, Recorded, FirstReport

\* Only reports open notices, and only the sidecar's answers count them.
LEMMA OneNoticePreserved == IInv /\ [Next]_vars => OneNotice'
<1> SUFFICES ASSUME IInv, [Next]_vars PROVE OneNotice'
  OBVIOUS
<1> USE DEF OneNotice, NotifiedAtMostOnce
<1>1. notices \in SUBSET Notice /\ notified \in [Tasks -> Nat]
  BY DEF IInv, TypeOK
<1>2. \A t \in Tasks : Reported(t) => Reported(t)'
  <2> SUFFICES ASSUME NEW t \in Tasks, Reported(t) PROVE Reported(t)'
    OBVIOUS
  <2>1. account[t] \in Entry /\ EntryStep(t) /\ Recorded(t)'
    BY EntryStepLemma, BindingStable, ConstantsAssumption DEF Reported, Recorded, IInv, TypeOK
  <2>2. QED
    BY <2>1 DEF EntryStep, Reported, Recorded, Entry, InFlight, FirstReport
<1>3. ASSUME UNCHANGED <<notices, notified>> PROVE OneNotice'
  BY <1>2, <1>3 DEF IInv
<1>4. ASSUME NEW m \in sent, NEW ok \in BOOLEAN, Report(m, ok) PROVE OneNotice'
  <2>1. m.taskId \in Tasks /\ ~Reported(m.taskId) /\ account[m.taskId] \in Entry
    BY <1>4 DEF IInv, TypeOK, Message, Report, FirstReport, Reported, Recorded
  <2>2. account' = [account EXCEPT ![m.taskId].reported = TRUE]
    BY <1>4 DEF Report
  <2>3. Reported(m.taskId)'
    BY <2>1, <2>2, ConstantsAssumption DEF Reported, Recorded, IInv, TypeOK, Entry
  <2>4. notices' = notices \cup {[taskId |-> m.taskId, ok |-> ok]} /\ notified' = notified
    BY <1>4 DEF Report
  <2>5. notified[m.taskId] = 0 /\ \A n \in notices : n.taskId # m.taskId
    BY <2>1 DEF IInv
  <2>6. QED
    BY <1>1, <1>2, <2>3, <2>4, <2>5 DEF IInv, Notice
<1>5. ASSUME NEW n \in notices, Notify(n) PROVE OneNotice'
  <2>1. n.taskId \in Tasks /\ notified[n.taskId] = 0 /\ Reported(n.taskId)
    BY <1>1 DEF IInv, Notice
  <2>2. notices' = notices \ {n} /\ notified' = [notified EXCEPT ![n.taskId] = 1]
    BY <1>5, <1>1, <2>1 DEF Notify
  <2>3. QED
    BY <1>1, <1>2, <2>1, <2>2 DEF IInv
<1>6. ASSUME NEW n \in notices, NotifyFails(n) PROVE OneNotice'
  <2>1. notices' = notices \ {n} /\ notified' = notified
    BY <1>6 DEF NotifyFails
  <2>2. QED
    BY <1>1, <1>2, <2>1 DEF IInv
<1>7. QED
  BY <1>3, <1>4, <1>5, <1>6
  DEF Next, vars, Tick, PollStep, Ping, Status, SkipPushed, SkipOffline, SkipNoRoom,
      Admit, Push, Resume, PollFails, EndpointStep, Register, Heartbeat, TtlElapses,
      StatusSweep, Connect, Disconnect, Emit, RunEnds

\* A poll that is under way was so before, or is the one the tick has started.
LEMMA BusyStep ==
  ASSUME IInv, [Next]_vars, NEW p \in Polls, pc'[p] # "idle"
  PROVE  pc[p] # "idle" \/ Tick(p)
<1>1. CASE UNCHANGED pc
  BY <1>1
<1>2. CASE pc[p] # "idle"
  BY <1>2
<1>3. CASE pc[p] = "idle" /\ pc' # pc
  <2>1. ASSUME NEW q \in Polls, PollStep(q) PROVE pc[q] # "idle" /\ (p # q => pc'[p] = pc[p])
    BY <2>1 DEF PollStep, Ping, Status, SkipPushed, SkipOffline, SkipNoRoom, Skip, Admit,
                Push, Resume, IInv, TypeOK
  <2>2. ASSUME NEW q \in Polls, PollFails(q)
        PROVE  pc[q] # "idle" /\ (p # q => pc'[p] = pc[p])
    BY <2>2 DEF PollFails, Abandon, IInv, TypeOK
  <2>3. ASSUME NEW q \in Polls, Tick(q), p # q PROVE pc'[p] = pc[p]
    BY <2>3 DEF Tick, IInv, TypeOK
  <2>4. QED
    BY <1>3, <2>1, <2>2, <2>3
    DEF Next, vars, pollVars, Report, Notify, NotifyFails, EndpointStep, Register,
        Heartbeat, TtlElapses, StatusSweep, Connect, Disconnect, Emit, RunEnds
<1>4. QED
  BY <1>1, <1>2, <1>3

\* With one poll at a time nobody else marks, and so nobody rebinds, what it holds.
LEMMA SerialPreserved == IInv /\ [Next]_vars => Serial'
<1> SUFFICES ASSUME IInv, [Next]_vars, ~overlapped' PROVE Serial'
  BY DEF Serial
<1>1. ~overlapped /\ \A p \in Polls : Tick(p) => \A q \in Polls : pc[q] = "idle"
  BY DEF Next, vars, Tick, PollStep, Ping, Status, SkipPushed, SkipOffline, SkipNoRoom,
     Admit, Push, Resume, PollFails, Report, Notify, NotifyFails, EndpointStep, Register,
     Heartbeat, TtlElapses, StatusSweep, Connect, Disconnect, Emit, RunEnds, IInv, TypeOK
<1>2. /\ \A p, q \in Polls : pc[p] # "idle" /\ pc[q] # "idle" => p = q
      /\ \A p \in Polls : Suspended(p) =>
           /\ account[signed[p].taskId].endpointId = signed[p].endpointId
           /\ ~Pushed(signed[p].taskId)
      /\ PushedMeansSent
  BY <1>1 DEF IInv, Serial
<1>3. ASSUME NEW p \in Polls, NEW q \in Polls, pc'[p] # "idle", pc'[q] # "idle"
      PROVE  p = q
  <2>1. ASSUME NEW r \in Polls, NEW s \in Polls, Tick(r), s # r PROVE pc'[s] = "idle"
    BY <1>1, <2>1 DEF Tick, IInv, TypeOK
  <2>2. CASE Tick(p) \/ Tick(q)
    BY <1>3, <2>1, <2>2
  <2>3. CASE ~Tick(p) /\ ~Tick(q)
    BY <1>2, <1>3, <2>3, BusyStep
  <2>4. QED
    BY <2>2, <2>3
<1>4. ASSUME NEW p \in Polls, Suspended(p)'
      PROVE  /\ account'[signed'[p].taskId].endpointId = signed'[p].endpointId
             /\ ~Pushed(signed[p].taskId)'
  <2>1. CASE \E t \in Tasks : Admit(p, t)
    BY <2>1, AdmittedSound DEF Pushed, IInv
  <2>2. CASE Suspended(p) /\ signed'[p] = signed[p]
    <3> DEFINE t == signed[p].taskId
    <3>1. t \in Tasks /\ Recorded(t) /\ account[t] \in Entry
      BY <2>2 DEF IInv, TypeOK, HeldSound, Sound, Message, Recorded
    <3>2. account[t].endpointId = signed[p].endpointId /\ ~Pushed(t)
      BY <1>2, <2>2
    <3>3. EntryStep(t)
      BY <3>1, EntryStepLemma
    <3>4. ~\E q \in Polls : Resume(q) /\ pc[q] = "pushed"
      <4>1. ASSUME NEW q \in Polls, Resume(q), pc[q] = "pushed" PROVE FALSE
        <5>1. q = p
          BY <1>2, <2>2, <4>1 DEF Suspended
        <5>2. ~Suspended(p)'
          BY <4>1, <5>1 DEF Resume, After, Suspended, IInv, TypeOK
        <5>3. QED
          BY <1>4, <5>2
      <4>2. QED
        BY <4>1
    <3>5. \/ account'[t] = account[t]
          \/ account'[t] = [account[t] EXCEPT !.reported = TRUE]
      BY <3>1, <3>2, <3>3, <3>4 DEF EntryStep, Recorded, InFlight
    <3>6. account'[t].endpointId = account[t].endpointId /\ account'[t].pushed = account[t].pushed
      BY <3>1, <3>5 DEF Entry
    <3>7. QED
      BY <2>2, <3>1, <3>2, <3>6 DEF Pushed, Recorded
  <2>3. QED
    BY <1>4, <2>1, <2>2, SuspendedStep DEF IInv
<1>5. ASSUME NEW t \in Tasks, Pushed(t)'
      PROVE  \E m \in sent' : m.taskId = t /\ m.endpointId = account'[t].endpointId
  <2>1. EntryStep(t)
    BY EntryStepLemma
  <2>2. CASE account'[t] = account[t]
    BY <1>2, <1>5, <2>2, SentGrows DEF PushedMeansSent, Pushed, Recorded
  <2>3. CASE account[t] = None /\ \E e \in Endpoints : account'[t] = NewEntry(e, t)
    BY <1>5, <2>3 DEF NewEntry, Pushed
  <2>4. CASE InFlight(t) /\ \E e \in Alive : account'[t] = Rebind(t, e)
    <3>1. account[t] \in Entry
      BY <2>4 DEF InFlight, Pushed, Recorded, IInv, TypeOK
    <3>2. ~account'[t].pushed
      BY <2>4, <3>1 DEF Rebind, Entry
    <3>3. QED
      BY <1>5, <3>2 DEF Pushed
  <2>5. CASE /\ account[t] \in Entry /\ account'[t] = [account[t] EXCEPT !.pushed = TRUE]
             /\ \E p \in Polls : Resume(p) /\ pc[p] = "pushed" /\ signed[p].taskId = t
    <3>1. PICK p \in Polls : pc[p] = "pushed" /\ signed[p].taskId = t
      BY <2>5
    <3>2. signed[p] \in sent /\ account[t].endpointId = signed[p].endpointId
      BY <1>2, <3>1 DEF IInv, HeldSound, Suspended
    <3>3. account'[t].endpointId = account[t].endpointId
      BY <2>5 DEF Entry
    <3>4. QED
      BY <3>1, <3>2, <3>3, SentGrows
  <2>6. CASE FirstReport(t) /\ account'[t] = [account[t] EXCEPT !.reported = TRUE]
    <3>1. account[t] \in Entry
      BY <2>6 DEF FirstReport, Recorded, IInv, TypeOK
    <3>2. account'[t].endpointId = account[t].endpointId /\ account'[t].pushed = account[t].pushed
      BY <2>6, <3>1 DEF Entry
    <3>3. Pushed(t)
      BY <1>5, <2>6, <3>2 DEF Pushed, FirstReport
    <3>4. QED
      BY <1>2, <3>2, <3>3, SentGrows DEF PushedMeansSent
  <2>7. QED
    BY <2>1, <2>2, <2>3, <2>4, <2>5, <2>6 DEF EntryStep
<1>6. QED
  BY <1>3, <1>4, <1>5 DEF Serial, PushedMeansSent, Suspended, Pushed, Recorded

\* The account stays a function into entries: every handler updates known tasks.
LEMMA AccountType ==
  ASSUME Base, [Next]_vars
  PROVE  account' \in [Tasks -> Entry \cup {None}]
<1> USE DEF Base, TypeOK
<1>1. CASE UNCHANGED account
  BY <1>1
<1>2. ASSUME account' \in AccountsAfterSweep PROVE account' \in [Tasks -> Entry \cup {None}]
  BY <1>2, SweepEffect
<1>3. ASSUME NEW p \in Polls, NEW t \in Tasks, Admit(p, t)
      PROVE  account' \in [Tasks -> Entry \cup {None}]
  <2>1. PICK acc \in AccountsAfterSweep :
          account' = [acc EXCEPT ![t] = IF @ = None THEN NewEntry(TargetOf(t), t) ELSE @]
    BY <1>3 DEF Admit
  <2>2. acc \in [Tasks -> Entry \cup {None}] /\ NewEntry(TargetOf(t), t) \in Entry
    BY SweepEffect, NewEntryType, ConstantsAssumption DEF TargetOf, Recorded, Entry
  <2>3. QED
    BY <2>1, <2>2
<1>4. ASSUME NEW p \in Polls, Resume(p)
      PROVE  account' \in [Tasks -> Entry \cup {None}]
  <2>1. signed[p].taskId \in Tasks /\ account[signed[p].taskId] \in Entry
    BY <1>4 DEF Resume, HeldRecorded, Suspended, Message, Recorded
  <2>2. QED
    BY <1>4, <2>1 DEF Resume, Entry
<1>5. ASSUME NEW m \in sent, NEW ok \in BOOLEAN, Report(m, ok)
      PROVE  account' \in [Tasks -> Entry \cup {None}]
  <2>1. m.taskId \in Tasks /\ account[m.taskId] \in Entry
    BY <1>5 DEF Report, FirstReport, Recorded, Message
  <2>2. QED
    BY <1>5, <2>1 DEF Report, Entry
<1>6. QED
  BY <1>1, <1>2, <1>3, <1>4, <1>5
  DEF Next, vars, Tick, PollStep, Ping, Status, SkipPushed, SkipOffline, SkipNoRoom,
      Push, PollFails, Notify, NotifyFails, EndpointStep, Register, Heartbeat, TtlElapses,
      StatusSweep, Connect, Disconnect, Emit, RunEnds

LEMMA RegistryType ==
  ASSUME TypeOK, [Next]_vars
  PROVE  /\ registered' \in SUBSET Endpoints /\ stale' \in SUBSET registered'
         /\ remaining' \in [Endpoints -> Capability]
         /\ online' \in SUBSET Endpoints /\ dead' \in SUBSET Endpoints
<1> USE DEF TypeOK
<1>1. CASE UNCHANGED <<registryVars, online, dead>>
  BY <1>1 DEF registryVars
<1>2. CASE SweepEntries /\ UNCHANGED online
  BY <1>2, SweepEntriesType
<1>3. ASSUME NEW e \in Endpoints, EndpointStep(e)
      PROVE  /\ registered' \in SUBSET Endpoints /\ stale' \in SUBSET registered'
             /\ remaining' \in [Endpoints -> Capability]
             /\ online' \in SUBSET Endpoints /\ dead' \in SUBSET Endpoints
  BY <1>3 DEF EndpointStep, Register, Heartbeat, TtlElapses, Connect, Disconnect, registryVars
<1>4. QED
  BY <1>1, <1>2, <1>3
  DEF Next, vars, Tick, PollStep, Ping, Status, SkipPushed, SkipOffline, SkipNoRoom, Admit,
      Push, Resume, PollFails, Report, Notify, NotifyFails, StatusSweep, Emit, RunEnds

LEMMA PollType ==
  ASSUME TypeOK, [Next]_vars
  PROVE  /\ pc' \in [Polls -> PollState]
         /\ workflows' \in [Polls -> SUBSET Workflows]
         /\ pending' \in [Polls -> SUBSET Tasks]
         /\ signed' \in [Polls -> Message \cup {None}]
<1> USE DEF TypeOK, PollState
<1>1. CASE UNCHANGED pollVars
  BY <1>1 DEF pollVars
<1>2. ASSUME NEW p \in Polls, NEW t \in Tasks, Admit(p, t)
      PROVE  /\ pc' \in [Polls -> PollState] /\ workflows' \in [Polls -> SUBSET Workflows]
             /\ pending' \in [Polls -> SUBSET Tasks] /\ signed' \in [Polls -> Message \cup {None}]
  <2>1. TargetOf(t) \in Endpoints
    BY ConstantsAssumption DEF TargetOf, Recorded, Entry
  <2>2. QED
    BY <1>2, <2>1 DEF Admit, Message, RequestIdFor, RequestId, Priority
<1>3. ASSUME NEW p \in Polls, NEW t \in Tasks, SkipPushed(p, t) \/ SkipOffline(p, t) \/ SkipNoRoom(p, t)
      PROVE  /\ pc' \in [Polls -> PollState] /\ workflows' \in [Polls -> SUBSET Workflows]
             /\ pending' \in [Polls -> SUBSET Tasks] /\ signed' \in [Polls -> Message \cup {None}]
  BY <1>3 DEF SkipPushed, SkipOffline, SkipNoRoom, Skip, After
<1>4. ASSUME NEW p \in Polls, Tick(p) \/ Ping(p) \/ (\E w \in Workflows : Status(p, w))
                                 \/ Push(p) \/ Resume(p) \/ PollFails(p)
      PROVE  /\ pc' \in [Polls -> PollState] /\ workflows' \in [Polls -> SUBSET Workflows]
             /\ pending' \in [Polls -> SUBSET Tasks] /\ signed' \in [Polls -> Message \cup {None}]
  BY <1>4 DEF Tick, Ping, Status, Push, Resume, PollFails, Abandon, After
<1>5. QED
  BY <1>1, <1>2, <1>3, <1>4
  DEF Next, vars, PollStep, Report, Notify, NotifyFails, EndpointStep, Register,
      Heartbeat, TtlElapses, StatusSweep, Connect, Disconnect, Emit, RunEnds, pollVars

LEMMA EnvironmentType ==
  ASSUME TypeOK, [Next]_vars, sent' \in SUBSET Message
  PROVE  /\ notices' \in SUBSET Notice /\ notified' \in [Tasks -> Nat]
         /\ emitted' \in SUBSET Tasks /\ active' \in SUBSET Workflows
         /\ sent' \in SUBSET Message
         /\ overlapped' \in BOOLEAN /\ faults' \in 0..MaxFaults
<1> USE ConstantsAssumption DEF TypeOK
<1>1. sent' \in SUBSET Message
  OBVIOUS
<1>2. overlapped' \in BOOLEAN /\ faults' \in 0..MaxFaults
  <2>1. CASE Fault /\ UNCHANGED overlapped
    <3>1. faults' \in 0..MaxFaults
      BY <2>1 DEF Fault
    <3>2. overlapped' \in BOOLEAN
      BY <2>1
    <3>3. QED
      BY <3>1, <3>2
  <2>2. CASE UNCHANGED <<overlapped, faults>>
    BY <2>2
  <2>3. ASSUME NEW p \in Polls, Tick(p) PROVE overlapped' \in BOOLEAN /\ UNCHANGED faults
    BY <2>3, Zenon DEF Tick
  <2>4. \/ Fault /\ UNCHANGED overlapped
        \/ UNCHANGED <<overlapped, faults>>
        \/ \E p \in Polls : Tick(p)
    BY DEF Next, vars, PollStep, Ping, Status, SkipPushed, SkipOffline, SkipNoRoom, Admit,
        Push, Resume, PollFails, Report, Notify, NotifyFails, EndpointStep, Register,
        Heartbeat, TtlElapses, StatusSweep, Connect, Disconnect, Emit, RunEnds
  <2>5. CASE \E p \in Polls : Tick(p)
    <3>1. overlapped' \in BOOLEAN /\ faults' = faults
      BY <2>3, <2>5
    <3>2. QED
      BY <3>1, Zenon
  <2>6. QED
    BY <2>1, <2>2, <2>4, <2>5
<1>3. notices' \in SUBSET Notice /\ notified' \in [Tasks -> Nat]
  <2>1. CASE UNCHANGED <<notices, notified>>
    BY <2>1
  <2>2. ASSUME NEW m \in sent, NEW ok \in BOOLEAN, Report(m, ok)
        PROVE  notices' \in SUBSET Notice /\ notified' \in [Tasks -> Nat]
    <3>1. [taskId |-> m.taskId, ok |-> ok] \in Notice
      BY DEF Notice, Message
    <3>2. QED
      BY <2>2, <3>1 DEF Report
  <2>3. ASSUME NEW n \in notices, Notify(n) \/ NotifyFails(n)
        PROVE  notices' \in SUBSET Notice /\ notified' \in [Tasks -> Nat]
    BY <2>3 DEF Notify, NotifyFails, Notice
  <2>4. \/ UNCHANGED <<notices, notified>>
        \/ \E m \in sent, ok \in BOOLEAN : Report(m, ok)
        \/ \E n \in notices : Notify(n) \/ NotifyFails(n)
    BY DEF Next, vars, Tick, PollStep, Ping, Status, SkipPushed, SkipOffline, SkipNoRoom, Admit,
        Push, Resume, PollFails, EndpointStep, Register, Heartbeat, TtlElapses, StatusSweep,
        Connect, Disconnect, Emit, RunEnds
  <2>5. QED
    BY <2>1, <2>2, <2>3, <2>4
<1>4. emitted' \in SUBSET Tasks /\ active' \in SUBSET Workflows
  BY DEF Next, vars, Tick, PollStep, Ping, Status, SkipPushed, SkipOffline, SkipNoRoom,
      Admit, Push, Resume, PollFails, Report, Notify, NotifyFails, EndpointStep, Register,
      Heartbeat, TtlElapses, StatusSweep, Connect, Disconnect, Emit, RunEnds, sidecarVars
<1>5. QED
  BY <1>1, <1>2, <1>3, <1>4

LEMMA InitInductive == Init => IInv
<1> SUFFICES ASSUME Init PROVE IInv
  OBVIOUS
<1>1. TypeOK
  <2>1. remaining \in [Endpoints -> Capability] /\ faults \in 0..MaxFaults
    BY ConstantsAssumption DEF Init, Capability
  <2>2. overlapped \in BOOLEAN
    BY DEF Init
  <2>3. QED
    BY <2>1, <2>2 DEF Init, TypeOK, PollState
<1>2. HeldSound /\ SentSound /\ EntryIds /\ OneNotice /\ Serial
  BY DEF Init, HeldSound, SentSound, EntryIds, OneNotice, NotifiedAtMostOnce, Serial,
         Suspended, Recorded, Pushed, PushedMeansSent
<1>3. QED
  BY <1>1, <1>2 DEF IInv

LEMMA StepInductive == IInv /\ [Next]_vars => IInv'
<1> SUFFICES ASSUME IInv, [Next]_vars PROVE IInv'
  OBVIOUS
<1>1. HeldSound' /\ SentSound' /\ EntryIds' /\ OneNotice' /\ Serial'
  BY HeldPreserved, SentPreserved, IdsPreserved, OneNoticePreserved, SerialPreserved
<1>2. TypeOK'
  <2>1. TypeOK /\ Base /\ sent' \in SUBSET Message
    BY <1>1, BaseHolds DEF IInv, SentSound, Sound
  <2>2. QED
    BY <2>1, AccountType, RegistryType, PollType, EnvironmentType DEF TypeOK
<1>3. QED
  BY <1>1, <1>2 DEF IInv

THEOREM Inductive == Spec => []IInv
BY InitInductive, StepInductive, PTL DEF Spec

-----------------------------------------------------------------------------
(* The theorems *)

\* Every variable keeps its type: no handler leaves a malformed account entry, and
\* no poll loses the dispatch it holds across an await.
THEOREM TypeCorrect == Spec => []TypeOK
<1>1. IInv => TypeOK
  BY DEF IInv
<1>2. QED
  BY Inductive, <1>1, PTL

\* Whatever polls, sweeps, reassignments and late reports do, the sidecar is told
\* at most once that a task is complete.
THEOREM NotifiedOnce == Spec => []NotifiedAtMostOnce
<1>1. IInv => NotifiedAtMostOnce
  BY DEF IInv, OneNotice
<1>2. QED
  BY Inductive, <1>1, PTL

\* A task is sent to a second endpoint only after the first was declared dead,
\* with any number of overlapping polls holding stale bindings across awaits.
THEOREM SecondExecutor == Spec => []SecondExecutorOnlyAfterDeath
<1>1. IInv => SecondExecutorOnlyAfterDeath
  BY DEF IInv, SentSound, Sound, BoundOrDead, SecondExecutorOnlyAfterDeath
<1>2. QED
  BY Inductive, <1>1, PTL

\* requestId and endpointId never come apart, in the account or on the wire.
THEOREM RequestIds == Spec => []RequestIdNamesEndpoint
<1>1. IInv => RequestIdNamesEndpoint
  BY DEF IInv, SentSound, Sound, EntryIds, RequestIdNamesEndpoint
<1>2. QED
  BY Inductive, <1>1, PTL

\* Without overlapping ticks, `pushed` always means that the entry's endpoint was
\* sent the task.
THEOREM PushedMeansSentSerially == Spec => []PushedMeansSentWithoutOverlap
<1>1. IInv => PushedMeansSentWithoutOverlap
  BY DEF IInv, Serial, PushedMeansSentWithoutOverlap
<1>2. QED
  BY Inductive, <1>1, PTL

\* A step moves a task to another endpoint only while it is in flight on one that
\* the same step expires, only to a live endpoint with room, and unpushes it.
THEOREM Rebinding == Spec => RebindOnlyOnExpiry
<1>1. ASSUME IInv, [Next]_vars, NEW t \in Tasks, Recorded(t), account'[t] # None,
             account'[t].endpointId # account[t].endpointId
      PROVE  /\ InFlight(t) /\ ~account'[t].pushed
             /\ account[t].endpointId \in registered \ registered'
             /\ account'[t].endpointId \in registered'
             /\ remaining'[account'[t].endpointId][ModelOf[t]] >= 1
  <2>1. EntryStep(t) /\ account[t] \in Entry
    BY <1>1, EntryStepLemma DEF IInv, TypeOK, Recorded
  <2>2. PICK e \in Alive : /\ remaining[e][ModelOf[t]] >= 1
                           /\ account'[t] = Rebind(t, e)
                           /\ registered' = Alive /\ remaining'[e] = remaining[e]
                           /\ InFlight(t) /\ account[t].endpointId \in stale
    BY <1>1, <2>1 DEF EntryStep, Entry, Recorded
  <2>3. account'[t].endpointId = e /\ ~account'[t].pushed
    BY <2>1, <2>2 DEF Rebind, Entry
  <2>4. QED
    <3>1. InFlight(t) /\ ~account'[t].pushed
      BY <2>2, <2>3
    <3>2. account[t].endpointId \in registered \ registered'
      BY <1>1, <2>2 DEF Alive, IInv, TypeOK
    <3>3. account'[t].endpointId \in registered'
      BY <2>2, <2>3
    <3>4. remaining'[account'[t].endpointId][ModelOf[t]] >= 1
      BY <2>2, <2>3
    <3>5. QED
      BY <3>1, <3>2, <3>3, <3>4
<1>2. IInv /\ [Next]_vars =>
        [\A t \in Tasks :
           Recorded(t) /\ account'[t] # None /\ account'[t].endpointId # account[t].endpointId =>
             /\ InFlight(t) /\ ~account'[t].pushed
             /\ account[t].endpointId \in registered \ registered'
             /\ account'[t].endpointId \in registered'
             /\ remaining'[account'[t].endpointId][ModelOf[t]] >= 1]_vars
  BY <1>1
<1>3. QED
  BY Inductive, <1>2, PTL DEF Spec, RebindOnlyOnExpiry

\* The control plane implements the abstract delivery of results: each of its steps
\* opens, settles, delivers or loses one task's result, or changes none of them.
THEOREM Refinement == Spec => DeliverySpec
<1>1. Init => Delivery!Init
  BY DEF Init, Delivery!Init, Phase, Recorded
<1>2. IInv /\ [Next]_vars => [Delivery!Next]_(Delivery!vars)
  <2> SUFFICES ASSUME IInv, [Next]_vars
               PROVE  Delivery!Next \/ UNCHANGED Delivery!vars
    OBVIOUS
  <2>1. CASE UNCHANGED <<account, notices, notified>>
    BY <2>1 DEF Delivery!vars, Phase, Recorded
  <2>2. ASSUME NEW acc \in AccountsAfterSweep, NEW t \in Tasks
        PROVE  (acc[t] = None <=> account[t] = None)
               /\ (account[t] # None => acc[t].reported = account[t].reported)
    <3>1. CASE acc[t] = account[t]
      BY <3>1
    <3>2. CASE acc[t] # account[t]
      <4>1. PICK e \in Alive : InFlight(t) /\ acc[t] = Rebind(t, e)
        BY <3>2, SweepEffect DEF IInv
      <4>2. Recorded(t) /\ account[t] \in Entry /\ e \in Endpoints
        BY <4>1 DEF InFlight, Pushed, Recorded, IInv, TypeOK, Alive
      <4>3. acc[t] \in Entry /\ acc[t].reported = account[t].reported
        BY <4>1, <4>2, RebindType DEF IInv, Rebind, Entry
      <4>4. QED
        BY <4>2, <4>3, ConstantsAssumption DEF Recorded
    <3>3. QED
      BY <3>1, <3>2
  <2>3. CASE account' \in AccountsAfterSweep /\ UNCHANGED <<notices, notified>>
    <3>1. \A t \in Tasks : Phase(t)' = Phase(t)
      BY <2>2, <2>3 DEF Phase, Recorded
    <3>2. QED
      BY <2>3, <3>1 DEF Delivery!vars
  <2>4. ASSUME NEW p \in Polls, NEW s \in Tasks, Admit(p, s)
        PROVE  Delivery!Next \/ UNCHANGED Delivery!vars
    <3>1. PICK acc \in AccountsAfterSweep :
            account' = [acc EXCEPT ![s] = IF @ = None THEN NewEntry(TargetOf(s), s) ELSE @]
      BY <2>4 DEF Admit
    <3>2. acc \in [Tasks -> Entry \cup {None}] /\ NewEntry(TargetOf(s), s) \in Entry
      BY SweepEffect, NewEntryType, ConstantsAssumption
      DEF IInv, TypeOK, TargetOf, Recorded, Entry
    <3>3. \A t \in Tasks \ {s} : Phase(t)' = Phase(t)
      BY <2>2, <3>1, <3>2 DEF Phase, Recorded
    <3>4. notices' = notices /\ notified' = notified
      BY <2>4 DEF Admit
    <3>5. CASE account[s] = None
      <4>1. account'[s] = NewEntry(TargetOf(s), s)
        BY <2>2, <3>1, <3>2, <3>5
      <4>2. Phase(s) = "unknown" /\ Phase(s)' = "open"
        <5>1. account'[s] # None
          BY <3>2, <4>1, ConstantsAssumption
        <5>2. account'[s].reported = FALSE
          BY <4>1 DEF NewEntry
        <5>3. QED
          BY <3>5, <5>1, <5>2 DEF Phase, Recorded
      <4>3. Delivery!Open(s)
        BY <3>3, <3>4, <4>2 DEF Delivery!Open
      <4>4. QED
        BY <4>3 DEF Delivery!Next
    <3>6. CASE account[s] # None
      <4>1. Phase(s)' = Phase(s)
        BY <2>2, <3>1, <3>2, <3>6 DEF Phase, Recorded
      <4>2. QED
        BY <3>3, <3>4, <4>1 DEF Delivery!vars
    <3>7. QED
      BY <3>5, <3>6
  <2>5. ASSUME NEW p \in Polls, Resume(p)
        PROVE  UNCHANGED Delivery!vars
    <3>1. signed[p].taskId \in Tasks /\ account[signed[p].taskId] \in Entry
      BY <2>5 DEF Resume, IInv, TypeOK, HeldSound, Suspended, Sound, Message, Recorded
    <3>2. \A t \in Tasks : Phase(t)' = Phase(t)
      BY <2>5, <3>1, ConstantsAssumption DEF Resume, Phase, Recorded, IInv, TypeOK, Entry
    <3>3. QED
      BY <2>5, <3>2 DEF Resume, Delivery!vars
  <2>6. ASSUME NEW m \in sent, NEW ok \in BOOLEAN, Report(m, ok)
        PROVE  Delivery!Next
    <3> DEFINE s == m.taskId
    <3>1. s \in Tasks /\ FirstReport(s) /\ account[s] \in Entry
      BY <2>6 DEF Report, FirstReport, Recorded, IInv, TypeOK, Message
    <3>2. account' = [account EXCEPT ![s].reported = TRUE]
      BY <2>6 DEF Report
    <3>3. Phase(s) = "open" /\ Phase(s)' = "settled"
      BY <3>1, <3>2, ConstantsAssumption
      DEF Phase, Recorded, FirstReport, IInv, TypeOK, Entry
    <3>4. \A t \in Tasks \ {s} : Phase(t)' = Phase(t)
      BY <3>1, <3>2 DEF Phase, Recorded, IInv, TypeOK
    <3>5. {n.taskId : n \in notices'} = {n.taskId : n \in notices} \cup {s}
      <4>1. notices' = notices \cup {[taskId |-> s, ok |-> ok]}
        BY <2>6 DEF Report
      <4>2. [taskId |-> s, ok |-> ok].taskId = s
        OBVIOUS
      <4>3. QED
        BY <4>1, <4>2
    <3>6. Delivery!Settle(s)
      BY <2>6, <3>1, <3>3, <3>4, <3>5 DEF Report, Delivery!Settle
    <3>7. QED
      BY <3>1, <3>6 DEF Delivery!Next
  <2>7. ASSUME NEW n \in notices
        PROVE  /\ n.taskId \in Tasks
               /\ notices' = notices \ {n} =>
                    {k.taskId : k \in notices'} = {k.taskId : k \in notices} \ {n.taskId}
    <3>1. \A k \in notices : k.taskId = n.taskId => k = n
      BY DEF IInv, OneNotice
    <3>2. QED
      BY <3>1 DEF IInv, TypeOK, Notice
  <2>8. ASSUME NEW n \in notices, Notify(n) PROVE Delivery!Next
    <3>1. account' = account /\ notices' = notices \ {n}
          /\ notified' = [notified EXCEPT ![n.taskId] = @ + 1]
      BY <2>8 DEF Notify
    <3>2. Delivery!Deliver(n.taskId)
      BY <2>7, <3>1 DEF Delivery!Deliver, Phase, Recorded
    <3>3. QED
      BY <2>7, <3>2 DEF Delivery!Next
  <2>9. ASSUME NEW n \in notices, NotifyFails(n) PROVE Delivery!Next
    <3>1. account' = account /\ notices' = notices \ {n} /\ notified' = notified
      BY <2>9 DEF NotifyFails
    <3>2. Delivery!Lose(n.taskId)
      BY <2>7, <3>1 DEF Delivery!Lose, Phase, Recorded
    <3>3. QED
      BY <2>7, <3>2 DEF Delivery!Next
  <2>10. QED
    BY <2>1, <2>3, <2>4, <2>5, <2>6, <2>8, <2>9
    DEF Next, vars, Tick, PollStep, Ping, Status, SkipPushed, SkipOffline, SkipNoRoom, Push,
        PollFails, EndpointStep, Register, Heartbeat, TtlElapses, StatusSweep, Connect,
        Disconnect, Emit, RunEnds
<1>3. QED
  BY Inductive, <1>1, <1>2, PTL DEF Spec, DeliverySpec, Delivery!Spec

=============================================================================
