------------------------ MODULE EndpointDaemonProofs -------------------------
(***************************************************************************)
(* Proofs about EndpointDaemon for any lanes, any depth limits, any order  *)
(* of the lanes and any tasks.                                             *)
(***************************************************************************)
EXTENDS EndpointDaemon, SequenceTheorems, TLAPS

\* What has been promised to the server is free, and a lane that refused a dispatch
\* has promised nothing since.
PromisedIsFree == \A m \in Models : Queued(m) + allowance[m] <= Depth[m]

\* A queue with one copy of a task at most; two queues without a task in common; a
\* queue whose doomed copies are all marked.
Distinct(queue) ==
  \A i, j \in DOMAIN queue : queue[i].taskId = queue[j].taskId => i = j
Apart(queue, other) ==
  \A i \in DOMAIN queue, j \in DOMAIN other : queue[i].taskId # other[j].taskId
DoomedMarked(queue, marks) ==
  \A i \in DOMAIN queue : queue[i].doomed => queue[i].taskId \in marks

SoundLane(queue, other, marks) ==
  /\ Distinct(queue) /\ Distinct(other) /\ Apart(queue, other)
  /\ DoomedMarked(queue, marks) /\ DoomedMarked(other, marks)

\* While no task has been queued twice, a mark is taken off a lane only with the one
\* copy it is for: every other doomed copy still has its own.
UniqueAreMarked ==
  ~duplicated => /\ \A m \in Models : SoundLane(normal[m], compensation[m], revoked[m])
                 /\ RevokedCopyNotStarted

IInv == TypeOK /\ PromisedIsFree /\ RefusedOnlyOnOvercommit /\ UniqueAreMarked

-----------------------------------------------------------------------------
(* Queues *)

\* Without its first copy a queue is shorter by one, and holds nothing new.
LEMMA TailOfQueue ==
  ASSUME NEW queue \in Seq(Copy), queue # <<>>
  PROVE  /\ Head(queue) = queue[1] /\ 1 \in DOMAIN queue /\ Head(queue) \in Copy
         /\ Tail(queue) \in Seq(Copy)
         /\ Len(Tail(queue)) = Len(queue) - 1
         /\ \A i \in DOMAIN Tail(queue) : i + 1 \in DOMAIN queue /\ i + 1 # 1
                                          /\ Tail(queue)[i] = queue[i + 1]
<1>1. Len(queue) \in Nat \ {0} /\ DOMAIN queue = 1..Len(queue)
  BY EmptySeq, LenProperties
<1>2. /\ Tail(queue) \in Seq(Copy) /\ Head(queue) \in Copy
      /\ Len(Tail(queue)) = Len(queue) - 1
      /\ \A i \in 1..Len(Tail(queue)) : Tail(queue)[i] = queue[i + 1]
  BY HeadTailProperties
<1>3. DOMAIN Tail(queue) = 1..Len(Tail(queue))
  BY <1>2, LenProperties
<1>4. Head(queue) = queue[1]
  OBVIOUS
<1>5. QED
  BY <1>1, <1>2, <1>3, <1>4

LEMMA AppendToQueue ==
  ASSUME NEW queue \in Seq(Copy), NEW copy \in Copy
  PROVE  /\ Append(queue, copy) \in Seq(Copy)
         /\ Len(Append(queue, copy)) = Len(queue) + 1
         /\ \A i \in DOMAIN Append(queue, copy) :
              \/ i \in DOMAIN queue /\ Append(queue, copy)[i] = queue[i]
              \/ i = Len(queue) + 1 /\ Append(queue, copy)[i] = copy
<1>1. /\ Append(queue, copy) \in Seq(Copy)
      /\ Len(Append(queue, copy)) = Len(queue) + 1
      /\ \A i \in 1..Len(queue) : Append(queue, copy)[i] = queue[i]
      /\ Append(queue, copy)[Len(queue) + 1] = copy
  BY AppendProperties
<1>2. Len(queue) \in Nat /\ DOMAIN queue = 1..Len(queue)
  BY LenProperties
<1>3. DOMAIN Append(queue, copy) = 1..(Len(queue) + 1)
  BY <1>1, LenProperties
<1>4. QED
  BY <1>1, <1>2, <1>3

\* A revocation changes no more of a queue than the marks in history.
LEMMA DoomQueue ==
  ASSUME NEW queue \in Seq(Copy), NEW t \in Tasks
  PROVE  /\ Doom(queue, t) \in Seq(Copy)
         /\ Len(Doom(queue, t)) = Len(queue) /\ DOMAIN Doom(queue, t) = DOMAIN queue
         /\ \A i \in DOMAIN queue :
              /\ Doom(queue, t)[i].taskId = queue[i].taskId
              /\ Doom(queue, t)[i].doomed => queue[i].doomed \/ queue[i].taskId = t
<1>1. /\ Len(queue) \in Nat /\ DOMAIN queue = 1..Len(queue)
      /\ \A i \in DOMAIN queue : queue[i] \in Copy
  BY LenProperties, ElementOfSeq
<1>2. \A i \in DOMAIN queue :
        /\ Doom(queue, t)[i] \in Copy
        /\ Doom(queue, t)[i].taskId = queue[i].taskId
        /\ Doom(queue, t)[i].doomed => queue[i].doomed \/ queue[i].taskId = t
  BY <1>1 DEF Doom, Copy
<1>3. Doom(queue, t) \in [1..Len(queue) -> Copy]
  BY <1>1, <1>2 DEF Doom
<1>4. Doom(queue, t) \in Seq(Copy) /\ Len(Doom(queue, t)) = Len(queue)
  BY <1>1, <1>3, SeqDef
<1>5. QED
  BY <1>1, <1>2, <1>3, <1>4

-----------------------------------------------------------------------------
(* One lane *)

\* The tiers play the same part.
LEMMA SoundLaneEitherWay ==
  ASSUME NEW queue, NEW other, NEW marks, SoundLane(queue, other, marks)
  PROVE  SoundLane(other, queue, marks)
BY DEF SoundLane, Apart

LEMMA PopKeepsLane ==
  ASSUME NEW queue \in Seq(Copy), queue # <<>>, NEW other \in Seq(Copy), NEW marks,
         SoundLane(queue, other, marks)
  PROVE  /\ SoundLane(Tail(queue), other, marks)
         /\ SoundLane(Tail(queue), other, marks \ {Head(queue).taskId})
         /\ Head(queue).doomed => Head(queue).taskId \in marks
<1> USE TailOfQueue
<1>1. Head(queue).doomed => Head(queue).taskId \in marks
  BY DEF SoundLane, DoomedMarked
<1>2. Distinct(Tail(queue))
  <2> SUFFICES ASSUME NEW i \in DOMAIN Tail(queue), NEW j \in DOMAIN Tail(queue),
                      Tail(queue)[i].taskId = Tail(queue)[j].taskId
               PROVE  i = j
    BY DEF Distinct
  <2>1. i + 1 = j + 1
    BY DEF SoundLane, Distinct
  <2>2. i \in Int /\ j \in Int
    BY LenProperties
  <2>3. QED
    BY <2>1, <2>2
<1>3. Apart(Tail(queue), other)
  BY DEF SoundLane, Apart
<1>4. \A i \in DOMAIN Tail(queue) : Tail(queue)[i].taskId # Head(queue).taskId
  BY DEF SoundLane, Distinct
<1>5. \A i \in DOMAIN other : other[i].taskId # Head(queue).taskId
  BY DEF SoundLane, Apart
<1>6. DoomedMarked(Tail(queue), marks) /\ DoomedMarked(other, marks)
  BY DEF SoundLane, DoomedMarked
<1>7. /\ DoomedMarked(Tail(queue), marks \ {Head(queue).taskId})
      /\ DoomedMarked(other, marks \ {Head(queue).taskId})
  BY <1>4, <1>5, <1>6 DEF DoomedMarked
<1>8. QED
  BY <1>1, <1>2, <1>3, <1>6, <1>7 DEF SoundLane

LEMMA AppendKeepsLane ==
  ASSUME NEW queue \in Seq(Copy), NEW other \in Seq(Copy), NEW marks, NEW copy \in Copy,
         ~copy.doomed, SoundLane(queue, other, marks),
         \A i \in DOMAIN queue : queue[i].taskId # copy.taskId,
         \A i \in DOMAIN other : other[i].taskId # copy.taskId
  PROVE  SoundLane(Append(queue, copy), other, marks)
<1>1. Distinct(Append(queue, copy))
  BY AppendToQueue DEF SoundLane, Distinct
<1>2. Apart(Append(queue, copy), other)
  BY AppendToQueue DEF SoundLane, Apart
<1>3. DoomedMarked(Append(queue, copy), marks)
  BY AppendToQueue DEF SoundLane, DoomedMarked
<1>4. QED
  BY <1>1, <1>2, <1>3 DEF SoundLane

LEMMA DoomKeepsLane ==
  ASSUME NEW queue \in Seq(Copy), NEW other \in Seq(Copy), NEW marks, NEW t \in Tasks,
         SoundLane(queue, other, marks)
  PROVE  SoundLane(Doom(queue, t), Doom(other, t), marks \cup {t})
<1>1. /\ \A i \in DOMAIN Doom(queue, t) :
           /\ i \in DOMAIN queue /\ Doom(queue, t)[i].taskId = queue[i].taskId
           /\ Doom(queue, t)[i].doomed => queue[i].doomed \/ queue[i].taskId = t
      /\ \A i \in DOMAIN Doom(other, t) :
           /\ i \in DOMAIN other /\ Doom(other, t)[i].taskId = other[i].taskId
           /\ Doom(other, t)[i].doomed => other[i].doomed \/ other[i].taskId = t
  BY DoomQueue
<1>2. Distinct(Doom(queue, t)) /\ Distinct(Doom(other, t))
  BY <1>1 DEF SoundLane, Distinct
<1>3. Apart(Doom(queue, t), Doom(other, t))
  BY <1>1 DEF SoundLane, Apart
<1>4. /\ DoomedMarked(Doom(queue, t), marks \cup {t})
      /\ DoomedMarked(Doom(other, t), marks \cup {t})
  BY <1>1 DEF SoundLane, DoomedMarked
<1>5. QED
  BY <1>2, <1>3, <1>4 DEF SoundLane

-----------------------------------------------------------------------------
(* The invariant step by step *)

\* The steps that touch no queue, no mark, no allowance and no task in hand.
LEMMA QueuesUnchanged ==
  ASSUME IInv, UNCHANGED <<normal, compensation, revoked, allowance, refused, duplicated>>,
         current' \in {current, None}
  PROVE  PromisedIsFree' /\ RefusedOnlyOnOvercommit' /\ UniqueAreMarked'
<1>1. PromisedIsFree' /\ RefusedOnlyOnOvercommit'
  BY DEF IInv, PromisedIsFree, RefusedOnlyOnOvercommit, Queued
<1>2. UniqueAreMarked'
  BY DEF IInv, UniqueAreMarked, RevokedCopyNotStarted
<1>3. QED
  BY <1>1, <1>2

\* The bound on a lane that TypeOK states follows from what has been promised.
LEMMA PromisedBoundsLane ==
  ASSUME normal \in [Models -> Seq(Copy)], compensation \in [Models -> Seq(Copy)],
         allowance \in [Models -> Nat], PromisedIsFree
  PROVE  \A m \in Models : Queued(m) <= Depth[m]
<1> SUFFICES ASSUME NEW m \in Models PROVE Queued(m) <= Depth[m]
  OBVIOUS
<1>1. Queued(m) \in Nat
  BY LenProperties DEF Queued
<1>2. Depth[m] \in Nat /\ allowance[m] \in Nat /\ Queued(m) + allowance[m] <= Depth[m]
  BY ConstantsAssumption DEF PromisedIsFree
<1>3. QED
  BY <1>1, <1>2

LEMMA InitIInv == Init => IInv
<1> SUFFICES ASSUME Init PROVE IInv
  OBVIOUS
<1>1. \A m \in Models : Queued(m) = 0
  BY EmptySeq DEF Init, Queued
<1>2. normal \in [Models -> Seq(Copy)] /\ compensation \in [Models -> Seq(Copy)]
  BY EmptySeq DEF Init
<1>3. allowance \in [Models -> Nat]
  BY ConstantsAssumption DEF Init
<1>4. PromisedIsFree
  BY <1>1, ConstantsAssumption DEF Init, PromisedIsFree
<1>5. \A m \in Models : Queued(m) <= Depth[m]
  BY <1>2, <1>3, <1>4, PromisedBoundsLane
<1>6. TypeOK
  BY <1>2, <1>3, <1>5 DEF Init, TypeOK, ConsumerState, Outcome
<1>7. RefusedOnlyOnOvercommit
  BY DEF Init, RefusedOnlyOnOvercommit
<1>8. UniqueAreMarked
  BY DEF Init, UniqueAreMarked, SoundLane, Distinct, Apart, DoomedMarked, RevokedCopyNotStarted
<1>9. QED
  BY <1>4, <1>6, <1>7, <1>8 DEF IInv

\* A step that adds to no lane keeps what has been promised.
LEMMA StillFree ==
  ASSUME TypeOK, PromisedIsFree, allowance' = allowance,
         \A n \in Models : Queued(n)' \in Nat /\ Queued(n) \in Nat /\ Queued(n)' <= Queued(n)
  PROVE  PromisedIsFree' /\ \A n \in Models : Queued(n)' <= Depth[n]
<1> SUFFICES ASSUME NEW n \in Models
             PROVE  Queued(n)' + allowance[n] <= Depth[n] /\ Queued(n)' <= Depth[n]
  BY DEF PromisedIsFree
<1>1. Queued(n) + allowance[n] <= Depth[n]
  BY DEF PromisedIsFree
<1>2. allowance[n] \in Nat /\ Depth[n] \in Nat
  BY ConstantsAssumption DEF TypeOK
<1>3. Queued(n)' \in Nat /\ Queued(n) \in Nat /\ Queued(n)' <= Queued(n)
  OBVIOUS
<1>4. QED
  BY <1>1, <1>2, <1>3

LEMMA AcceptKeeps ==
  ASSUME IInv, NEW t \in Tasks, NEW asCompensation \in BOOLEAN, Accept(t, asCompensation)
  PROVE  IInv'
<1> DEFINE m == ModelOf[t]
           copy == [taskId |-> t, doomed |-> FALSE]
<1>1. m \in Models /\ copy \in Copy /\ Queued(m) < Depth[m]
  BY DEF Accept, Copy, HasRoom
<1>2. /\ normal \in [Models -> Seq(Copy)] /\ compensation \in [Models -> Seq(Copy)]
      /\ allowance \in [Models -> Nat] /\ Depth \in [Models -> Nat]
  BY ConstantsAssumption DEF IInv, TypeOK
<1>3. \E grown \in {"normal", "compensation"} :
        /\ normal' = IF grown = "normal" THEN [normal EXCEPT ![m] = Append(@, copy)]
                                         ELSE normal
        /\ compensation' = IF grown = "compensation"
                             THEN [compensation EXCEPT ![m] = Append(@, copy)]
                             ELSE compensation
  BY DEF Accept, Join
<1>4. /\ normal' \in [Models -> Seq(Copy)] /\ compensation' \in [Models -> Seq(Copy)]
      /\ \A n \in Models : n # m => normal'[n] = normal[n] /\ compensation'[n] = compensation[n]
      /\ \/ normal'[m] = Append(normal[m], copy) /\ compensation'[m] = compensation[m]
         \/ compensation'[m] = Append(compensation[m], copy) /\ normal'[m] = normal[m]
  BY <1>1, <1>2, <1>3, AppendToQueue
<1>5. /\ \A n \in Models : Queued(n) \in Nat
      /\ \A n \in Models : n # m => Queued(n)' = Queued(n)
      /\ Queued(m)' = Queued(m) + 1
  <2>1. \A n \in Models : Len(normal[n]) \in Nat /\ Len(compensation[n]) \in Nat
    BY <1>2, LenProperties
  <2>2. /\ Len(Append(normal[m], copy)) = Len(normal[m]) + 1
        /\ Len(Append(compensation[m], copy)) = Len(compensation[m]) + 1
    BY <1>1, <1>2, AppendToQueue
  <2>3. \A n \in Models : Queued(n) \in Nat
    BY <1>2, <2>1 DEF Queued
  <2>4. \A n \in Models : n # m => Queued(n)' = Queued(n)
    BY <1>4 DEF Queued
  <2>5. Queued(m)' = Queued(m) + 1
    <3>1. CASE normal'[m] = Append(normal[m], copy) /\ compensation'[m] = compensation[m]
      BY <1>1, <1>2, <1>4, <2>1, <2>2, <3>1 DEF Queued
    <3>2. CASE compensation'[m] = Append(compensation[m], copy) /\ normal'[m] = normal[m]
      BY <1>1, <1>2, <1>4, <2>1, <2>2, <3>2 DEF Queued
    <3>3. QED
      BY <1>4, <3>1, <3>2
  <2>6. QED
    BY <2>3, <2>4, <2>5
<1>6. allowance' = [allowance EXCEPT ![m] = IF @ > 0 THEN @ - 1 ELSE 0]
  BY DEF Accept
<1>7. allowance' \in [Models -> Nat] /\ PromisedIsFree'
  BY <1>1, <1>2, <1>5, <1>6 DEF IInv, PromisedIsFree
<1>8. TypeOK'
  <2>1. \A n \in Models : Queued(n)' <= Depth[n]
    <3> SUFFICES ASSUME NEW n \in Models PROVE Queued(n)' <= Depth[n]
      OBVIOUS
    <3>1. Queued(n) \in Nat /\ Depth[n] \in Nat /\ Queued(n) <= Depth[n]
      BY <1>2, <1>5 DEF IInv, TypeOK
    <3>2. Queued(n)' = Queued(n) \/ (n = m /\ Queued(m)' = Queued(m) + 1)
      BY <1>5
    <3>3. QED
      BY <1>1, <3>1, <3>2
  <2>2. duplicated' \in BOOLEAN
    BY DEF Accept
  <2>3. QED
    BY <1>4, <1>7, <2>1, <2>2 DEF Accept, IInv, TypeOK, consumerVars
<1>9. RefusedOnlyOnOvercommit'
  BY <1>1, <1>2, <1>6 DEF Accept, IInv, RefusedOnlyOnOvercommit, TypeOK
<1>10. UniqueAreMarked'
  <2> SUFFICES ASSUME ~duplicated' PROVE UniqueAreMarked'
    BY DEF UniqueAreMarked
  <2>1. ~duplicated /\ \A c \in Copies(m) : c.taskId # t
    BY DEF Accept
  <2>2. /\ \A i \in DOMAIN normal[m] : normal[m][i].taskId # copy.taskId
        /\ \A i \in DOMAIN compensation[m] : compensation[m][i].taskId # copy.taskId
    BY <2>1 DEF Copies, ToSet
  <2>3. ~copy.doomed
    OBVIOUS
  <2>4. \A n \in Models : SoundLane(normal[n], compensation[n], revoked[n])
    BY <2>1 DEF IInv, UniqueAreMarked
  <2>5. SoundLane(normal'[m], compensation'[m], revoked[m])
    <3>1. normal[m] \in Seq(Copy) /\ compensation[m] \in Seq(Copy)
      BY <1>1, <1>2
    <3>2. SoundLane(Append(normal[m], copy), compensation[m], revoked[m])
      BY <1>1, <2>2, <2>3, <2>4, <3>1, AppendKeepsLane
    <3>3. SoundLane(normal[m], Append(compensation[m], copy), revoked[m])
      BY <1>1, <2>2, <2>3, <2>4, <3>1, AppendKeepsLane, SoundLaneEitherWay
    <3>4. QED
      BY <1>4, <3>2, <3>3
  <2>6. \A n \in Models : SoundLane(normal'[n], compensation'[n], revoked'[n])
    BY <1>4, <2>4, <2>5 DEF Accept
  <2>7. RevokedCopyNotStarted'
    BY <2>1 DEF Accept, IInv, UniqueAreMarked, RevokedCopyNotStarted, consumerVars
  <2>8. QED
    BY <2>6, <2>7 DEF UniqueAreMarked
<1>11. QED
  BY <1>7, <1>8, <1>9, <1>10 DEF IInv

LEMMA RefuseKeeps ==
  ASSUME IInv, NEW t \in Tasks, Refuse(t)
  PROVE  IInv'
<1>1. TypeOK'
  BY DEF Refuse, IInv, TypeOK, Queued, queueVars, consumerVars
<1>2. PromisedIsFree' /\ UniqueAreMarked'
  BY DEF Refuse, IInv, PromisedIsFree, Queued, UniqueAreMarked, RevokedCopyNotStarted,
         queueVars, consumerVars
<1>3. ModelOf[t] \in Models => allowance[ModelOf[t]] = 0
  <2> SUFFICES ASSUME ModelOf[t] \in Models PROVE allowance[ModelOf[t]] = 0
    OBVIOUS
  <2>1. ~(Queued(ModelOf[t]) < Depth[ModelOf[t]])
    BY DEF Refuse, HasRoom
  <2>2. Queued(ModelOf[t]) \in Nat
    BY LenProperties DEF IInv, TypeOK, Queued
  <2>3. allowance[ModelOf[t]] \in Nat /\ Depth[ModelOf[t]] \in Nat
    BY ConstantsAssumption DEF IInv, TypeOK
  <2>4. Queued(ModelOf[t]) + allowance[ModelOf[t]] <= Depth[ModelOf[t]]
    BY DEF IInv, PromisedIsFree
  <2>5. QED
    BY <2>1, <2>2, <2>3, <2>4
<1>4. RefusedOnlyOnOvercommit'
  BY <1>3 DEF Refuse, IInv, RefusedOnlyOnOvercommit
<1>5. QED
  BY <1>1, <1>2, <1>4 DEF IInv

LEMMA RevokeKeeps ==
  ASSUME IInv, NEW t \in Tasks, Revoke(t)
  PROVE  IInv'
<1>1. \A m \in Models : normal[m] \in Seq(Copy) /\ compensation[m] \in Seq(Copy)
  BY DEF IInv, TypeOK
<1>2. /\ normal' = [m \in Models |-> Doom(normal[m], t)]
      /\ compensation' = [m \in Models |-> Doom(compensation[m], t)]
      /\ revoked' = [m \in Models |-> revoked[m] \cup {t}]
  BY DEF Revoke, Marked
<1>3. \A m \in Models : Queued(m)' = Queued(m)
  BY <1>1, <1>2, DoomQueue DEF Queued
<1>4. normal' \in [Models -> Seq(Copy)] /\ compensation' \in [Models -> Seq(Copy)]
  BY <1>1, <1>2, DoomQueue
<1>5. TypeOK'
  BY <1>2, <1>3, <1>4 DEF Revoke, IInv, TypeOK, consumerVars, heartbeatVars
<1>6. PromisedIsFree' /\ RefusedOnlyOnOvercommit'
  BY <1>3 DEF Revoke, IInv, PromisedIsFree, RefusedOnlyOnOvercommit, heartbeatVars
<1>7. UniqueAreMarked'
  <2> SUFFICES ASSUME ~duplicated' PROVE UniqueAreMarked'
    BY DEF UniqueAreMarked
  <2>1. /\ \A m \in Models : SoundLane(normal[m], compensation[m], revoked[m])
        /\ RevokedCopyNotStarted
    BY DEF Revoke, IInv, UniqueAreMarked
  <2>2. \A m \in Models : SoundLane(normal'[m], compensation'[m], revoked'[m])
    BY <1>1, <1>2, <2>1, DoomKeepsLane
  <2>3. QED
    BY <2>1, <2>2 DEF Revoke, UniqueAreMarked, RevokedCopyNotStarted, consumerVars
<1>8. QED
  BY <1>5, <1>6, <1>7 DEF IInv

\* What popAny's pop does to the lane it takes from and to the others.
LEMMA PopEffect ==
  ASSUME TypeOK, PromisedIsFree, NEW m \in Models, NEW normalTier \in BOOLEAN,
         IsFront(m, normalTier), PopFront(m, normalTier), allowance' = allowance
  PROVE  /\ normal' \in [Models -> Seq(Copy)] /\ compensation' \in [Models -> Seq(Copy)]
         /\ \A n \in Models : n # m => normal'[n] = normal[n]
                                       /\ compensation'[n] = compensation[n]
         /\ Head(Tier(m, normalTier)) \in Copy
         /\ PromisedIsFree' /\ \A n \in Models : Queued(n)' <= Depth[n]
<1>1. /\ normal \in [Models -> Seq(Copy)] /\ compensation \in [Models -> Seq(Copy)]
      /\ Tier(m, normalTier) \in Seq(Copy) /\ Tier(m, normalTier) # <<>>
  BY DEF TypeOK, Tier, IsFront
<1>2. /\ Head(Tier(m, normalTier)) \in Copy
      /\ Tail(Tier(m, normalTier)) \in Seq(Copy)
      /\ Len(Tail(Tier(m, normalTier))) = Len(Tier(m, normalTier)) - 1
  BY <1>1, TailOfQueue
<1>3. CASE normalTier
  <2>1. /\ normal' = [normal EXCEPT ![m] = Tail(@)] /\ compensation' = compensation
        /\ Tier(m, normalTier) = normal[m]
    BY <1>3 DEF PopFront, Tier
  <2>2. /\ normal' \in [Models -> Seq(Copy)]
        /\ \A n \in Models : n # m => normal'[n] = normal[n]
        /\ Len(normal'[m]) = Len(normal[m]) - 1
    BY <1>1, <1>2, <2>1
  <2>3. \A n \in Models : Queued(n)' \in Nat /\ Queued(n) \in Nat /\ Queued(n)' <= Queued(n)
    BY <1>1, <2>1, <2>2, LenProperties DEF Queued
  <2>4. PromisedIsFree' /\ \A n \in Models : Queued(n)' <= Depth[n]
    BY <2>3, StillFree
  <2>5. QED
    BY <1>1, <1>2, <2>1, <2>2, <2>4
<1>4. CASE ~normalTier
  <2>1. /\ compensation' = [compensation EXCEPT ![m] = Tail(@)] /\ normal' = normal
        /\ Tier(m, normalTier) = compensation[m]
    BY <1>4 DEF PopFront, Tier
  <2>2. /\ compensation' \in [Models -> Seq(Copy)]
        /\ \A n \in Models : n # m => compensation'[n] = compensation[n]
        /\ Len(compensation'[m]) = Len(compensation[m]) - 1
    BY <1>1, <1>2, <2>1
  <2>3. \A n \in Models : Queued(n)' \in Nat /\ Queued(n) \in Nat /\ Queued(n)' <= Queued(n)
    BY <1>1, <2>1, <2>2, LenProperties DEF Queued
  <2>4. PromisedIsFree' /\ \A n \in Models : Queued(n)' <= Depth[n]
    BY <2>3, StillFree
  <2>5. QED
    BY <1>1, <1>2, <2>1, <2>2, <2>4
<1>5. QED
  BY <1>3, <1>4

\* The lane it takes from stays sound, also without the mark of the copy it takes.
LEMMA PopKeepsSound ==
  ASSUME TypeOK, NEW m \in Models, NEW normalTier \in BOOLEAN,
         IsFront(m, normalTier), PopFront(m, normalTier),
         SoundLane(normal[m], compensation[m], revoked[m])
  PROVE  LET copy == Head(Tier(m, normalTier))
         IN  /\ SoundLane(normal'[m], compensation'[m], revoked[m])
             /\ SoundLane(normal'[m], compensation'[m], revoked[m] \ {copy.taskId})
             /\ copy.doomed => copy.taskId \in revoked[m]
<1>1. normal[m] \in Seq(Copy) /\ compensation[m] \in Seq(Copy)
  BY DEF TypeOK
<1>2. SoundLane(compensation[m], normal[m], revoked[m])
  BY SoundLaneEitherWay
<1>3. CASE normalTier
  <2>1. /\ normal'[m] = Tail(normal[m]) /\ compensation'[m] = compensation[m]
        /\ Tier(m, normalTier) = normal[m] /\ normal[m] # <<>>
    BY <1>3 DEF PopFront, Tier, IsFront, TypeOK
  <2>2. QED
    BY <1>1, <2>1, PopKeepsLane
<1>4. CASE ~normalTier
  <2>1. /\ compensation'[m] = Tail(compensation[m]) /\ normal'[m] = normal[m]
        /\ Tier(m, normalTier) = compensation[m] /\ compensation[m] # <<>>
    BY <1>4 DEF PopFront, Tier, IsFront, TypeOK
  <2>2. QED
    BY <1>1, <1>2, <2>1, PopKeepsLane, SoundLaneEitherWay
<1>5. QED
  BY <1>3, <1>4

LEMMA SkipKeeps ==
  ASSUME IInv, NEW m \in Models, NEW normalTier \in BOOLEAN, SkipRevoked(m, normalTier)
  PROVE  IInv'
<1> DEFINE copy == Head(Tier(m, normalTier))
<1>1. /\ IsFront(m, normalTier) /\ PopFront(m, normalTier)
      /\ revoked' = [revoked EXCEPT ![m] = @ \ {copy.taskId}]
      /\ UNCHANGED <<shuttingDown, running, consumerVars, heartbeatVars, duplicated>>
  BY DEF SkipRevoked
<1>2. /\ normal' \in [Models -> Seq(Copy)] /\ compensation' \in [Models -> Seq(Copy)]
      /\ \A n \in Models : n # m => normal'[n] = normal[n]
                                    /\ compensation'[n] = compensation[n]
      /\ PromisedIsFree' /\ \A n \in Models : Queued(n)' <= Depth[n]
  BY <1>1, PopEffect DEF IInv, heartbeatVars
<1>3. revoked' \in [Models -> SUBSET Tasks]
  BY <1>1 DEF IInv, TypeOK
<1>4. TypeOK' /\ RefusedOnlyOnOvercommit'
  BY <1>1, <1>2, <1>3 DEF IInv, TypeOK, RefusedOnlyOnOvercommit, consumerVars, heartbeatVars
<1>5. UniqueAreMarked'
  <2> SUFFICES ASSUME ~duplicated' PROVE UniqueAreMarked'
    BY DEF UniqueAreMarked
  <2>1. /\ \A n \in Models : SoundLane(normal[n], compensation[n], revoked[n])
        /\ RevokedCopyNotStarted
    BY <1>1 DEF IInv, UniqueAreMarked
  <2>2. SoundLane(normal'[m], compensation'[m], revoked[m] \ {copy.taskId})
    BY <1>1, <2>1, PopKeepsSound DEF IInv
  <2>3. /\ revoked'[m] = revoked[m] \ {copy.taskId}
        /\ \A n \in Models : n # m => revoked'[n] = revoked[n]
    BY <1>1 DEF IInv, TypeOK
  <2>4. \A n \in Models : SoundLane(normal'[n], compensation'[n], revoked'[n])
    BY <1>2, <2>1, <2>2, <2>3
  <2>5. QED
    BY <1>1, <2>1, <2>4 DEF UniqueAreMarked, RevokedCopyNotStarted, consumerVars
<1>6. QED
  BY <1>2, <1>4, <1>5 DEF IInv

LEMMA TakeKeeps ==
  ASSUME IInv, NEW m \in Models, NEW normalTier \in BOOLEAN, Take(m, normalTier)
  PROVE  IInv'
<1> DEFINE copy == Head(Tier(m, normalTier))
<1>1. /\ IsFront(m, normalTier) /\ PopFront(m, normalTier)
      /\ copy.taskId \notin revoked[m] /\ current' = copy /\ consumer' = "download"
      /\ UNCHANGED <<revoked, shuttingDown, running, outcome, heartbeatVars, duplicated>>
  BY DEF Take
<1>2. /\ normal' \in [Models -> Seq(Copy)] /\ compensation' \in [Models -> Seq(Copy)]
      /\ \A n \in Models : n # m => normal'[n] = normal[n]
                                    /\ compensation'[n] = compensation[n]
      /\ copy \in Copy
      /\ PromisedIsFree' /\ \A n \in Models : Queued(n)' <= Depth[n]
  BY <1>1, PopEffect DEF IInv, heartbeatVars
<1>3. TypeOK' /\ RefusedOnlyOnOvercommit'
  BY <1>1, <1>2
     DEF IInv, TypeOK, RefusedOnlyOnOvercommit, ConsumerState, heartbeatVars
<1>4. UniqueAreMarked'
  <2> SUFFICES ASSUME ~duplicated' PROVE UniqueAreMarked'
    BY DEF UniqueAreMarked
  <2>1. \A n \in Models : SoundLane(normal[n], compensation[n], revoked[n])
    BY <1>1 DEF IInv, UniqueAreMarked
  <2>2. /\ SoundLane(normal'[m], compensation'[m], revoked[m])
        /\ copy.doomed => copy.taskId \in revoked[m]
    BY <1>1, <2>1, PopKeepsSound DEF IInv
  <2>3. \A n \in Models : SoundLane(normal'[n], compensation'[n], revoked'[n])
    BY <1>1, <1>2, <2>1, <2>2
  <2>4. RevokedCopyNotStarted'
    BY <1>1, <2>2 DEF RevokedCopyNotStarted
  <2>5. QED
    BY <2>3, <2>4 DEF UniqueAreMarked
<1>5. QED
  BY <1>2, <1>3, <1>4 DEF IInv

LEMMA ConsumerStepKeeps ==
  ASSUME IInv, ConsumerStep
  PROVE  IInv'
<1>1. CASE \E m \in Models, normalTier \in BOOLEAN : SkipRevoked(m, normalTier)
  BY <1>1, SkipKeeps
<1>2. CASE \E m \in Models, normalTier \in BOOLEAN : Take(m, normalTier)
  BY <1>2, TakeKeeps
<1>3. CASE \/ Wake \/ NothingLeft \/ Drop \/ Download \/ Report
           \/ (\E ok \in BOOLEAN : Infer(ok)) \/ (\E ok \in BOOLEAN : Upload(ok))
  <2> USE DEF Wake, NothingLeft, Drop, Download, Report, Infer, Upload, NextRound,
              queueVars, heartbeatVars
  <2>1. /\ consumer' \in ConsumerState /\ current' \in {current, None}
        /\ outcome' \in Outcome /\ UNCHANGED <<queueVars, running, heartbeatVars, duplicated>>
    BY <1>3 DEF IInv, TypeOK, ConsumerState, Outcome
  <2>2. TypeOK'
    BY <2>1 DEF IInv, TypeOK, Queued
  <2>3. PromisedIsFree' /\ RefusedOnlyOnOvercommit' /\ UniqueAreMarked'
    BY <2>1, QueuesUnchanged
  <2>4. QED
    BY <2>2, <2>3 DEF IInv
<1>4. QED
  BY <1>1, <1>2, <1>3 DEF ConsumerStep

LEMMA ReadRemainingKeeps ==
  ASSUME IInv, NEW m \in Models, ReadRemaining(m)
  PROVE  IInv'
<1>1. /\ Queued(m) \in Nat /\ Depth[m] \in Nat
      /\ QueueRemaining(m) \in Nat /\ Queued(m) + QueueRemaining(m) <= Depth[m]
  <2>1. Queued(m) \in Nat /\ Depth[m] \in Nat /\ Queued(m) <= Depth[m]
    BY LenProperties, ConstantsAssumption DEF IInv, TypeOK, Queued
  <2>2. QED
    BY <2>1 DEF QueueRemaining
<1>2. allowance' \in [Models -> Nat] /\ PromisedIsFree'
  BY <1>1 DEF ReadRemaining, IInv, TypeOK, PromisedIsFree, Queued, queueVars
<1>3. TypeOK'
  BY <1>2 DEF ReadRemaining, IInv, TypeOK, Queued, queueVars, consumerVars
<1>4. RefusedOnlyOnOvercommit'
  BY DEF ReadRemaining, IInv, TypeOK, RefusedOnlyOnOvercommit
<1>5. UniqueAreMarked'
  BY DEF ReadRemaining, IInv, UniqueAreMarked, RevokedCopyNotStarted, queueVars, consumerVars
<1>6. QED
  BY <1>2, <1>3, <1>4, <1>5 DEF IInv

LEMMA StopKeeps ==
  ASSUME IInv, Stop \/ ShutDownQueue
  PROVE  IInv'
<1>1. PromisedIsFree' /\ RefusedOnlyOnOvercommit' /\ UniqueAreMarked'
  BY QueuesUnchanged DEF Stop, ShutDownQueue, queueVars, consumerVars, heartbeatVars
<1>2. TypeOK'
  BY DEF Stop, ShutDownQueue, IInv, TypeOK, Queued, queueVars, consumerVars, heartbeatVars
<1>3. QED
  BY <1>1, <1>2 DEF IInv

LEMMA StepIInv == IInv /\ [Next]_vars => IInv'
<1> SUFFICES ASSUME IInv, [Next]_vars PROVE IInv'
  OBVIOUS
<1>1. CASE UNCHANGED vars
  <2>1. TypeOK'
    BY <1>1 DEF vars, IInv, TypeOK, Queued
  <2>2. PromisedIsFree' /\ RefusedOnlyOnOvercommit' /\ UniqueAreMarked'
    BY <1>1, QueuesUnchanged DEF vars
  <2>3. QED
    BY <2>1, <2>2 DEF IInv
<1>2. CASE Next
  BY <1>2, AcceptKeeps, RefuseKeeps, RevokeKeeps, ConsumerStepKeeps, ReadRemainingKeeps,
     StopKeeps, ConstantsAssumption DEF Next
<1>3. QED
  BY <1>1, <1>2

LEMMA SpecIInv == Spec => []IInv
BY InitIInv, StepIInv, PTL DEF Spec

-----------------------------------------------------------------------------
(* The results *)

\* Whatever the server sends, the daemon's variables keep their types and no lane of
\* its task queue holds more than its depth limit.
THEOREM DaemonTypes == Spec => []TypeOK
<1>1. IInv => TypeOK
  BY DEF IInv
<1>2. QED
  BY SpecIInv, <1>1, PTL

\* As long as no task is queued twice, popAny never hands the consumer a copy whose
\* revocation was handled while it was queued.
THEOREM DaemonSkipsRevoked == Spec => []RevokedCopyNotStartedIfUnique
<1>1. IInv => RevokedCopyNotStartedIfUnique
  BY DEF IInv, UniqueAreMarked, RevokedCopyNotStartedIfUnique
<1>2. QED
  BY SpecIInv, <1>1, PTL

\* A dispatch is refused only by a lane whose room, as the last heartbeat reported it,
\* has been used up: a server that keeps to the reports has no dispatch dropped.
THEOREM DaemonKeepsRoom == Spec => []RefusedOnlyOnOvercommit
<1>1. IInv => RefusedOnlyOnOvercommit
  BY DEF IInv
<1>2. QED
  BY SpecIInv, <1>1, PTL

=============================================================================
