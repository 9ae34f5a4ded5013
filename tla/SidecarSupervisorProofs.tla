----------------------- MODULE SidecarSupervisorProofs -----------------------
(***************************************************************************)
(* Proofs about SidecarSupervisor for any ports, any limit on restarts and *)
(* any bound on the children of a behaviour.                               *)
(***************************************************************************)
EXTENDS SidecarSupervisor, TLAPS

\* A child whose exit event is on its way is dead, and until the supervisor is
\* stopped it is still the child: nothing is spawned over an exit not yet handled.
\* Every planned restart has been counted.
ExitsAreOfChild ==
  /\ \A c \in exits : process[c] = "dead"
  /\ ~stopped => \A c \in exits : c = child

Counted == timers <= restarts

IInv == TypeOK /\ LivingIsChild /\ ExitsAreOfChild /\ Counted

LEMMA InitIInv == Init => IInv
<1> SUFFICES ASSUME Init PROVE IInv
  OBVIOUS
<1>1. restarts \in 0..MaxRestarts /\ timers \in 0..MaxRestarts /\ Counted
  BY ConstantsAssumption DEF Init, Counted
<1>2. /\ child \in Child \cup {None} /\ port \in Ports \cup {0} /\ stopped \in BOOLEAN
      /\ exits \in SUBSET Child
  BY ConstantsAssumption DEF Init
<1>3. /\ process \in [Child -> Life] /\ stderr \in [Child -> Text]
      /\ asked \in [Child -> Ports \cup {0}] /\ bound \in [Child -> Ports \cup {0}]
  BY DEF Init, Life, Text
<1>4. LivingIsChild /\ ExitsAreOfChild
  BY DEF Init, LivingIsChild, Living, ExitsAreOfChild
<1>5. QED
  BY <1>1, <1>2, <1>3, <1>4 DEF IInv, TypeOK

\* A spawn in a supervisor that has no child and is not stopped: the new child is
\* the only living one.
LEMMA SpawnKeeps ==
  ASSUME IInv, child = None, ~stopped, Spawn, UNCHANGED <<stopped, exits>>
  PROVE  /\ child' \in Child /\ process' \in [Child -> Life]
         /\ asked' \in [Child -> Ports \cup {0}]
         /\ LivingIsChild' /\ ExitsAreOfChild'
<1>1. PICK c \in Child : /\ process[c] = "unborn" /\ child' = c
                         /\ process' = [process EXCEPT ![c] = "starting"]
                         /\ asked' = [asked EXCEPT ![c] = port]
  BY DEF Spawn
<1>2. \A d \in Child : d \notin Living
  BY ConstantsAssumption DEF IInv, LivingIsChild, Living, Child
<1>3. exits = {}
  BY ConstantsAssumption DEF IInv, ExitsAreOfChild, TypeOK, Child
<1>4. LivingIsChild'
  BY <1>1, <1>2 DEF LivingIsChild, Living, IInv, TypeOK
<1>5. QED
  BY <1>1, <1>3, <1>4 DEF IInv, TypeOK, Life, ExitsAreOfChild

LEMMA StepIInv == IInv /\ [Next]_vars => IInv'
<1> SUFFICES ASSUME IInv, [Next]_vars PROVE IInv'
  OBVIOUS
<1> USE DEF IInv, TypeOK
<1>1. CASE UNCHANGED vars
  BY <1>1 DEF vars, LivingIsChild, ExitsAreOfChild, Counted, Living
<1>2. CASE Start
  BY <1>2, SpawnKeeps DEF Start, Counted
<1>3. CASE Stop
  BY <1>3 DEF Stop, LivingIsChild, ExitsAreOfChild, Counted
<1>4. ASSUME NEW c \in Child, NEW p \in Ports, NEW arrival \in Arrival, Listen(c, p, arrival)
      PROVE  IInv'
  <2>1. Living' = Living /\ c \in Living
    BY <1>4 DEF Listen, Living
  <2>2. LivingIsChild' /\ Counted'
    BY <1>4, <2>1 DEF Listen, supervisorVars, LivingIsChild, Counted
  <2>3. ExitsAreOfChild'
    BY <1>4 DEF Listen, supervisorVars, ExitsAreOfChild
  <2>4. TypeOK'
    BY <1>4 DEF Listen, supervisorVars, Life, Text
  <2>5. QED
    BY <2>2, <2>3, <2>4
<1>5. ASSUME NEW c \in Child, Die(c) PROVE IInv'
  <2>1. Living' \subseteq Living /\ (~stopped => c = child)
    BY <1>5 DEF Die, Living, LivingIsChild
  <2>2. LivingIsChild' /\ Counted'
    BY <1>5, <2>1 DEF Die, supervisorVars, LivingIsChild, Counted
  <2>3. ExitsAreOfChild'
    BY <1>5, <2>1 DEF Die, supervisorVars, ExitsAreOfChild
  <2>4. TypeOK'
    BY <1>5 DEF Die, supervisorVars, Life
  <2>5. QED
    BY <2>2, <2>3, <2>4
<1>6. ASSUME NEW c \in Child, Data(c) PROVE IInv'
  <2>1. TypeOK'
    BY <1>6 DEF Data, PortRead, Text
  <2>2. QED
    BY <1>6, <2>1 DEF Data, LivingIsChild, ExitsAreOfChild, Counted, Living
<1>7. ASSUME NEW c \in Child, Exit(c) PROVE IInv'
  <2>1. ~stopped => Living = {} /\ exits' = {}
    BY <1>7 DEF Exit, LivingIsChild, ExitsAreOfChild, Living
  <2>2. LivingIsChild' /\ ExitsAreOfChild'
    BY <1>7, <2>1 DEF Exit, LivingIsChild, ExitsAreOfChild, Living
  <2>3. TypeOK' /\ Counted'
    BY <1>7, ConstantsAssumption DEF Exit, RestartsLeft, Counted
  <2>4. QED
    BY <2>2, <2>3
<1>8. CASE Timer
  <2>1. timers' \in 0..MaxRestarts /\ Counted' /\ UNCHANGED <<port, restarts, stopped, bound, stderr, exits>>
    BY <1>8, ConstantsAssumption DEF Timer, Counted
  <2>2. CASE StillNeeded
    BY <1>8, <2>1, <2>2, SpawnKeeps DEF Timer, StillNeeded
  <2>3. CASE ~StillNeeded
    BY <1>8, <2>1, <2>3 DEF Timer, LivingIsChild, ExitsAreOfChild, Living
  <2>4. QED
    BY <2>2, <2>3
<1>9. QED
  BY <1>1, <1>2, <1>3, <1>4, <1>5, <1>6, <1>7, <1>8 DEF Next

LEMMA SpecIInv == Spec => []IInv
<1>1. Init => IInv
  BY InitIInv
<1>2. IInv /\ [Next]_vars => IInv'
  BY StepIInv
<1>3. QED
  BY <1>1, <1>2, PTL DEF Spec

\* Every variable keeps its type: among others, no more timers are pending than
\* restarts are allowed, whatever the order of exits, timers and calls.
THEOREM TypeCorrect == Spec => []TypeOK
<1>1. IInv => TypeOK
  BY DEF IInv
<1>2. QED
  BY <1>1, SpecIInv, PTL

\* One sidecar at a time, the one the supervisor knows, until it is stopped: start,
\* the restart timers and the exit events never spawn over a living child.
THEOREM OneSidecar == Spec => []LivingIsChild
<1>1. IInv => LivingIsChild
  BY DEF IInv
<1>2. QED
  BY <1>1, SpecIInv, PTL

=============================================================================
