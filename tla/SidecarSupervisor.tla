-------------------------- MODULE SidecarSupervisor --------------------------
(***************************************************************************)
(* The supervisor of the sidecar process (server/lib/sidecar-supervisor.ts *)
(* with the serve loop of server/sidecar/src/main.cpp as its child): it    *)
(* spawns the child, reads the child's port from a line on its stderr,     *)
(* restarts it a bounded number of times, and hands out the IPC client.    *)
(*                                                                         *)
(* The supervisor runs on the JavaScript thread: a call, an event of a     *)
(* child and a timer are a step each.  A child's death, its exit event and *)
(* the data on its stderr reach that thread separately.  Children are      *)
(* numbered in the order they are spawned.                                 *)
(***************************************************************************)
EXTENDS Naturals

CONSTANTS
  Ports,        \* TCP ports
  SidecarPort,  \* SIDECAR_PORT: a port, or 0 to let the system choose
  MaxRestarts,  \* maxRestarts
  MaxChildren,  \* bound on the children spawned in a behaviour
  None          \* no child

ASSUME ConstantsAssumption ==
  /\ 0 \notin Ports /\ SidecarPort \in Ports \cup {0}
  /\ MaxRestarts \in Nat /\ MaxChildren \in Nat \ {0} /\ None \notin Nat

VARIABLES
  child,     \* SidecarSupervisor.child
  port,      \* SidecarSupervisor.port
  restarts,  \* SidecarSupervisor.restarts
  stopped,   \* SidecarSupervisor.stopped
  timers,    \* setTimeout callbacks that have not run
  process,   \* the life of each child
  asked,     \* the --port each child was spawned with
  bound,     \* the port each child listens on
  stderr,    \* what has become of the line each child writes
  exits      \* children whose exit event has not been handled

supervisorVars == <<child, port, restarts, stopped, timers>>
vars == <<child, port, restarts, stopped, timers, process, asked, bound, stderr, exits>>

Child == 1..MaxChildren
Life  == {"unborn", "starting", "listening", "dead"}

\* The line with the port is written in pieces (std::cerr has no buffer): it arrives
\* as a line, or in chunks of which none matches the supervisor's expression.
Arrival == {"line", "pieces"}
Text == Arrival \cup {"unwritten", "read", "missed"}

Living == {c \in Child : process[c] \in {"starting", "listening"}}

-----------------------------------------------------------------------------
(* Calls *)

\* spawnChild, from a caller that has found no child.
Spawn ==
  \E c \in Child :
    /\ process[c] = "unborn" /\ \A d \in Child : d < c => process[d] # "unborn"
    /\ child' = c
    /\ process' = [process EXCEPT ![c] = "starting"]
    /\ asked' = [asked EXCEPT ![c] = port]

\* start, called for every start of the server: nothing if a child exists.
Start ==
  /\ child = None /\ ~stopped
  /\ Spawn
  /\ UNCHANGED <<port, restarts, stopped, timers, bound, stderr, exits>>

\* stop: the child gets a SIGTERM, and is forgotten before it is gone.
Stop ==
  /\ ~stopped
  /\ stopped' = TRUE
  /\ child' = None
  /\ UNCHANGED <<port, restarts, timers, process, asked, bound, stderr, exits>>

\* getIpcSidecarClient: the port of the client it hands out, or None.
ClientPort == IF port = 0 THEN None ELSE port

-----------------------------------------------------------------------------
(* The child: SidecarService::run *)

\* server.start takes the port asked for, or any free one for 0, and writes the line.
Listen(c, p, arrival) ==
  /\ process[c] = "starting"
  /\ asked[c] \in {0, p}
  /\ process' = [process EXCEPT ![c] = "listening"]
  /\ bound' = [bound EXCEPT ![c] = p]
  /\ stderr' = [stderr EXCEPT ![c] = arrival]
  /\ UNCHANGED <<supervisorVars, asked, exits>>

\* The port is taken, or the process crashes or is killed.
Die(c) ==
  /\ c \in Living
  /\ process' = [process EXCEPT ![c] = "dead"]
  /\ exits' = exits \cup {c}
  /\ UNCHANGED <<supervisorVars, asked, bound, stderr>>

-----------------------------------------------------------------------------
(* Events *)

\* The data handler: the port of a line that came in one chunk (the variant takes
\* the port the child was asked to use).
PortAsked(c) == asked[c]
PortRead(c) == bound[c]

Data(c) ==
  /\ stderr[c] \in Arrival
  /\ stderr' = [stderr EXCEPT ![c] = IF @ = "line" THEN "read" ELSE "missed"]
  /\ port' = IF stderr[c] = "line" THEN PortRead(c) ELSE port
  /\ UNCHANGED <<child, restarts, stopped, timers, process, asked, bound, exits>>

\* The exit handler: a restart is planned while there are any left (the variants
\* count the first start among them, and allow one more).  The event loop reads the pipes that have data
\* before it looks for children that have ended.
RestartsButFirst == restarts + 1 < MaxRestarts
RestartsAndOne == restarts <= MaxRestarts
RestartsLeft == restarts < MaxRestarts

Exit(c) ==
  /\ c \in exits /\ stderr[c] \notin Arrival
  /\ exits' = exits \ {c}
  /\ child' = None
  /\ IF ~stopped /\ RestartsLeft THEN restarts' = restarts + 1 /\ timers' = timers + 1
                                 ELSE UNCHANGED <<restarts, timers>>
  /\ UNCHANGED <<port, stopped, process, asked, bound, stderr>>

\* The timer spawns unless something else has, or the supervisor was stopped.
UnlessStopped == ~stopped
StillNeeded == ~stopped /\ child = None

Timer ==
  /\ timers > 0
  /\ timers' = timers - 1
  /\ IF StillNeeded THEN Spawn ELSE UNCHANGED <<child, process, asked>>
  /\ UNCHANGED <<port, restarts, stopped, bound, stderr, exits>>

-----------------------------------------------------------------------------
Init ==
  /\ child = None /\ port = SidecarPort
  /\ restarts = 0 /\ stopped = FALSE /\ timers = 0
  /\ process = [c \in Child |-> "unborn"]
  /\ asked = [c \in Child |-> 0] /\ bound = [c \in Child |-> 0]
  /\ stderr = [c \in Child |-> "unwritten"] /\ exits = {}

Next ==
  \/ Start
  \/ Stop
  \/ \E c \in Child, p \in Ports, arrival \in Arrival : Listen(c, p, arrival)
  \/ \E c \in Child : Die(c)
  \/ \E c \in Child : Data(c)
  \/ \E c \in Child : Exit(c)
  \/ Timer

\* The event loop delivers what is due.
Spec ==
  /\ Init /\ [][Next]_vars
  /\ WF_vars(Timer)
  /\ \A c \in Child : WF_vars(Data(c)) /\ WF_vars(Exit(c))

-----------------------------------------------------------------------------
(* Properties *)

\* Every variable keeps its type.
TypeOK ==
  /\ child \in Child \cup {None} /\ port \in Ports \cup {0}
  /\ restarts \in 0..MaxRestarts /\ stopped \in BOOLEAN /\ timers \in 0..MaxRestarts
  /\ process \in [Child -> Life]
  /\ asked \in [Child -> Ports \cup {0}] /\ bound \in [Child -> Ports \cup {0}]
  /\ stderr \in [Child -> Text] /\ exits \in SUBSET Child

\* There is never a second sidecar, and never one the supervisor does not know of:
\* whatever start, timers and exit events do, a living process is the child, until
\* the supervisor is stopped and waits for nothing.
LivingIsChild == ~stopped => \A c \in Living : c = child

\* A supervisor that is neither stopped nor out of restarts has a child again
\* whenever it lost one, for as long as children can be spawned at all.
KeepsAChild ==
  []<>(\/ child # None \/ stopped \/ restarts = MaxRestarts
       \/ process[1] = "unborn" \/ process[MaxChildren] # "unborn")

\* Once a child listens, clients are handed its port, unless its line came in pieces.
Known(c) == ClientPort = bound[c]
PortBecomesKnown ==
  \A c \in Child : []<>(process[c] = "listening" /\ ~stopped => Known(c) \/ stderr[c] = "missed")

=============================================================================
