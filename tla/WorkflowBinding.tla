--------------------------- MODULE WorkflowBinding ---------------------------
(***************************************************************************)
(* How a submit finds endpoints for the remote nodes of a graph            *)
(* (server/lib/scheduler.ts) and how the graph is inspected afterwards     *)
(* (server/lib/inspection.ts): the search for the strongly connected       *)
(* components of the graph (Tarjan's algorithm with an explicit stack),    *)
(* the test that no cycle is split over groups, the greedy choice of an    *)
(* endpoint for each group and each free node, the inspection.             *)
(*                                                                         *)
(* All of it is one synchronous call; its loops are unfolded into steps.   *)
(* Where the code follows the order of an array of the request (nodes,     *)
(* edges, free nodes), any order is allowed.                               *)
(***************************************************************************)
EXTENDS Naturals, Sequences, SequencesExt, FiniteSets, FiniteSetsExt

CONSTANTS
  Names,       \* node names
  Models,      \* model keys
  Endpoints,   \* endpoint ids
  Rank,        \* the order in which the endpoints registered
  Dynamic,     \* a dimension of any size (-1)
  None,        \* no model, no declaration, no endpoint, no index
  Requests,    \* the requests that may arrive
  Registries   \* the capabilities the endpoints may have declared

VARIABLES
  request,       \* nodes, edges, ports, intents and nodeGroups of the request
  registry,      \* the models each endpoint offers: room and ports
  phase,         \* where the call is
  index, low,    \* of each node, None before it is visited
  stack,         \* nodes visited and not yet in a component
  call,          \* the search's own call stack: a node and its successors left
  components,    \* the components found
  nextGroup,     \* the group to bind next
  nodeEndpoint,  \* the endpoint each node is bound to
  expired        \* endpoints gone between binding and inspection

searchVars == <<index, low, stack, call, components>>
vars == <<request, registry, phase, index, low, stack, call, components, nextGroup,
          nodeEndpoint, expired>>

Phase == {"search", "bind", "inspect", "bound", "cyclic", "unserved", "uninspected"}

nodes   == request.nodes
intents == request.intents
groups  == request.groups
Remote  == DOMAIN intents
NodeGroup(i) == ToSet(groups[i])

\* The room an endpoint has over all models; 0 for a model it does not offer.
RoomOf(offers) ==
  MapThenSumSet(LAMBDA m : IF offers[m] = None THEN 0 ELSE offers[m].room, Models)

ASSUME ConstantsAssumption ==
  /\ IsFiniteSet(Names) /\ IsFiniteSet(Endpoints)
  /\ Rank \in [Endpoints -> Nat]
  /\ \A e, f \in Endpoints : Rank[e] = Rank[f] => e = f
  /\ \A r \in Requests :
       /\ r.nodes \in SUBSET Names
       /\ r.edges \in SUBSET (r.nodes \X r.nodes)
       /\ r.groups \in Seq(Seq(Names))
       /\ DOMAIN r.intents \in SUBSET Names
       /\ \A n \in DOMAIN r.intents : r.intents[n] \in Models
  /\ \A offers \in Registries, e \in Endpoints : RoomOf(offers[e]) \in Nat
  /\ None \notin Endpoints /\ None \notin Nat

-----------------------------------------------------------------------------
(* Strongly connected components *)

Successors(n) == {m \in nodes : <<n, m>> \in request.edges}
Visited == {n \in nodes : index[n] # None}

\* The number a node gets (the variant counts before it numbers).
CounterFromOne == Cardinality(Visited) + 1
Counter == Cardinality(Visited)

\* A node is numbered, and both stacks grow by it.
Visit(n, frames) ==
  /\ index' = [index EXCEPT ![n] = Counter]
  /\ low' = [low EXCEPT ![n] = Counter]
  /\ stack' = Append(stack, n)
  /\ call' = Append(frames, [node |-> n, rest |-> Successors(n)])
  /\ UNCHANGED components

Smaller(a, b) == IF a < b THEN a ELSE b

\* The frame on top once its iterator has yielded w (the variant does not advance).
FrameKept(frame, w) == frame
FrameAfter(frame, w) == [frame EXCEPT !.rest = @ \ {w}]
Yielded(w) == Front(call) \o <<FrameAfter(Last(call), w)>>

StartRoot(n) ==
  /\ phase = "search" /\ call = <<>>
  /\ n \in nodes \ Visited
  /\ Visit(n, <<>>)
  /\ UNCHANGED <<request, registry, phase, nextGroup, nodeEndpoint, expired>>

Descend(w) ==
  /\ phase = "search" /\ call # <<>>
  /\ w \in Last(call).rest \ Visited
  /\ Visit(w, Yielded(w))
  /\ UNCHANGED <<request, registry, phase, nextGroup, nodeEndpoint, expired>>

\* A visited successor counts while it is on the stack (the variant: always).
LowWithoutTest(n, w) == Smaller(low[n], index[w])
LowAfter(n, w) == IF w \in ToSet(stack) THEN Smaller(low[n], index[w]) ELSE low[n]

SeeAgain(w) ==
  /\ phase = "search" /\ call # <<>>
  /\ w \in Last(call).rest \cap Visited
  /\ low' = [low EXCEPT ![Last(call).node] = LowAfter(Last(call).node, w)]
  /\ call' = Yielded(w)
  /\ UNCHANGED <<request, registry, phase, index, stack, components, nextGroup,
                 nodeEndpoint, expired>>

\* A node without successors left: its parent takes over its low, and the root of a
\* component takes the component off the stack.
Retreat ==
  LET n      == Last(call).node
      frames == Front(call)
      from   == CHOOSE i \in DOMAIN stack : stack[i] = n
  IN  /\ phase = "search" /\ call # <<>>
      /\ Last(call).rest = {}
      /\ call' = frames
      /\ low' = IF frames = <<>> THEN low
                ELSE [low EXCEPT ![Last(frames).node] = Smaller(@, low[n])]
      /\ IF low[n] = index[n]
           THEN /\ components' = components \cup {{stack[i] : i \in from..Len(stack)}}
                /\ stack' = SubSeq(stack, 1, from - 1)
           ELSE UNCHANGED <<components, stack>>
      /\ UNCHANGED <<request, registry, phase, index, nextGroup, nodeEndpoint, expired>>

\* A group counts for the cycle test whether or not its nodes have intents; of
\* several groups with a node, the first.
Grouped == UNION {NodeGroup(i) : i \in DOMAIN groups}
FirstGroup(n) == Min({i \in DOMAIN groups : n \in NodeGroup(i)})

\* A component with nodes of different groups (the variant compares neighbours
\* only).
SplitNeighbours(c) ==
  \E x, y \in c \cap Grouped : <<x, y>> \in request.edges /\ FirstGroup(x) # FirstGroup(y)
Split(c) == \E x, y \in c \cap Grouped : FirstGroup(x) # FirstGroup(y)

EndSearch ==
  /\ phase = "search" /\ call = <<>> /\ Visited = nodes
  /\ phase' = IF \E c \in components : Split(c) THEN "cyclic" ELSE "bind"
  /\ UNCHANGED <<request, registry, searchVars, nextGroup, nodeEndpoint, expired>>

-----------------------------------------------------------------------------
(* Ports *)

\* The same number of dimensions, each equal or dynamic on one side.
ShapeCompatible(shape, declared) ==
  /\ Len(shape) = Len(declared)
  /\ \A i \in DOMAIN shape : Dynamic \in {shape[i], declared[i]} \/ shape[i] = declared[i]

\* The declared port with the name decides.  (`type` stands for tensorType and
\* typeSize; a malformed field of a graph's port is a type nobody declares.)
PortMatches(port, declared) ==
  \E i \in DOMAIN declared :
    /\ declared[i].name = port.name
    /\ \A j \in 1..(i - 1) : declared[j].name # port.name
    /\ declared[i].type = port.type
    /\ ShapeCompatible(port.shape, declared[i].shape)

PortsMatch(ports, declared) ==
  ports = <<>> \/ (declared # None /\ \A i \in DOMAIN ports : PortMatches(ports[i], declared))

\* A node's ports against those of a model offered.
Fits(n, offer) ==
  /\ PortsMatch(request.inputs[n], offer.inputs)
  /\ PortsMatch(request.outputs[n], offer.outputs)

-----------------------------------------------------------------------------
(* bindWorkflow *)

\* endpointServes for one intent and for a group of them (the variant asks for one).
ServesNode(e, n) ==
  LET offer == registry[e][intents[n]]
  IN  offer # None /\ offer.room >= 1 /\ n \in nodes /\ Fits(n, offer)
ServesSome(e, members) == \E n \in members : ServesNode(e, n)
Serves(e, members) == \A n \in members : ServesNode(e, n)

TotalRoom(e) == RoomOf(registry[e])

\* The order of the candidates: more room first, then the older registration.
Before(e, f) ==
  \/ TotalRoom(e) > TotalRoom(f)
  \/ TotalRoom(e) = TotalRoom(f) /\ Rank[e] <= Rank[f]

Serving(members) == {e \in Endpoints : Serves(e, members)}
Picked(members) ==
  CHOOSE e \in Serving(members) : \A f \in Serving(members) : Before(e, f)

\* The endpoints once a partition is bound.
BoundTogether(members) ==
  [n \in Names |-> IF n \in members THEN Picked(members) ELSE nodeEndpoint[n]]

\* One partition: bound as a whole, or the request is refused.
BindPartition(members) ==
  IF Serving(members) = {}
    THEN phase' = "unserved" /\ UNCHANGED nodeEndpoint
    ELSE nodeEndpoint' = BoundTogether(members) /\ UNCHANGED phase

\* The intents of a group; a group without any binds nothing.
Members(i) == NodeGroup(i) \cap Remote

BindGroup ==
  /\ phase = "bind" /\ nextGroup <= Len(groups)
  /\ nextGroup' = nextGroup + 1
  /\ IF Members(nextGroup) = {} THEN UNCHANGED <<phase, nodeEndpoint>>
                                ELSE BindPartition(Members(nextGroup))
  /\ UNCHANGED <<request, registry, searchVars, expired>>

\* The intents in no group.
Free == Remote \ Grouped

BindFree(n) ==
  /\ phase = "bind" /\ nextGroup > Len(groups)
  /\ n \in Free /\ nodeEndpoint[n] = None
  /\ BindPartition({n})
  /\ UNCHANGED <<request, registry, searchVars, nextGroup, expired>>

EndBinding ==
  /\ phase = "bind" /\ nextGroup > Len(groups)
  /\ \A n \in Free : nodeEndpoint[n] # None
  /\ phase' = "inspect"
  /\ UNCHANGED <<request, registry, searchVars, nextGroup, nodeEndpoint, expired>>

-----------------------------------------------------------------------------
(* inspectWorkflowGraph *)

\* Some endpoint with the model fits (the variant looks at the oldest one only).
Offering(n, alive) == {e \in alive : registry[e][intents[n]] # None}
InspectedByOldest(n, alive) ==
  n \in nodes /\ \E e \in Offering(n, alive) :
    /\ \A f \in Offering(n, alive) : Rank[e] <= Rank[f]
    /\ Fits(n, registry[e][intents[n]])
Inspected(n, alive) ==
  n \in nodes /\ \E e \in Offering(n, alive) : Fits(n, registry[e][intents[n]])

\* It asks for the endpoints anew, and a TTL may just have run out.
Inspect(gone) ==
  /\ phase = "inspect"
  /\ expired' = gone
  /\ phase' = IF \A n \in Remote : Inspected(n, Endpoints \ gone) THEN "bound"
                                                                 ELSE "uninspected"
  /\ UNCHANGED <<request, registry, searchVars, nextGroup, nodeEndpoint>>

-----------------------------------------------------------------------------
\* A request without intents is not searched for cycles and needs no endpoint.
Init ==
  /\ request \in Requests /\ registry \in Registries
  /\ phase = IF Remote = {} THEN "inspect" ELSE "search"
  /\ index = [n \in Names |-> None] /\ low = [n \in Names |-> None]
  /\ stack = <<>> /\ call = <<>> /\ components = {}
  /\ nextGroup = 1 /\ nodeEndpoint = [n \in Names |-> None]
  /\ expired = {}

SearchStep ==
  \/ \E n \in Names : StartRoot(n)
  \/ \E w \in Names : Descend(w)
  \/ \E w \in Names : SeeAgain(w)
  \/ Retreat
  \/ EndSearch

BindStep ==
  \/ BindGroup
  \/ \E n \in Names : BindFree(n)
  \/ EndBinding

Next == SearchStep \/ BindStep \/ \E gone \in SUBSET Endpoints : Inspect(gone)

Spec == Init /\ [][Next]_vars

\* A synchronous call runs on.
FairSpec == Spec /\ WF_vars(Next)

-----------------------------------------------------------------------------
(* Properties *)

Answered == {"bound", "cyclic", "unserved", "uninspected"}

\* Every variable keeps its type; nodes are numbered from 0.
TypeOK ==
  /\ request \in Requests /\ registry \in Registries /\ phase \in Phase
  /\ index \in [Names -> 0..(Cardinality(nodes) - 1) \cup {None}]
  /\ low \in [Names -> 0..(Cardinality(nodes) - 1) \cup {None}]
  /\ stack \in Seq(nodes) /\ call \in Seq([node : nodes, rest : SUBSET nodes])
  /\ components \in SUBSET SUBSET nodes
  /\ nextGroup \in 1..(Len(groups) + 1)
  /\ nodeEndpoint \in [Names -> Endpoints \cup {None}]
  /\ expired \in SUBSET Endpoints

\* Reachability without recursion: m is in every set that holds n and is closed
\* under edges.
Reaches(n, m) ==
  \A S \in SUBSET nodes :
    n \in S /\ (\A x \in S : Successors(x) \subseteq S) => m \in S
Mutual(n, m) == Reaches(n, m) /\ Reaches(m, n)

\* The iterative search finds the strongly connected components, each when it is
\* complete, and at its end all of them.
ComponentsAreStrong ==
  /\ \A c \in components : \E n \in nodes : c = {m \in nodes : Mutual(n, m)}
  /\ phase \in {"bind", "unserved", "cyclic"} => UNION components = nodes

\* Nodes on a common cycle are bound to one endpoint (the comments of cycleViolation
\* and of nodeGroups: a cycle must not span machines) if each is in exactly one group;
\* the check compares no others.
InOneGroup(n) == Cardinality({i \in DOMAIN groups : n \in NodeGroup(i)}) = 1
GroupedCyclesStayTogether ==
  phase = "bound" =>
    \A n, m \in Remote :
      InOneGroup(n) /\ InOneGroup(m) /\ Mutual(n, m) => nodeEndpoint[n] = nodeEndpoint[m]

\* What is bound can be served where it is bound, node by node, also when a later
\* group has moved some nodes of an earlier one.
BoundIsServed ==
  phase \in {"inspect", "bound"} =>
    \A n \in Remote : nodeEndpoint[n] # None /\ ServesNode(nodeEndpoint[n], n)

\* The inspection has nothing to add to the binding: it refuses what was bound only
\* when an endpoint in use expired between the two looks at the registry.
InspectionAgreesWithBinding ==
  phase = "uninspected" => \E n \in Remote : nodeEndpoint[n] \in expired

\* Every request is answered: the search ends on every graph.
RequestAnswered == <>(phase \in Answered)

=============================================================================
