------------------------ MODULE WorkflowBindingProofs ------------------------
(***************************************************************************)
(* Proofs about WorkflowBinding: the search finds exactly the strongly     *)
(* connected components of every finite graph, the binding keeps grouped   *)
(* cycles together and binds every node where it can be served, and the    *)
(* inspection agrees with it unless an endpoint in use expired.            *)
(***************************************************************************)
EXTENDS WorkflowBinding, SequenceTheorems, FiniteSetTheorems,
        WellFoundedInduction, TLAPS

-----------------------------------------------------------------------------
(* The inductive invariant of the search *)

OnStack == {stack[i] : i \in DOMAIN stack}
Found   == UNION components

\* The node of the i-th call and the successors it has not looked at.
CallNode(i) == call[i].node
Pending(v, w) == \E i \in DOMAIN call : CallNode(i) = v /\ w \in call[i].rest

\* What is visited is on the stack or in a component, and never in both.
VisitedSplits ==
  /\ \A n \in nodes : index[n] # None <=> n \in OnStack \/ n \in Found
  /\ \A n \in OnStack : n \notin Found
  /\ \A n \in Names : index[n] # None => n \in nodes
  /\ \A n \in Names : index[n] = None <=> low[n] = None

\* Nodes are numbered without gaps above the last number, no two alike.
Numbered ==
  /\ \A n \in Visited : index[n] < Cardinality(Visited)
  /\ \A n, m \in Visited : index[n] = index[m] => n = m

\* Both stacks hold nodes in the order of their numbers.
StackInOrder ==
  \A i, j \in DOMAIN stack : i < j => index[stack[i]] < index[stack[j]]
CallInOrder ==
  /\ \A i \in DOMAIN call :
       CallNode(i) \in OnStack /\ call[i].rest \subseteq Successors(CallNode(i))
  /\ \A i, j \in DOMAIN call : i < j => index[CallNode(i)] < index[CallNode(j)]

\* A successor that is not visited yet is one a call will still look at.
SuccessorsSeen ==
  \A v \in Visited : \A w \in Successors(v) : index[w] # None \/ Pending(v, w)

\* No edge leads out of the components found.
FoundIsClosed == \A v \in Found : Successors(v) \subseteq Found

\* A call's node reaches what lies above it on the stack, and what lies on the stack
\* reaches the node of a call below it.
CallReaches ==
  \A i \in DOMAIN call : \A x \in OnStack :
    index[CallNode(i)] <= index[x] => Reaches(CallNode(i), x)
ReachesCall ==
  \A x \in OnStack : \E i \in DOMAIN call :
    index[CallNode(i)] <= index[x] /\ Reaches(x, CallNode(i))

\* The low of a call's node is the number of a node on the stack that it reaches.
LowIsReached ==
  \A i \in DOMAIN call :
    /\ low[CallNode(i)] <= index[CallNode(i)]
    /\ \E u \in OnStack : index[u] = low[CallNode(i)] /\ Reaches(CallNode(i), u)

\* x is in the part of the stack that the i-th call has pushed itself.
Region(i, x) ==
  /\ index[CallNode(i)] <= index[x]
  /\ i < Len(call) => index[x] < index[CallNode(i + 1)]

\* No edge already looked at leads from a call's part of the stack below its low.
LowIsLowest ==
  \A i \in DOMAIN call : \A x, w \in OnStack :
    Region(i, x) /\ w \in Successors(x) /\ ~Pending(x, w) => low[CallNode(i)] <= index[w]

\* A component found is a class of mutually reachable nodes.
FoundIsStrong == \A c \in components : \E n \in nodes : c = {m \in nodes : Mutual(n, m)}

\* Once the search is over every node is in a component, and none is split.
SearchOver ==
  phase \notin {"search", "cyclic"} /\ Remote # {} =>
    Found = nodes /\ \A c \in components : ~Split(c)
CyclicIsComplete == phase = "cyclic" => Found = nodes

\* Only a request with remote nodes is searched and bound.
RemoteIsSearched == phase \in {"search", "cyclic", "bind", "unserved"} => Remote # {}

SearchInv ==
  /\ VisitedSplits /\ Numbered /\ StackInOrder /\ CallInOrder
  /\ SuccessorsSeen /\ FoundIsClosed /\ CallReaches /\ ReachesCall
  /\ LowIsReached /\ LowIsLowest /\ FoundIsStrong

-----------------------------------------------------------------------------
(* The inductive invariant of the binding *)

\* A node that is bound is a remote one and can be served where it is bound.
BoundNodes ==
  \A n \in Names : nodeEndpoint[n] # None => n \in Remote /\ ServesNode(nodeEndpoint[n], n)

\* The groups passed are bound.
GroupsPassed == {i \in DOMAIN groups : i < nextGroup}
GroupsBound ==
  phase # "unserved" =>
    \A i \in GroupsPassed : \A n \in Members(i) : nodeEndpoint[n] # None
GroupsTogether ==
  phase # "unserved" =>
    \A i \in GroupsPassed : \A n, m \in Members(i) :
      InOneGroup(n) /\ InOneGroup(m) => nodeEndpoint[n] = nodeEndpoint[m]

\* Before the binding nothing is bound; behind it everything is.
BeforeBinding == phase = "search" => nextGroup = 1
BehindBinding ==
  phase \in {"inspect", "bound", "uninspected"} /\ Remote # {} =>
    nextGroup = Len(groups) + 1 /\ \A n \in Remote : nodeEndpoint[n] # None

BindInv == BoundNodes /\ GroupsBound /\ GroupsTogether /\ BeforeBinding /\ BehindBinding

IInv ==
  /\ TypeOK /\ SearchInv /\ SearchOver /\ CyclicIsComplete /\ RemoteIsSearched /\ BindInv
  /\ InspectionAgreesWithBinding

-----------------------------------------------------------------------------
(* Reachability *)

\* A node reaches itself, its successors, and what these reach.
LEMMA ReachesSelf == \A n : Reaches(n, n)
BY DEF Reaches

LEMMA ReachesSuccessor == \A n : \A m \in Successors(n) : Reaches(n, m)
BY DEF Reaches

LEMMA ReachesOn == \A n, m, k : Reaches(n, m) /\ Reaches(m, k) => Reaches(n, k)
BY DEF Reaches

\* Nothing is reached outside a set without edges that lead out of it.
LEMMA ReachesInside ==
  ASSUME NEW S \in SUBSET nodes, \A x \in S : Successors(x) \subseteq S,
         NEW n \in S, NEW m, Reaches(n, m)
  PROVE  m \in S
BY DEF Reaches

\* What depends on the request alone stays with it.
LEMMA SameRequest ==
  ASSUME request' = request
  PROVE  /\ nodes' = nodes /\ groups' = groups /\ intents' = intents
         /\ Remote' = Remote
         /\ \A x : Successors(x)' = Successors(x)
         /\ \A x, y : Reaches(x, y)' <=> Reaches(x, y)
BY DEF nodes, groups, intents, Remote, Successors, Reaches

-----------------------------------------------------------------------------
(* The stacks *)

LEMMA Requested ==
  ASSUME TypeOK
  PROVE  /\ nodes \subseteq Names /\ IsFiniteSet(nodes)
         /\ groups \in Seq(Seq(Names)) /\ Remote \subseteq Names
         /\ \A x : Successors(x) \subseteq nodes
         /\ None \notin Nat /\ None \notin Endpoints
<1>1. nodes \subseteq Names /\ IsFiniteSet(Names)
  BY ConstantsAssumption DEF TypeOK, nodes
<1>2. IsFiniteSet(nodes)
  BY <1>1, FS_Subset
<1>3. QED
  BY <1>1, <1>2, ConstantsAssumption DEF TypeOK, nodes, groups, Remote, intents, Successors

\* Numbers are natural numbers.
LEMMA NumbersAreNat ==
  ASSUME TypeOK
  PROVE  /\ \A n \in Names : index[n] # None => index[n] \in Nat
         /\ \A n \in Names : low[n] # None => low[n] \in Nat
BY DEF TypeOK

Frame == [node : nodes, rest : SUBSET nodes]

\* Both stacks as functions of their positions.
LEMMA StackTypes ==
  ASSUME TypeOK
  PROVE  /\ Len(stack) \in Nat /\ DOMAIN stack = 1..Len(stack)
         /\ Len(call) \in Nat /\ DOMAIN call = 1..Len(call)
         /\ \A i \in DOMAIN stack : stack[i] \in nodes
         /\ \A i \in DOMAIN call : CallNode(i) \in nodes /\ call[i].rest \in SUBSET nodes
         /\ OnStack \in SUBSET nodes
         /\ call = <<>> <=> Len(call) = 0
<1>1. stack \in Seq(nodes) /\ call \in Seq([node : nodes, rest : SUBSET nodes])
  BY DEF TypeOK
<1>2. /\ Len(stack) \in Nat /\ DOMAIN stack = 1..Len(stack)
      /\ Len(call) \in Nat /\ DOMAIN call = 1..Len(call)
      /\ call = <<>> <=> Len(call) = 0
  BY <1>1
<1>3. \A i \in DOMAIN stack : stack[i] \in nodes
  BY <1>1, <1>2
<1>4. call \in Seq(Frame)
  BY <1>1 DEF Frame
<1>5. \A i \in DOMAIN call : call[i] \in Frame
  BY <1>4, <1>2, ElementOfSeq
<1>6. QED
  BY <1>2, <1>3, <1>5 DEF OnStack, CallNode, Frame

\* What is on the stack is visited and numbered.
LEMMA OnStackVisited ==
  ASSUME TypeOK, VisitedSplits
  PROVE  /\ \A x \in OnStack : x \in Visited /\ x \in nodes /\ x \in Names /\ index[x] \in Nat
                               /\ low[x] \in Nat
         /\ \A x \in Visited : index[x] \in Nat /\ low[x] \in Nat
<1>1. OnStack \in SUBSET nodes /\ nodes \subseteq Names
  BY StackTypes, Requested
<1>2. \A x \in OnStack : index[x] # None
  BY <1>1 DEF VisitedSplits
<1>3. \A x \in Visited : x \in Names /\ index[x] # None /\ low[x] # None
  BY <1>1 DEF VisitedSplits, Visited
<1>4. QED
  BY <1>1, <1>2, <1>3, NumbersAreNat DEF Visited

\* What an iterator that yields w leaves of the calls: the same calls, and the top one
\* has w no longer before it.
LEMMA YieldedFrames ==
  ASSUME TypeOK, call # <<>>, NEW w
  PROVE  /\ Yielded(w) \in Seq(Frame) /\ Len(Yielded(w)) = Len(call)
         /\ \A i \in DOMAIN call :
              /\ Yielded(w)[i].node = CallNode(i)
              /\ Yielded(w)[i].rest = IF i = Len(call) THEN call[i].rest \ {w} ELSE call[i].rest
<1> DEFINE L == Len(call)
           top == FrameAfter(Last(call), w)
<1>1. call \in Seq(Frame) /\ L \in Nat \ {0} /\ DOMAIN call = 1..L
  BY StackTypes DEF TypeOK, Frame
<1>2. \A i \in 1..L : call[i] \in Frame
  BY <1>1, ElementOfSeq
<1>3. /\ Front(call) \in Seq(Frame) /\ Len(Front(call)) = L - 1
      /\ \A i \in 1..(L - 1) : Front(call)[i] = call[i]
  <2>1. \A i \in 1..(L - 1) : call[i] \in Frame
    BY <1>1, <1>2
  <2>2. /\ SubSeq(call, 1, L - 1) \in Seq(Frame)
        /\ Len(SubSeq(call, 1, L - 1)) = IF 1 <= L - 1 THEN (L - 1) - 1 + 1 ELSE 0
        /\ \A i \in 1..((L - 1) - 1 + 1) : SubSeq(call, 1, L - 1)[i] = call[1 + i - 1]
    BY <2>1, <1>1, SubSeqProperties
  <2>3. QED
    BY <2>2, <1>1 DEF Front
<1>4. /\ top \in Frame /\ top.node = call[L].node /\ top.rest = call[L].rest \ {w}
  BY <1>1, <1>2 DEF FrameAfter, Last, Frame
<1>5. Yielded(w) = Front(call) \o <<top>>
  BY DEF Yielded
<1>6. /\ <<top>> \in Seq(Frame) /\ Len(<<top>>) = 1 /\ <<top>>[1] = top
  BY <1>4
<1>7. /\ Yielded(w) \in Seq(Frame) /\ Len(Yielded(w)) = L
      /\ \A i \in 1..L : Yielded(w)[i] = IF i <= L - 1 THEN Front(call)[i] ELSE <<top>>[i - (L - 1)]
  <2> HIDE DEF top
  <2>1. /\ Front(call) \o <<top>> \in Seq(Frame)
        /\ Len(Front(call) \o <<top>>) = (L - 1) + 1
        /\ \A i \in 1..((L - 1) + 1) : (Front(call) \o <<top>>)[i]
              = IF i <= L - 1 THEN Front(call)[i] ELSE <<top>>[i - (L - 1)]
    BY <1>3, <1>6, <1>1, ConcatProperties
  <2>2. (L - 1) + 1 = L
    BY <1>1
  <2>3. QED
    BY <2>1, <2>2, <1>5
<1>8. \A i \in 1..L : Yielded(w)[i] = IF i = L THEN top ELSE call[i]
  <2> SUFFICES ASSUME NEW i \in 1..L PROVE Yielded(w)[i] = IF i = L THEN top ELSE call[i]
    OBVIOUS
  <2> HIDE DEF top
  <2>1. CASE i = L
    BY <2>1, <1>7, <1>1, <1>6
  <2>2. CASE i # L
    <3> HIDE DEF L
    <3>1. i \in 1..(L - 1) /\ i <= L - 1
      BY <2>2, <1>1
    <3>2. QED
      BY <3>1, <2>2, <1>7, <1>3
  <2>3. QED
    BY <2>1, <2>2
<1>9. QED
  BY <1>1, <1>4, <1>7, <1>8 DEF CallNode

\* The calls once the top one has returned.
LEMMA FrontFrames ==
  ASSUME TypeOK, call # <<>>
  PROVE  /\ Front(call) \in Seq(Frame) /\ Len(Front(call)) = Len(call) - 1
         /\ \A i \in 1..(Len(call) - 1) : Front(call)[i] = call[i]
<1> DEFINE L == Len(call)
<1>1. call \in Seq(Frame) /\ L \in Nat \ {0} /\ DOMAIN call = 1..L
  BY StackTypes DEF TypeOK, Frame
<1>2. \A i \in 1..(L - 1) : call[i] \in Frame
  BY <1>1, ElementOfSeq
<1>3. /\ SubSeq(call, 1, L - 1) \in Seq(Frame)
      /\ Len(SubSeq(call, 1, L - 1)) = IF 1 <= L - 1 THEN (L - 1) - 1 + 1 ELSE 0
      /\ \A i \in 1..((L - 1) - 1 + 1) : SubSeq(call, 1, L - 1)[i] = call[1 + i - 1]
  BY <1>2, <1>1, SubSeqProperties
<1>4. QED
  BY <1>3, <1>1 DEF Front

-----------------------------------------------------------------------------
(* A node is visited *)

\* The calls below a new one: as they were, and the top one has n no longer before it.
\* n is a successor of the top call's node, unless it is the root of a new search.
Below(frames, n) ==
  /\ frames \in Seq(Frame) /\ Len(frames) = Len(call)
  /\ \A i \in DOMAIN call :
       /\ frames[i].node = CallNode(i)
       /\ frames[i].rest = IF i = Len(call) THEN call[i].rest \ {n} ELSE call[i].rest
  /\ Len(call) > 0 => n \in Successors(CallNode(Len(call)))

Visits(n, frames) ==
  /\ TypeOK /\ SearchInv
  /\ n \in nodes /\ index[n] = None
  /\ Below(frames, n) /\ Visit(n, frames) /\ request' = request

\* The numbers after a visit.
LEMMA VisitNumbers ==
  ASSUME NEW n, NEW frames, Visits(n, frames)
  PROVE  /\ \A x \in Names : index'[x] = IF x = n THEN Cardinality(Visited) ELSE index[x]
         /\ \A x \in Names : low'[x] = IF x = n THEN Cardinality(Visited) ELSE low[x]
         /\ Cardinality(Visited) \in Nat
         /\ n \in Names /\ n \notin OnStack /\ n \notin Found /\ n \notin Visited
         /\ Visited' = Visited \cup {n}
         /\ Cardinality(Visited') = Cardinality(Visited) + 1
         /\ Cardinality(Visited) <= Cardinality(nodes) - 1
         /\ Cardinality(nodes) \in Nat
<1> USE DEF Visits
<1>1. nodes' = nodes /\ nodes \subseteq Names /\ n \in Names /\ IsFiniteSet(nodes)
  BY Requested, SameRequest
<1>2. IsFiniteSet(Visited) /\ Visited \subseteq nodes /\ n \notin Visited
  BY <1>1, FS_Subset DEF Visited
<1>3. Cardinality(Visited) \in Nat
  BY <1>2, FS_CardinalityType
<1>4. /\ index' = [index EXCEPT ![n] = Cardinality(Visited)]
      /\ low' = [low EXCEPT ![n] = Cardinality(Visited)]
      /\ DOMAIN index = Names /\ DOMAIN low = Names
  BY DEF Visit, Counter, TypeOK
<1>5. /\ \A x \in Names : index'[x] = IF x = n THEN Cardinality(Visited) ELSE index[x]
      /\ \A x \in Names : low'[x] = IF x = n THEN Cardinality(Visited) ELSE low[x]
  BY <1>1, <1>4
<1>6. Visited' = Visited \cup {n}
  <2>1. Cardinality(Visited) # None
    BY <1>3, Requested
  <2>2. Visited' = {m \in nodes : index'[m] # None}
    BY <1>1 DEF Visited
  <2>3. Visited = {m \in nodes : index[m] # None}
    BY DEF Visited
  <2> HIDE DEF Visits
  <2>4. QED
    BY <2>1, <2>2, <2>3, <1>1, <1>5 DEF Visits
<1>7. Cardinality(Visited') = Cardinality(Visited) + 1
  BY <1>6, <1>2, FS_AddElement
<1>8. Cardinality(Visited \cup {n}) <= Cardinality(nodes) /\ Cardinality(nodes) \in Nat
  BY <1>1, <1>2, FS_Subset, FS_CardinalityType
<1>9. n \notin OnStack /\ n \notin Found
  BY DEF SearchInv, VisitedSplits
<1>10. QED
  BY <1>1, <1>2, <1>3, <1>5, <1>6, <1>7, <1>8, <1>9

\* The stacks after a visit.
LEMMA VisitStacks ==
  ASSUME NEW n, NEW frames, Visits(n, frames)
  PROVE  /\ stack' \in Seq(nodes) /\ call' \in Seq(Frame)
         /\ OnStack' = OnStack \cup {n} /\ Found' = Found
         /\ DOMAIN stack' = 1..(Len(stack) + 1) /\ stack'[Len(stack) + 1] = n
         /\ \A i \in DOMAIN stack : stack'[i] = stack[i]
         /\ Len(call') = Len(call) + 1 /\ DOMAIN call' = 1..(Len(call) + 1)
         /\ call'[Len(call) + 1].node = n /\ call'[Len(call) + 1].rest = Successors(n)
         /\ \A i \in DOMAIN call :
              /\ call'[i].node = CallNode(i)
              /\ call'[i].rest = IF i = Len(call) THEN call[i].rest \ {n} ELSE call[i].rest
<1> USE DEF Visits
<1> DEFINE new == [node |-> n, rest |-> Successors(n)]
<1>1. new \in Frame /\ new.node = n /\ new.rest = Successors(n)
  BY Requested DEF Frame
<1>2. stack' = Append(stack, n) /\ call' = Append(frames, new) /\ components' = components
  BY DEF Visit
<1>3. stack \in Seq(nodes) /\ frames \in Seq(Frame) /\ Len(frames) = Len(call)
  BY DEF Below, TypeOK
<1> HIDE DEF new
<1>4. /\ stack' \in Seq(nodes) /\ Len(stack') = Len(stack) + 1
      /\ \A i \in 1..Len(stack) : stack'[i] = stack[i]
      /\ stack'[Len(stack) + 1] = n
  BY <1>2, <1>3, AppendProperties
<1>5. /\ call' \in Seq(Frame) /\ Len(call') = Len(frames) + 1
      /\ \A i \in 1..Len(frames) : call'[i] = frames[i]
      /\ call'[Len(frames) + 1] = new
  BY <1>1, <1>2, <1>3, AppendProperties
<1>6. /\ Len(stack) \in Nat /\ DOMAIN stack = 1..Len(stack)
      /\ Len(call) \in Nat /\ DOMAIN call = 1..Len(call)
  BY StackTypes
<1>7. DOMAIN stack' = 1..(Len(stack) + 1) /\ DOMAIN call' = 1..(Len(call) + 1)
  BY <1>3, <1>4, <1>5, LenProperties
<1>8. OnStack' = OnStack \cup {n}
  <2>1. OnStack' = {stack'[i] : i \in 1..(Len(stack) + 1)}
    BY <1>7 DEF OnStack
  <2>2. OnStack = {stack[i] : i \in 1..Len(stack)}
    BY <1>6 DEF OnStack
  <2>3. 1..(Len(stack) + 1) = 1..Len(stack) \cup {Len(stack) + 1}
    BY <1>6
  <2> HIDE DEF Visits
  <2>4. QED
    BY <2>1, <2>2, <2>3, <1>4
<1>9. Found' = Found
  BY <1>2 DEF Found
<1>10. \A i \in DOMAIN call :
         /\ frames[i].node = CallNode(i)
         /\ frames[i].rest = IF i = Len(call) THEN call[i].rest \ {n} ELSE call[i].rest
  BY DEF Below
<1>11. QED
  BY <1>1, <1>3, <1>4, <1>5, <1>6, <1>7, <1>8, <1>9, <1>10

\* A successor still to be looked at stays one, unless it is the node visited.
LEMMA VisitPending ==
  ASSUME NEW n, NEW frames, Visits(n, frames)
  PROVE  /\ \A v, w : Pending(v, w) /\ w # n => Pending(v, w)'
         /\ \A w \in Successors(n) : Pending(n, w)'
<1> DEFINE L == Len(call)
<1>1. /\ DOMAIN call' = 1..(L + 1) /\ DOMAIN call = 1..L /\ L \in Nat
      /\ call'[L + 1].node = n /\ call'[L + 1].rest = Successors(n)
      /\ \A i \in DOMAIN call :
           /\ call'[i].node = call[i].node
           /\ call'[i].rest = IF i = L THEN call[i].rest \ {n} ELSE call[i].rest
  BY VisitStacks, StackTypes DEF Visits, CallNode
<1> HIDE DEF L
<1>2. ASSUME NEW v, NEW w, NEW i \in DOMAIN call, call[i].node = v, w \in call[i].rest, w # n
      PROVE  \E j \in DOMAIN call' : call'[j].node = v /\ w \in call'[j].rest
  <2>1. i \in DOMAIN call' /\ call'[i].node = v
    <3>1. i \in 1..L /\ L \in Nat
      BY <1>1
    <3>2. i \in 1..(L + 1)
      BY <3>1
    <3>3. QED
      BY <3>2, <1>1, <1>2
  <2>2. w \in call'[i].rest
    <3>1. call'[i].rest = call[i].rest \/ call'[i].rest = call[i].rest \ {n}
      BY <1>1
    <3>2. QED
      BY <3>1, <1>2
  <2>3. QED
    BY <2>1, <2>2
<1>3. L + 1 \in DOMAIN call'
  BY <1>1
<1>4. \A v, w : Pending(v, w) /\ w # n => Pending(v, w)'
  BY <1>2 DEF Pending, CallNode
<1>5. \A w \in Successors(n) : Pending(n, w)'
  BY <1>1, <1>3 DEF Pending, CallNode
<1>6. QED
  BY <1>4, <1>5

LEMMA VisitKeepsSplit ==
  ASSUME NEW n, NEW frames, Visits(n, frames)
  PROVE  VisitedSplits' /\ Numbered'
<1> DEFINE c == Cardinality(Visited)
<1>1. /\ VisitedSplits /\ Numbered /\ TypeOK
      /\ n \in nodes /\ n \in Names /\ nodes' = nodes /\ nodes \subseteq Names
      /\ n \notin OnStack /\ n \notin Found /\ n \notin Visited
      /\ c \in Nat /\ c # None
  BY VisitNumbers, SameRequest, Requested DEF Visits, SearchInv
<1>2. /\ \A x \in Names : index'[x] = IF x = n THEN c ELSE index[x]
      /\ \A x \in Names : low'[x] = IF x = n THEN c ELSE low[x]
      /\ Visited' = Visited \cup {n} /\ Cardinality(Visited') = c + 1
      /\ OnStack' = OnStack \cup {n} /\ Found' = Found
  BY VisitNumbers, VisitStacks
<1> HIDE DEF c
<1>3. VisitedSplits'
  BY <1>1, <1>2 DEF VisitedSplits
<1>4. \A x \in Visited : x \in Names /\ index[x] \in Nat
  BY <1>1, OnStackVisited DEF Visited
<1>5. /\ \A x \in Visited : index[x] < c
      /\ \A x, y \in Visited : index[x] = index[y] => x = y
  BY <1>1 DEF Numbered, c
<1>6. \A x \in Visited' : index'[x] < c + 1
  BY <1>1, <1>2, <1>4, <1>5
<1>7. ASSUME NEW x \in Visited', NEW y \in Visited', index'[x] = index'[y]
      PROVE  x = y
  <2>1. \A z \in Visited : index'[z] = index[z] /\ index[z] # c
    BY <1>1, <1>2, <1>4, <1>5
  <2>2. index'[n] = c
    BY <1>1, <1>2
  <2>3. QED
    BY <2>1, <2>2, <1>2, <1>5, <1>7
<1>8. QED
  BY <1>2, <1>3, <1>6, <1>7 DEF Numbered

LEMMA VisitKeepsOrder ==
  ASSUME NEW n, NEW frames, Visits(n, frames)
  PROVE  StackInOrder' /\ CallInOrder'
<1> DEFINE c == Cardinality(Visited)
<1>1. /\ TypeOK /\ VisitedSplits /\ Numbered /\ StackInOrder /\ CallInOrder
      /\ nodes \subseteq Names /\ n \in Names /\ n \notin OnStack
      /\ c \in Nat /\ request' = request
  BY VisitNumbers, Requested DEF Visits, SearchInv
<1>2. /\ \A x \in Names : index'[x] = IF x = n THEN c ELSE index[x]
      /\ OnStack' = OnStack \cup {n}
  BY VisitNumbers, VisitStacks
<1>3. \A x \in OnStack : x \in Names /\ index[x] \in Nat /\ index[x] < c
  BY <1>1, OnStackVisited DEF Numbered
<1> HIDE DEF c
<1>4. /\ \A x \in OnStack : index'[x] = index[x] /\ index[x] \in Nat /\ index[x] < c
      /\ index'[n] = c
  BY <1>1, <1>2, <1>3
<1>5. /\ DOMAIN stack' = 1..(Len(stack) + 1) /\ stack'[Len(stack) + 1] = n
      /\ \A i \in DOMAIN stack : stack'[i] = stack[i] /\ stack[i] \in OnStack
      /\ DOMAIN stack = 1..Len(stack) /\ Len(stack) \in Nat
  BY <1>1, VisitStacks, StackTypes DEF OnStack
<1>6. ASSUME NEW i \in DOMAIN stack', NEW j \in DOMAIN stack', i < j
      PROVE  index'[stack'[i]] < index'[stack'[j]]
  <2>1. i \in DOMAIN stack
    BY <1>5, <1>6
  <2>2. CASE j \in DOMAIN stack
    <3>1. index[stack[i]] < index[stack[j]]
      BY <2>1, <2>2, <1>1, <1>6 DEF StackInOrder
    <3>2. QED
      BY <3>1, <2>1, <2>2, <1>4, <1>5
  <2>3. CASE j = Len(stack) + 1
    BY <2>1, <2>3, <1>4, <1>5
  <2>4. QED
    BY <2>2, <2>3, <1>5
<1>7. /\ DOMAIN call' = 1..(Len(call) + 1) /\ DOMAIN call = 1..Len(call) /\ Len(call) \in Nat
      /\ call'[Len(call) + 1].node = n /\ call'[Len(call) + 1].rest = Successors(n)
      /\ \A i \in DOMAIN call :
           /\ call'[i].node = call[i].node
           /\ call'[i].rest = IF i = Len(call) THEN call[i].rest \ {n} ELSE call[i].rest
  BY <1>1, VisitStacks, StackTypes DEF CallNode
<1>8. \A i \in DOMAIN call :
        call[i].node \in OnStack /\ call[i].rest \subseteq Successors(call[i].node)
  BY <1>1 DEF CallInOrder, CallNode
<1>9. ASSUME NEW i \in DOMAIN call'
      PROVE  call'[i].node \in OnStack' /\ call'[i].rest \subseteq Successors(call'[i].node)
  <2>1. CASE i \in DOMAIN call
    BY <2>1, <1>2, <1>7, <1>8
  <2>2. CASE i = Len(call) + 1
    BY <2>2, <1>2, <1>7
  <2>3. QED
    BY <2>1, <2>2, <1>7
<1>10. ASSUME NEW i \in DOMAIN call', NEW j \in DOMAIN call', i < j
       PROVE  index'[call'[i].node] < index'[call'[j].node]
  <2>1. i \in DOMAIN call /\ call[i].node \in OnStack
    BY <1>7, <1>8, <1>10
  <2>2. CASE j \in DOMAIN call
    <3>1. index[call[i].node] < index[call[j].node] /\ call[j].node \in OnStack
      BY <2>1, <2>2, <1>1, <1>8, <1>10 DEF CallInOrder, CallNode
    <3>2. QED
      BY <3>1, <2>1, <2>2, <1>4, <1>7
  <2>3. CASE j = Len(call) + 1
    BY <2>1, <2>3, <1>4, <1>7
  <2>4. QED
    BY <2>2, <2>3, <1>7
<1>11. \A x : Successors(x)' = Successors(x)
  BY <1>1, SameRequest
<1>12. QED
  BY <1>6, <1>9, <1>10, <1>11 DEF StackInOrder, CallInOrder, CallNode

LEMMA VisitKeepsClosed ==
  ASSUME NEW n, NEW frames, Visits(n, frames)
  PROVE  SuccessorsSeen' /\ FoundIsClosed' /\ FoundIsStrong'
<1>1. /\ SuccessorsSeen /\ FoundIsClosed /\ FoundIsStrong
      /\ request' = request /\ components' = components
      /\ Found' = Found /\ Visited' = Visited \cup {n} /\ n \in Names /\ nodes \subseteq Names
  BY VisitNumbers, VisitStacks, Requested DEF Visits, Visit, SearchInv
<1>2. /\ \A x : Successors(x)' = Successors(x)
      /\ \A x, y : Reaches(x, y)' <=> Reaches(x, y)
      /\ nodes' = nodes
      /\ \A x : Successors(x) \subseteq nodes
  BY <1>1, SameRequest, Requested DEF Visits
<1>3. ASSUME NEW v \in Visited', NEW w \in Successors(v)
      PROVE  index'[w] # None \/ Pending(v, w)'
  <2>1. w \in Names /\ w \in nodes
    BY <1>1, <1>2
  <2>2. CASE v = n
    BY <2>2, VisitPending
  <2>3. CASE v # n /\ w \in Visited'
    BY <2>3 DEF Visited
  <2>4. CASE v # n /\ w \notin Visited'
    <3>1. v \in Visited /\ w \notin Visited /\ w # n
      BY <2>4, <1>1
    <3>2. Pending(v, w)
      BY <3>1, <2>1, <1>1 DEF SuccessorsSeen, Visited
    <3>3. QED
      BY <3>1, <3>2, VisitPending
  <2>5. QED
    BY <2>2, <2>3, <2>4
<1>4. SuccessorsSeen'
  BY <1>2, <1>3 DEF SuccessorsSeen
<1>5. FoundIsClosed'
  BY <1>1, <1>2 DEF FoundIsClosed
<1>6. \A x, y : Mutual(x, y)' <=> Mutual(x, y)
  BY <1>2 DEF Mutual
<1>7. FoundIsStrong'
  BY <1>1, <1>2, <1>6 DEF FoundIsStrong
<1>8. QED
  BY <1>4, <1>5, <1>7

\* A root is visited when nothing is on the stack; else the top call's node reaches n,
\* and every call's node reaches that one.
LEMMA VisitKeepsReaches ==
  ASSUME NEW n, NEW frames, Visits(n, frames)
  PROVE  CallReaches' /\ ReachesCall'
<1> DEFINE c == Cardinality(Visited)
           L == Len(call)
<1>1. /\ TypeOK /\ VisitedSplits /\ Numbered /\ CallInOrder /\ CallReaches /\ ReachesCall
      /\ nodes \subseteq Names /\ n \in Names /\ n \notin OnStack
      /\ c \in Nat /\ request' = request
  BY VisitNumbers, Requested DEF Visits, SearchInv
<1>2. /\ \A x \in Names : index'[x] = IF x = n THEN c ELSE index[x]
      /\ OnStack' = OnStack \cup {n}
  BY VisitNumbers, VisitStacks
<1>3. \A x \in OnStack : x \in Names /\ index[x] \in Nat /\ index[x] < c
  BY <1>1, OnStackVisited DEF Numbered
<1>4. /\ DOMAIN call' = 1..(L + 1) /\ DOMAIN call = 1..L /\ L \in Nat
      /\ call'[L + 1].node = n
      /\ \A i \in DOMAIN call : call'[i].node = call[i].node /\ call[i].node \in OnStack
  BY <1>1, VisitStacks, StackTypes DEF CallNode, CallInOrder
<1>5. L > 0 => n \in Successors(call[L].node)
  BY DEF Visits, Below, CallNode
<1> HIDE DEF c, L
<1>6. /\ \A x \in OnStack : index'[x] = index[x] /\ index[x] \in Nat /\ index[x] < c
      /\ index'[n] = c
  BY <1>1, <1>2, <1>3
<1>7. \A i \in DOMAIN call : Reaches(call[i].node, n)
  <2> SUFFICES ASSUME NEW i \in DOMAIN call PROVE Reaches(call[i].node, n)
    OBVIOUS
  <2>1. L \in DOMAIN call /\ L > 0 /\ (i = L \/ i < L)
    BY <1>4
  <2>2. index[call[i].node] <= index[call[L].node]
    BY <2>1, <1>1, <1>4, <1>6 DEF CallInOrder, CallNode
  <2>3. Reaches(call[i].node, call[L].node)
    BY <2>1, <2>2, <1>1, <1>4 DEF CallReaches, CallNode
  <2>4. Reaches(call[L].node, n)
    BY <2>1, <1>5, ReachesSuccessor
  <2>5. QED
    BY <2>3, <2>4, ReachesOn
<1>8. ASSUME NEW i \in DOMAIN call', NEW x \in OnStack', index'[call'[i].node] <= index'[x]
      PROVE  Reaches(call'[i].node, x)
  <2>1. CASE i \in DOMAIN call /\ x \in OnStack
    <3>1. index[call[i].node] <= index[x]
      BY <2>1, <1>4, <1>6, <1>8
    <3>2. QED
      BY <2>1, <3>1, <1>1, <1>4 DEF CallReaches, CallNode
  <2>2. CASE i \in DOMAIN call /\ x = n
    BY <2>2, <1>4, <1>7
  <2>3. CASE i = L + 1 /\ x \in OnStack
    <3>1. c <= index[x] /\ index[x] < c /\ c \in Nat /\ index[x] \in Nat
      BY <2>3, <1>1, <1>4, <1>6, <1>8
    <3>2. QED
      BY <3>1
  <2>4. CASE i = L + 1 /\ x = n
    BY <2>4, <1>4, ReachesSelf
  <2>5. i \in DOMAIN call \/ i = L + 1
    BY <1>4
  <2>6. QED
    BY <2>1, <2>2, <2>3, <2>4, <2>5, <1>2
<1>9. ASSUME NEW x \in OnStack'
      PROVE  \E i \in DOMAIN call' : index'[call'[i].node] <= index'[x] /\ Reaches(x, call'[i].node)
  <2>1. CASE x \in OnStack
    <3>1. PICK i \in DOMAIN call : index[call[i].node] <= index[x] /\ Reaches(x, call[i].node)
      BY <2>1, <1>1 DEF ReachesCall, CallNode
    <3>2. i \in DOMAIN call'
      BY <1>4
    <3>3. index'[call'[i].node] <= index'[x] /\ Reaches(x, call'[i].node)
      BY <3>1, <2>1, <1>4, <1>6
    <3>4. QED
      BY <3>2, <3>3
  <2>2. CASE x = n
    <3>1. L + 1 \in DOMAIN call'
      BY <1>4
    <3>2. index'[call'[L + 1].node] <= index'[x] /\ Reaches(x, call'[L + 1].node)
      BY <2>2, <1>1, <1>4, <1>6, ReachesSelf
    <3>3. QED
      BY <3>1, <3>2
  <2>3. QED
    BY <2>1, <2>2, <1>2
<1>10. \A x, y : Reaches(x, y)' <=> Reaches(x, y)
  BY <1>1, SameRequest
<1>11. CallReaches'
  BY <1>8, <1>10 DEF CallReaches, CallNode
<1>12. ReachesCall'
  BY <1>9, <1>10 DEF ReachesCall, CallNode
<1>13. QED
  BY <1>11, <1>12

\* The new call's part of the stack is n alone, and all its edges are still to be looked
\* at; the edge to n itself leads up.
LEMMA VisitKeepsLow ==
  ASSUME NEW n, NEW frames, Visits(n, frames)
  PROVE  LowIsReached' /\ LowIsLowest'
<1> DEFINE c == Cardinality(Visited)
           L == Len(call)
<1>1. /\ TypeOK /\ VisitedSplits /\ Numbered /\ CallInOrder /\ LowIsReached /\ LowIsLowest
      /\ nodes \subseteq Names /\ n \in Names /\ n \notin OnStack
      /\ c \in Nat /\ request' = request
  BY VisitNumbers, Requested DEF Visits, SearchInv
<1>2. /\ \A x \in Names : index'[x] = IF x = n THEN c ELSE index[x]
      /\ \A x \in Names : low'[x] = IF x = n THEN c ELSE low[x]
      /\ OnStack' = OnStack \cup {n}
  BY VisitNumbers, VisitStacks
<1>3. \A x \in OnStack : x \in Names /\ index[x] \in Nat /\ index[x] < c /\ low[x] \in Nat
  BY <1>1, OnStackVisited DEF Numbered
<1>4. /\ DOMAIN call' = 1..(L + 1) /\ DOMAIN call = 1..L /\ L \in Nat /\ Len(call') = L + 1
      /\ call'[L + 1].node = n
      /\ \A i \in DOMAIN call : call'[i].node = call[i].node /\ call[i].node \in OnStack
  BY <1>1, VisitStacks, StackTypes DEF CallNode, CallInOrder
<1> HIDE DEF c
<1>5. /\ \A x \in OnStack : /\ index'[x] = index[x] /\ low'[x] = low[x]
                            /\ index[x] \in Nat /\ index[x] < c /\ low[x] \in Nat
      /\ index'[n] = c /\ low'[n] = c
  BY <1>1, <1>2, <1>3
<1>6. ASSUME NEW i \in DOMAIN call'
      PROVE  /\ low'[call'[i].node] <= index'[call'[i].node]
             /\ \E u \in OnStack' : index'[u] = low'[call'[i].node] /\ Reaches(call'[i].node, u)
  <2>1. CASE i \in DOMAIN call
    <3>1. PICK u \in OnStack : index[u] = low[call[i].node] /\ Reaches(call[i].node, u)
      BY <2>1, <1>1 DEF LowIsReached, CallNode
    <3>2. u \in OnStack' /\ index'[u] = low'[call'[i].node] /\ Reaches(call'[i].node, u)
      BY <3>1, <2>1, <1>2, <1>4, <1>5
    <3>3. low[call[i].node] <= index[call[i].node]
      BY <2>1, <1>1 DEF LowIsReached, CallNode
    <3>4. QED
      BY <3>2, <3>3, <2>1, <1>4, <1>5
  <2>2. CASE i = L + 1
    <3>1. call'[i].node = n
      BY <2>2, <1>4
    <3>2. n \in OnStack' /\ Reaches(n, n) /\ index'[n] = low'[n] /\ low'[n] <= index'[n]
      BY <1>1, <1>2, <1>5, ReachesSelf
    <3>3. QED
      BY <3>1, <3>2
  <2>3. QED
    BY <2>1, <2>2, <1>4
<1>7. ASSUME NEW i \in DOMAIN call', NEW x \in OnStack', NEW w \in OnStack',
             Region(i, x)', w \in Successors(x), ~Pending(x, w)'
      PROVE  low'[call'[i].node] <= index'[w]
  <2>1. x # n
    BY <1>7, VisitPending
  <2>2. x \in OnStack
    BY <2>1, <1>2
  <2>3. i # L + 1
    <3>1. index'[call'[i].node] <= index'[x]
      BY <1>7 DEF Region, CallNode
    <3>2. index'[x] < c /\ index'[x] \in Nat
      BY <2>2, <1>5
    <3>3. QED
      BY <3>1, <3>2, <1>1, <1>4, <1>5
  <2>4. i \in DOMAIN call
    BY <2>3, <1>4
  <2>5. low'[call'[i].node] = low[call[i].node] /\ low[call[i].node] \in Nat
    BY <2>4, <1>4, <1>5
  <2>6. CASE w = n
    <3>1. low[call[i].node] <= index[call[i].node]
      BY <2>4, <1>1 DEF LowIsReached, CallNode
    <3>2. index[call[i].node] \in Nat /\ index[call[i].node] < c
      BY <2>4, <1>4, <1>5
    <3>3. low[call[i].node] <= c
      BY <3>1, <3>2, <2>5, <1>1
    <3>4. QED
      BY <3>3, <2>5, <2>6, <1>5
  <2>7. CASE w \in OnStack
    <3>1. ~Pending(x, w)
      BY <2>7, <1>1, <1>7, VisitPending
    <3>2. index[call[i].node] <= index[x]
      BY <2>2, <2>4, <1>4, <1>5, <1>7 DEF Region, CallNode
    <3>3. ASSUME i < L PROVE index[x] < index[call[i + 1].node]
      <4>1. i + 1 \in DOMAIN call
        BY <3>3, <2>4, <1>4
      <4>2. i < Len(call')
        BY <2>4, <1>4
      <4>3. index'[x] < index'[call'[i + 1].node]
        BY <4>2, <1>7 DEF Region, CallNode
      <4>4. QED
        BY <4>1, <4>3, <2>2, <1>4, <1>5
    <3>4. Region(i, x)
      BY <3>2, <3>3 DEF Region, CallNode
    <3>5. low[call[i].node] <= index[w]
      BY <3>1, <3>4, <2>2, <2>4, <2>7, <1>1, <1>7 DEF LowIsLowest, CallNode
    <3>6. QED
      BY <3>5, <2>5, <2>7, <1>5
  <2>8. QED
    BY <2>6, <2>7, <1>2
<1>8. /\ \A x, y : Reaches(x, y)' <=> Reaches(x, y)
      /\ \A x : Successors(x)' = Successors(x)
  BY <1>1, SameRequest
<1>9. LowIsReached'
  BY <1>6, <1>8 DEF LowIsReached, CallNode
<1>10. LowIsLowest'
  BY <1>7, <1>8 DEF LowIsLowest, CallNode
<1>11. QED
  BY <1>9, <1>10

LEMMA VisitKeepsSearchInv ==
  ASSUME NEW n, NEW frames, Visits(n, frames)
  PROVE  SearchInv'
BY VisitKeepsSplit, VisitKeepsOrder, VisitKeepsClosed, VisitKeepsReaches, VisitKeepsLow
   DEF SearchInv

-----------------------------------------------------------------------------
(* A visited successor is looked at *)

\* The node whose successors are looked at.
Top == CallNode(Len(call))

\* The state after a look at w.
LEMMA LookFacts ==
  ASSUME TypeOK, SearchInv, NEW w, SeeAgain(w)
  PROVE  /\ call' \in Seq(Frame) /\ Len(call') = Len(call) /\ DOMAIN call' = DOMAIN call
         /\ Len(call) \in DOMAIN call
         /\ \A i \in DOMAIN call :
              /\ call'[i].node = CallNode(i)
              /\ call'[i].rest = IF i = Len(call) THEN call[i].rest \ {w} ELSE call[i].rest
         /\ Top \in OnStack /\ w \in Successors(Top) /\ w \in Visited
         /\ request' = request /\ index' = index /\ stack' = stack /\ components' = components
         /\ Visited' = Visited /\ OnStack' = OnStack /\ Found' = Found
         /\ \A x \in Names : low'[x] = IF x = Top THEN LowAfter(Top, w) ELSE low[x]
<1> DEFINE L == Len(call)
<1>1. /\ call # <<>> /\ L \in DOMAIN call /\ DOMAIN call = 1..L /\ L \in Nat
  BY StackTypes DEF SeeAgain
<1>2. /\ call' = Yielded(w)
      /\ Yielded(w) \in Seq(Frame) /\ Len(Yielded(w)) = L
      /\ \A i \in DOMAIN call :
           /\ Yielded(w)[i].node = CallNode(i)
           /\ Yielded(w)[i].rest = IF i = L THEN call[i].rest \ {w} ELSE call[i].rest
  BY <1>1, YieldedFrames DEF SeeAgain
<1>3. DOMAIN call' = 1..L
  BY <1>2, LenProperties
<1>4. Top \in OnStack /\ call[L].rest \subseteq Successors(Top)
  BY <1>1 DEF SearchInv, CallInOrder, Top
<1>5. w \in call[L].rest /\ w \in Visited /\ Last(call).node = Top
  BY DEF SeeAgain, Last, Top, CallNode
<1>6. request' = request /\ index' = index /\ stack' = stack /\ components' = components
  BY DEF SeeAgain
<1>7. Visited' = Visited /\ OnStack' = OnStack /\ Found' = Found
  BY <1>6 DEF Visited, nodes, OnStack, Found
<1>8. low' = [low EXCEPT ![Top] = LowAfter(Top, w)] /\ DOMAIN low = Names
  BY <1>5 DEF SeeAgain, TypeOK
<1>9. \A x \in Names : low'[x] = IF x = Top THEN LowAfter(Top, w) ELSE low[x]
  BY <1>8
<1>10. QED
  BY <1>1, <1>2, <1>3, <1>4, <1>5, <1>6, <1>7, <1>9

\* The low only falls, at most to the number of w, and then w is on the stack.
LEMMA LookLow ==
  ASSUME TypeOK, SearchInv, NEW w, SeeAgain(w)
  PROVE  /\ \A x \in Visited : low'[x] \in Nat /\ low'[x] <= low[x]
         /\ \A x \in Visited : x # Top => low'[x] = low[x]
         /\ low'[Top] = low[Top] \/ (w \in OnStack /\ low'[Top] = index[w])
         /\ w \in OnStack => low'[Top] <= index[w]
<1>1. /\ Top \in OnStack /\ Top \in Visited /\ w \in Visited /\ Visited \subseteq Names
      /\ \A x \in Visited : index[x] \in Nat /\ low[x] \in Nat
      /\ \A x \in Names : low'[x] = IF x = Top THEN LowAfter(Top, w) ELSE low[x]
  BY LookFacts, OnStackVisited, Requested DEF SearchInv, Visited
<1>2. LowAfter(Top, w) = IF w \in OnStack THEN Smaller(low[Top], index[w]) ELSE low[Top]
  BY DEF LowAfter, OnStack, ToSet
<1>3. /\ Smaller(low[Top], index[w]) \in {low[Top], index[w]}
      /\ Smaller(low[Top], index[w]) <= low[Top] /\ Smaller(low[Top], index[w]) <= index[w]
  BY <1>1 DEF Smaller
<1>4. low'[Top] = LowAfter(Top, w)
  BY <1>1
<1>5. low'[Top] \in Nat /\ low'[Top] <= low[Top]
  BY <1>1, <1>2, <1>3, <1>4
<1>6. QED
  BY <1>1, <1>2, <1>3, <1>4, <1>5

\* The other successors stay where they are.
LEMMA LookPending ==
  ASSUME TypeOK, SearchInv, NEW w, SeeAgain(w)
  PROVE  \A v, u : Pending(v, u) => Pending(v, u)' \/ (v = Top /\ u = w)
<1>1. ASSUME NEW v, NEW u, NEW i \in DOMAIN call, CallNode(i) = v, u \in call[i].rest
      PROVE  (\E j \in DOMAIN call' : call'[j].node = v /\ u \in call'[j].rest) \/ (v = Top /\ u = w)
  <2>1. /\ i \in DOMAIN call' /\ call'[i].node = v
        /\ call'[i].rest = IF i = Len(call) THEN call[i].rest \ {w} ELSE call[i].rest
    BY <1>1, LookFacts
  <2>2. CASE i = Len(call) /\ u = w
    BY <2>2, <1>1 DEF Top
  <2>3. CASE i # Len(call) \/ u # w
    <3>1. call'[i].rest = call[i].rest \/ (u # w /\ call'[i].rest = call[i].rest \ {w})
      BY <2>1, <2>3
    <3>2. u \in call'[i].rest
      BY <3>1, <1>1
    <3>3. QED
      BY <3>2, <2>1
  <2>4. QED
    BY <2>2, <2>3
<1>2. QED
  BY <1>1 DEF Pending, CallNode

LEMMA LookKeepsLow ==
  ASSUME TypeOK, SearchInv, NEW w, SeeAgain(w)
  PROVE  LowIsReached' /\ LowIsLowest'
<1> DEFINE L == Len(call)
<1>1. /\ CallInOrder /\ LowIsReached /\ LowIsLowest
      /\ request' = request /\ index' = index /\ OnStack' = OnStack
      /\ DOMAIN call' = DOMAIN call /\ Len(call') = L /\ L \in DOMAIN call
      /\ DOMAIN call = 1..L /\ L \in Nat
      /\ \A i \in DOMAIN call : call'[i].node = CallNode(i) /\ CallNode(i) \in OnStack
      /\ Top \in OnStack /\ w \in Successors(Top) /\ Top = CallNode(L)
  BY LookFacts, StackTypes DEF SearchInv, CallInOrder, Top
<1>2. /\ \A x \in OnStack : x \in Visited /\ index[x] \in Nat /\ low[x] \in Nat
  BY OnStackVisited DEF SearchInv
<1>3. /\ \A x \in OnStack : low'[x] \in Nat /\ low'[x] <= low[x]
      /\ \A x \in OnStack : x # Top => low'[x] = low[x]
      /\ low'[Top] = low[Top] \/ (w \in OnStack /\ low'[Top] = index[w])
      /\ w \in OnStack => low'[Top] <= index[w]
  BY <1>2, LookLow
<1> HIDE DEF L
<1>4. ASSUME NEW i \in DOMAIN call
      PROVE  /\ low'[CallNode(i)] <= index[CallNode(i)]
             /\ \E u \in OnStack : index[u] = low'[CallNode(i)] /\ Reaches(CallNode(i), u)
  <2>1. CallNode(i) \in OnStack /\ low[CallNode(i)] <= index[CallNode(i)]
    BY <1>1 DEF LowIsReached
  <2>2. low'[CallNode(i)] <= index[CallNode(i)]
    BY <2>1, <1>2, <1>3
  <2>3. PICK u \in OnStack : index[u] = low[CallNode(i)] /\ Reaches(CallNode(i), u)
    BY <1>1 DEF LowIsReached
  <2>4. CASE low'[CallNode(i)] = low[CallNode(i)]
    BY <2>2, <2>3, <2>4
  <2>5. CASE low'[CallNode(i)] # low[CallNode(i)]
    <3>1. CallNode(i) = Top /\ w \in OnStack /\ low'[Top] = index[w]
      BY <2>1, <2>5, <1>3
    <3>2. Reaches(Top, w)
      BY <1>1, ReachesSuccessor
    <3>3. QED
      BY <2>2, <3>1, <3>2
  <2>6. QED
    BY <2>4, <2>5
<1>5. ASSUME NEW i \in DOMAIN call, NEW x \in OnStack, NEW u \in OnStack,
             Region(i, x), u \in Successors(x), ~Pending(x, u)'
      PROVE  low'[CallNode(i)] <= index[u]
  <2>1. low'[CallNode(i)] <= low[CallNode(i)] /\ low'[CallNode(i)] \in Nat
        /\ low[CallNode(i)] \in Nat /\ index[u] \in Nat
    BY <1>1, <1>2, <1>3
  <2>2. CASE ~Pending(x, u)
    <3>1. low[CallNode(i)] <= index[u]
      BY <2>2, <1>1, <1>5 DEF LowIsLowest
    <3>2. QED
      BY <3>1, <2>1
  <2>3. CASE Pending(x, u)
    <3>1. x = Top /\ u = w
      BY <2>3, <1>5, LookPending
    <3>2. i = L
      <4> SUFFICES ASSUME i # L PROVE FALSE
        OBVIOUS
      <4>1. i < L /\ i + 1 \in DOMAIN call /\ (i + 1 = L \/ i + 1 < L)
        BY <1>1
      <4>2. index[Top] < index[CallNode(i + 1)]
        BY <4>1, <1>5, <3>1 DEF Region, L
      <4>3. CallNode(i + 1) = Top \/ index[CallNode(i + 1)] < index[Top]
        BY <4>1, <1>1 DEF CallInOrder
      <4>4. index[CallNode(i + 1)] \in Nat /\ index[Top] \in Nat
        BY <4>1, <1>1, <1>2
      <4>5. QED
        BY <4>2, <4>3, <4>4
    <3>3. QED
      BY <3>1, <3>2, <1>1, <1>3
  <2>4. QED
    BY <2>2, <2>3
<1>6. /\ \A x, y : Reaches(x, y)' <=> Reaches(x, y)
      /\ \A x : Successors(x)' = Successors(x)
  BY <1>1, SameRequest
<1>7. \A i \in DOMAIN call : CallNode(i)' = CallNode(i)
  BY <1>1 DEF CallNode
<1>8. LowIsReached'
  BY <1>1, <1>4, <1>6, <1>7 DEF LowIsReached
<1>9. \A i \in DOMAIN call : \A x : Region(i, x)' => Region(i, x)
  <2> SUFFICES ASSUME NEW i \in DOMAIN call, NEW x, Region(i, x)' PROVE Region(i, x)
    OBVIOUS
  <2>1. CallNode(i)' = CallNode(i) /\ index' = index /\ Len(call') = Len(call)
    BY <1>1, <1>7 DEF L
  <2>2. i < Len(call) => i + 1 \in DOMAIN call
    BY <1>1 DEF L
  <2>3. QED
    BY <2>1, <2>2, <1>7 DEF Region
<1>10. LowIsLowest'
  BY <1>1, <1>5, <1>6, <1>7, <1>9 DEF LowIsLowest
<1>11. QED
  BY <1>8, <1>10

LEMMA LookKeepsSearchInv ==
  ASSUME TypeOK, SearchInv, NEW w, SeeAgain(w)
  PROVE  SearchInv'
<1>1. /\ request' = request /\ index' = index /\ stack' = stack /\ components' = components
      /\ Visited' = Visited /\ OnStack' = OnStack /\ Found' = Found
      /\ DOMAIN call' = DOMAIN call
      /\ \A i \in DOMAIN call :
           /\ call'[i].node = CallNode(i)
           /\ call'[i].rest = IF i = Len(call) THEN call[i].rest \ {w} ELSE call[i].rest
      /\ w \in Visited /\ Top \in OnStack
      /\ \A x \in Names : low'[x] = IF x = Top THEN LowAfter(Top, w) ELSE low[x]
  BY LookFacts
<1>2. /\ \A x, y : Reaches(x, y)' <=> Reaches(x, y)
      /\ \A x : Successors(x)' = Successors(x) /\ Successors(x) \subseteq nodes
      /\ nodes' = nodes /\ nodes \subseteq Names /\ None \notin Nat
  BY <1>1, SameRequest, Requested
<1>3. \A i \in DOMAIN call : CallNode(i)' = CallNode(i) /\ call'[i].rest \subseteq call[i].rest
  <2>1. \A i \in DOMAIN call : CallNode(i)' = CallNode(i)
    BY <1>1 DEF CallNode
  <2>2. \A i \in DOMAIN call : call'[i].rest = call[i].rest \/ call'[i].rest = call[i].rest \ {w}
    BY <1>1
  <2>3. QED
    BY <2>1, <2>2
<1>4. VisitedSplits'
  <2>1. Top \in Visited /\ low[Top] # None /\ low'[Top] # None /\ Top \in Names /\ index[Top] # None
    BY <1>1, <1>2, LookLow, OnStackVisited DEF SearchInv, VisitedSplits, Visited
  <2>2. \A x \in Names : low'[x] = None <=> low[x] = None
    BY <2>1, <1>1
  <2>3. QED
    BY <2>2, <1>1, <1>2 DEF SearchInv, VisitedSplits
<1>5. Numbered' /\ StackInOrder'
  BY <1>1 DEF SearchInv, Numbered, StackInOrder
<1>6. CallInOrder'
  BY <1>1, <1>2, <1>3 DEF SearchInv, CallInOrder
<1>7. SuccessorsSeen'
  <2> SUFFICES ASSUME NEW v \in Visited, NEW u \in Successors(v)
               PROVE  index[u] # None \/ Pending(v, u)'
    BY <1>1, <1>2 DEF SuccessorsSeen
  <2>1. index[u] # None \/ Pending(v, u)
    BY DEF SearchInv, SuccessorsSeen
  <2>2. Pending(v, u) => Pending(v, u)' \/ u = w
    BY LookPending
  <2>3. index[w] # None
    BY <1>1 DEF Visited
  <2>4. QED
    BY <2>1, <2>2, <2>3
<1>8. FoundIsClosed'
  BY <1>1, <1>2 DEF SearchInv, FoundIsClosed
<1>9. CallReaches' /\ ReachesCall'
  BY <1>1, <1>2, <1>3 DEF SearchInv, CallReaches, ReachesCall
<1>10. FoundIsStrong'
  BY <1>1, <1>2 DEF SearchInv, FoundIsStrong, Mutual
<1>11. QED
  BY <1>4, <1>5, <1>6, <1>7, <1>8, <1>9, <1>10, LookKeepsLow DEF SearchInv

-----------------------------------------------------------------------------
(* A call returns *)

\* The part of the stack from the top call's node on.
Above == {x \in OnStack : index[Top] <= index[x]}

Root == low[Top] = index[Top]

\* The calls and lows after the top call has returned; none of its successors was left.
LEMMA ReturnFacts ==
  ASSUME TypeOK, SearchInv, Retreat
  PROVE  /\ Len(call) \in Nat \ {0} /\ DOMAIN call = 1..Len(call) /\ Len(call) \in DOMAIN call
         /\ call' \in Seq(Frame) /\ Len(call') = Len(call) - 1 /\ DOMAIN call' = 1..(Len(call) - 1)
         /\ \A i \in DOMAIN call' : i \in DOMAIN call /\ i # Len(call) /\ call'[i] = call[i]
         /\ call[Len(call)].rest = {} /\ Top \in OnStack
         /\ request' = request /\ index' = index /\ Visited' = Visited
         /\ Len(call) = 1 => low' = low
         /\ Len(call) > 1 =>
              /\ Len(call) - 1 \in DOMAIN call'
              /\ low' = [low EXCEPT ![CallNode(Len(call) - 1)] = Smaller(@, low[Top])]
         /\ ~Root => stack' = stack /\ components' = components
<1> DEFINE L == Len(call)
<1>1. L \in Nat \ {0} /\ DOMAIN call = 1..L /\ L \in DOMAIN call /\ call # <<>>
  BY StackTypes DEF Retreat
<1>2. /\ call' = Front(call) /\ Front(call) \in Seq(Frame) /\ Len(Front(call)) = L - 1
      /\ \A i \in 1..(L - 1) : Front(call)[i] = call[i]
  BY <1>1, FrontFrames DEF Retreat
<1>3. DOMAIN call' = 1..(L - 1)
  BY <1>2, LenProperties
<1>4. Last(call).node = Top /\ Last(call).rest = call[L].rest /\ call[L].rest = {}
  BY DEF Last, Top, CallNode, Retreat
<1>5. Top \in OnStack
  BY <1>1 DEF SearchInv, CallInOrder, Top
<1>6. request' = request /\ index' = index /\ Visited' = Visited
  BY DEF Retreat, Visited, nodes
<1>7. Front(call) = <<>> <=> L = 1
  <2>1. Front(call) = <<>> => Len(Front(call)) = 0
    OBVIOUS
  <2>2. Len(Front(call)) = 0 => Front(call) = <<>>
    BY <1>2, EmptySeq
  <2>3. QED
    BY <2>1, <2>2, <1>1, <1>2
<1>8. low' = IF Front(call) = <<>> THEN low
             ELSE [low EXCEPT ![Last(Front(call)).node] = Smaller(@, low[Top])]
  BY <1>4 DEF Retreat
<1>9. L > 1 => Last(Front(call)).node = CallNode(L - 1)
  BY <1>1, <1>2 DEF Last, CallNode
<1>10. ~Root => stack' = stack /\ components' = components
  BY <1>4 DEF Retreat, Root
<1> HIDE DEF L
<1>11. /\ \A i \in 1..(L - 1) : i \in 1..L /\ i # L
       /\ L > 1 => L - 1 \in 1..(L - 1)
       /\ L = 1 \/ L > 1
  BY <1>1
<1>12. /\ \A i \in DOMAIN call' : i \in DOMAIN call /\ i # L /\ call'[i] = call[i]
       /\ call' \in Seq(Frame) /\ Len(call') = L - 1
  BY <1>1, <1>2, <1>3, <1>11
<1>13. /\ L = 1 => low' = low
       /\ L > 1 => /\ L - 1 \in DOMAIN call'
                   /\ low' = [low EXCEPT ![CallNode(L - 1)] = Smaller(@, low[Top])]
  <2>1. L = 1 => low' = low
    BY <1>7, <1>8
  <2>2. ASSUME L > 1
        PROVE  low' = [low EXCEPT ![CallNode(L - 1)] = Smaller(@, low[Top])]
    <3>1. Front(call) # <<>> /\ Last(Front(call)).node = CallNode(L - 1)
      BY <2>2, <1>1, <1>7, <1>9
    <3>2. low' = [low EXCEPT ![Last(Front(call)).node] = Smaller(@, low[Top])]
      BY <3>1, <1>8
    <3>3. QED
      BY <3>1, <3>2
  <2>3. L > 1 => L - 1 \in DOMAIN call'
    BY <1>3, <1>11
  <2>4. QED
    BY <2>1, <2>2, <2>3
<1>14. QED
  BY <1>1, <1>3, <1>4, <1>5, <1>6, <1>10, <1>12, <1>13 DEF L

\* The caller's low falls to that of the node returned if that is smaller.
LEMMA ReturnLow ==
  ASSUME TypeOK, SearchInv, Retreat
  PROVE  /\ \A x \in Visited : low'[x] \in Nat /\ low'[x] <= low[x]
         /\ \A i \in DOMAIN call' :
              /\ i # Len(call) - 1 => low'[CallNode(i)] = low[CallNode(i)]
              /\ i = Len(call) - 1 =>
                   /\ low'[CallNode(i)] <= low[Top]
                   /\ low'[CallNode(i)] \in {low[CallNode(i)], low[Top]}
         /\ \A x \in Names : low'[x] = None <=> low[x] = None
<1> DEFINE L == Len(call)
           p == CallNode(L - 1)
<1>1. /\ L \in Nat \ {0} /\ DOMAIN call = 1..L /\ DOMAIN call' = 1..(L - 1) /\ Top \in OnStack
      /\ L = 1 => low' = low
      /\ L > 1 => L - 1 \in DOMAIN call' /\ low' = [low EXCEPT ![p] = Smaller(@, low[Top])]
  BY ReturnFacts
<1>2. /\ \A i \in DOMAIN call : CallNode(i) \in OnStack /\ CallNode(i) \in Visited
      /\ \A i, j \in DOMAIN call : i < j => index[CallNode(i)] < index[CallNode(j)]
      /\ \A x \in Visited : index[x] \in Nat /\ low[x] \in Nat
      /\ Top \in Visited /\ Visited \subseteq Names /\ DOMAIN low = Names /\ None \notin Nat
  BY <1>1, OnStackVisited, Requested DEF SearchInv, CallInOrder, TypeOK, Visited
<1> HIDE DEF L
<1>3. CASE L = 1
  BY <1>1, <1>2, <1>3
<1>4. CASE L > 1
  <2> DEFINE s == Smaller(low[p], low[Top])
  <2>1. p \in Visited /\ p \in Names /\ L - 1 \in DOMAIN call
    BY <1>1, <1>2, <1>4
  <2>2. low[p] \in Nat /\ low[Top] \in Nat
    BY <2>1, <1>2
  <2>3. s \in Nat /\ s <= low[p] /\ s <= low[Top] /\ s \in {low[p], low[Top]}
    BY <2>2 DEF Smaller
  <2>4. \A x \in Names : low'[x] = IF x = p THEN s ELSE low[x]
    BY <1>1, <1>2, <1>4
  <2> HIDE DEF s, p
  <2>5. \A x \in Visited : low'[x] \in Nat /\ low'[x] <= low[x]
    BY <2>1, <2>2, <2>3, <2>4, <1>2
  <2>6. ASSUME NEW i \in DOMAIN call', i # L - 1
        PROVE  low'[CallNode(i)] = low[CallNode(i)]
    <3>1. i \in DOMAIN call /\ L - 1 \in DOMAIN call /\ i < L - 1
      BY <2>1, <2>6, <1>1
    <3>2. index[CallNode(i)] < index[p] /\ index[p] \in Nat /\ CallNode(i) \in Names
      BY <3>1, <2>1, <1>2 DEF p
    <3>3. CallNode(i) # p
      BY <3>2
    <3>4. QED
      BY <3>2, <3>3, <2>4
  <2>7. /\ low'[p] <= low[Top] /\ low'[p] \in {low[p], low[Top]}
    BY <2>1, <2>3, <2>4
  <2>8. \A x \in Names : low'[x] = None <=> low[x] = None
    <3>1. low[p] # None /\ s # None
      BY <2>2, <2>3, <1>2
    <3>2. QED
      BY <3>1, <2>4
  <2>9. QED
    BY <2>5, <2>6, <2>7, <2>8 DEF p, L
<1>5. QED
  BY <1>1, <1>3, <1>4

\* No successor still to be looked at gets lost.
LEMMA ReturnPending ==
  ASSUME TypeOK, SearchInv, Retreat
  PROVE  \A v, u : Pending(v, u) => Pending(v, u)'
<1> SUFFICES ASSUME NEW v, NEW u, NEW i \in DOMAIN call, call[i].node = v, u \in call[i].rest
             PROVE  \E j \in DOMAIN call' : call'[j].node = v /\ u \in call'[j].rest
  BY DEF Pending, CallNode
<1> DEFINE L == Len(call)
<1>1. /\ L \in Nat \ {0} /\ DOMAIN call = 1..L /\ DOMAIN call' = 1..(L - 1)
      /\ call[L].rest = {} /\ \A j \in DOMAIN call' : call'[j] = call[j]
  BY ReturnFacts
<1> HIDE DEF L
<1>2. i # L
  BY <1>1
<1>3. i \in DOMAIN call'
  BY <1>1, <1>2
<1>4. QED
  BY <1>1, <1>3

\* A root takes everything from itself on off the stack.
LEMMA RootTakesAbove ==
  ASSUME TypeOK, SearchInv, Retreat, Root
  PROVE  /\ stack' \in Seq(nodes) /\ OnStack' = OnStack \ Above
         /\ components' = components \cup {Above} /\ Found' = Found \cup Above
         /\ StackInOrder'
<1> DEFINE from == CHOOSE i \in DOMAIN stack : stack[i] = Top
           N == Len(stack)
<1>1. N \in Nat /\ DOMAIN stack = 1..N /\ stack \in Seq(nodes)
      /\ \A i \in 1..N : stack[i] \in nodes
  BY StackTypes DEF TypeOK
<1>2. from \in 1..N /\ stack[from] = Top
  <2>1. \E i \in DOMAIN stack : stack[i] = Top
    BY ReturnFacts DEF OnStack
  <2>2. QED
    BY <2>1, <1>1
<1>3. Last(call).node = Top
  BY DEF Last, Top, CallNode
<1>4. /\ components' = components \cup {{stack[i] : i \in from..N}}
      /\ stack' = SubSeq(stack, 1, from - 1)
      /\ index' = index
  BY <1>3 DEF Retreat, Root
<1> HIDE DEF from, N
<1>5. \A i \in 1..N : stack[i] \in OnStack /\ index[stack[i]] \in Nat
  BY <1>1, OnStackVisited DEF OnStack, SearchInv
<1>6. \A i, j \in 1..N : i < j => index[stack[i]] < index[stack[j]]
  BY <1>1 DEF SearchInv, StackInOrder
<1>7. \A i \in 1..N : i < from => index[stack[i]] < index[Top]
  BY <1>2, <1>6
<1>8. \A i \in 1..N : i >= from => index[Top] <= index[stack[i]]
  <2> SUFFICES ASSUME NEW i \in 1..N, i >= from PROVE index[Top] <= index[stack[i]]
    OBVIOUS
  <2>1. CASE i = from
    BY <2>1, <1>2, <1>5
  <2>2. CASE i > from
    BY <2>2, <1>2, <1>5, <1>6
  <2>3. QED
    BY <2>1, <2>2, <1>1, <1>2
<1>9. OnStack = {stack[i] : i \in 1..N}
  BY <1>1 DEF OnStack
<1>10. {stack[i] : i \in from..N} = Above
  <2>1. ASSUME NEW i \in from..N PROVE stack[i] \in Above
    <3>1. i \in 1..N /\ i >= from
      BY <2>1, <1>1, <1>2
    <3>2. QED
      BY <3>1, <1>5, <1>8 DEF Above
  <2>2. ASSUME NEW x \in Above PROVE x \in {stack[i] : i \in from..N}
    <3>1. PICK i \in 1..N : x = stack[i]
      BY <1>9 DEF Above
    <3>2. index[Top] <= index[stack[i]] /\ index[stack[i]] \in Nat /\ index[Top] \in Nat
      BY <3>1, <1>2, <1>5 DEF Above
    <3>3. ~(i < from)
      BY <3>2, <1>7
    <3>4. i \in from..N
      BY <3>3, <1>1, <1>2
    <3>5. QED
      BY <3>1, <3>4
  <2>3. QED
    BY <2>1, <2>2
<1>11. /\ stack' \in Seq(nodes) /\ Len(stack') = from - 1
       /\ \A i \in 1..(from - 1) : stack'[i] = stack[i]
  <2>1. \A i \in 1..(from - 1) : stack[i] \in nodes
    BY <1>1, <1>2
  <2>2. /\ SubSeq(stack, 1, from - 1) \in Seq(nodes)
        /\ Len(SubSeq(stack, 1, from - 1)) = IF 1 <= from - 1 THEN (from - 1) - 1 + 1 ELSE 0
        /\ \A i \in 1..((from - 1) - 1 + 1) : SubSeq(stack, 1, from - 1)[i] = stack[1 + i - 1]
    BY <2>1, <1>1, <1>2, SubSeqProperties
  <2>3. QED
    BY <2>2, <1>1, <1>2, <1>4
<1>12. DOMAIN stack' = 1..(from - 1)
  BY <1>11, LenProperties
<1>13. OnStack' = {stack[i] : i \in 1..(from - 1)}
  <2>1. OnStack' = {stack'[i] : i \in 1..(from - 1)}
    BY <1>12 DEF OnStack
  <2>2. QED
    BY <2>1, <1>11
<1>14. OnStack' = OnStack \ Above
  <2>1. ASSUME NEW i \in 1..(from - 1) PROVE stack[i] \in OnStack /\ stack[i] \notin Above
    <3>1. i \in 1..N /\ i < from
      BY <2>1, <1>1, <1>2
    <3>2. index[stack[i]] < index[Top] /\ index[stack[i]] \in Nat /\ index[Top] \in Nat
      BY <3>1, <1>2, <1>5, <1>7
    <3>3. ~(index[Top] <= index[stack[i]])
      BY <3>2
    <3>4. QED
      BY <3>1, <3>3, <1>5 DEF Above
  <2>2. ASSUME NEW x \in OnStack, x \notin Above PROVE x \in {stack[i] : i \in 1..(from - 1)}
    <3>1. PICK i \in 1..N : x = stack[i]
      BY <1>9
    <3>2. ~(i >= from)
      BY <3>1, <2>2, <1>5, <1>8 DEF Above
    <3>3. i \in 1..(from - 1)
      BY <3>2, <1>1, <1>2
    <3>4. QED
      BY <3>1, <3>3
  <2>3. QED
    BY <2>1, <2>2, <1>13
<1>15. components' = components \cup {Above}
  BY <1>4, <1>10
<1>16. Found' = Found \cup Above
  BY <1>15 DEF Found
<1>17. StackInOrder'
  <2> SUFFICES ASSUME NEW i \in 1..(from - 1), NEW j \in 1..(from - 1), i < j
               PROVE  index[stack[i]] < index[stack[j]]
    BY <1>4, <1>11, <1>12 DEF StackInOrder
  <2>1. i \in 1..N /\ j \in 1..N
    BY <1>1, <1>2
  <2>2. QED
    BY <2>1, <1>6
<1>18. QED
  BY <1>11, <1>14, <1>15, <1>16, <1>17

\* No edge leads out of what a root takes off the stack, but to components found: its
\* low is its own number, and no successor is left to be looked at.
LEMMA AboveIsClosed ==
  ASSUME TypeOK, SearchInv, Retreat, Root
  PROVE  \A x \in Above : Successors(x) \subseteq Above \cup Found
<1> DEFINE L == Len(call)
<1> SUFFICES ASSUME NEW x \in Above, NEW w \in Successors(x), w \notin Found
             PROVE  w \in Above
  OBVIOUS
<1>1. /\ L \in Nat \ {0} /\ DOMAIN call = 1..L /\ L \in DOMAIN call
      /\ call[L].rest = {} /\ Top = CallNode(L) /\ Top \in OnStack
  BY ReturnFacts DEF Top
<1>2. x \in OnStack /\ index[Top] <= index[x] /\ x \in Visited
  BY OnStackVisited DEF Above, SearchInv
<1>3. ~Pending(x, w)
  <2> SUFFICES ASSUME NEW i \in DOMAIN call, CallNode(i) = x, w \in call[i].rest
               PROVE  FALSE
    BY DEF Pending
  <2>1. i # L /\ i < L
    BY <1>1
  <2>2. index[x] < index[Top]
    BY <2>1, <1>1 DEF SearchInv, CallInOrder
  <2>3. index[x] \in Nat /\ index[Top] \in Nat
    BY <1>1, <1>2, OnStackVisited DEF SearchInv
  <2>4. QED
    BY <2>2, <2>3, <1>2
<1>4. w \in nodes /\ index[w] # None
  BY <1>2, <1>3, Requested DEF SearchInv, SuccessorsSeen
<1>5. w \in OnStack
  BY <1>4 DEF SearchInv, VisitedSplits
<1>6. Region(L, x)
  BY <1>1, <1>2 DEF Region
<1>7. low[Top] <= index[w]
  BY <1>1, <1>2, <1>3, <1>5, <1>6 DEF SearchInv, LowIsLowest
<1>8. QED
  BY <1>5, <1>7 DEF Above, Root

\* What a root takes off the stack is the class of nodes on a cycle with it.
LEMMA AboveIsStrong ==
  ASSUME TypeOK, SearchInv, Retreat, Root
  PROVE  Above = {m \in nodes : Mutual(Top, m)}
<1> DEFINE L == Len(call)
<1>1. /\ L \in Nat \ {0} /\ DOMAIN call = 1..L /\ L \in DOMAIN call
      /\ Top = CallNode(L) /\ Top \in OnStack /\ OnStack \subseteq nodes
  BY ReturnFacts, StackTypes DEF Top
<1>2. \A x \in OnStack : index[x] \in Nat
  BY OnStackVisited DEF SearchInv
<1>3. Top \in Above
  BY <1>1, <1>2 DEF Above
<1>4. Above \in SUBSET nodes /\ Found \in SUBSET nodes
  BY <1>1 DEF Above, Found, TypeOK
<1>5. ASSUME NEW x \in Above PROVE Mutual(Top, x)
  <2>1. x \in OnStack /\ index[Top] <= index[x]
    BY DEF Above
  <2>2. Reaches(Top, x)
    BY <2>1, <1>1 DEF SearchInv, CallReaches
  <2>3. PICK i \in DOMAIN call : Reaches(x, CallNode(i))
    BY <2>1 DEF SearchInv, ReachesCall
  <2>4. CallNode(i) \in OnStack /\ index[CallNode(i)] <= index[Top]
    <3>1. CallNode(i) \in OnStack
      BY DEF SearchInv, CallInOrder
    <3>2. i = L \/ i < L
      BY <1>1
    <3>3. i < L => index[CallNode(i)] < index[Top]
      BY <1>1 DEF SearchInv, CallInOrder
    <3>4. QED
      BY <3>1, <3>2, <3>3, <1>1, <1>2
  <2>5. Reaches(CallNode(i), Top)
    BY <2>4, <1>1 DEF SearchInv, CallReaches
  <2>6. Reaches(x, Top)
    BY <2>3, <2>5, ReachesOn
  <2>7. QED
    BY <2>2, <2>6 DEF Mutual
<1>6. ASSUME NEW m \in nodes, Mutual(Top, m) PROVE m \in Above
  <2>1. \A x \in Above \cup Found : Successors(x) \subseteq Above \cup Found
    BY AboveIsClosed DEF SearchInv, FoundIsClosed
  <2>2. m \in Above \cup Found
    <3>1. Above \cup Found \in SUBSET nodes /\ Top \in Above \cup Found
      BY <1>3, <1>4
    <3>2. Reaches(Top, m)
      BY <1>6 DEF Mutual
    <3> DEFINE S == Above \cup Found
    <3> HIDE DEF S
    <3>3. S \in SUBSET nodes /\ (\A x \in S : Successors(x) \subseteq S) /\ Top \in S
      BY <2>1, <3>1 DEF S
    <3>4. m \in S
      BY <3>2, <3>3, ReachesInside
    <3>5. QED
      BY <3>4 DEF S
  <2>3. m \notin Found
    <3> SUFFICES ASSUME m \in Found PROVE FALSE
      OBVIOUS
    <3>1. \A x \in Found : Successors(x) \subseteq Found
      BY DEF SearchInv, FoundIsClosed
    <3>2. Reaches(m, Top)
      BY <1>6 DEF Mutual
    <3>3. Top \in Found
      BY <3>1, <3>2, <1>4, ReachesInside
    <3>4. QED
      BY <3>3, <1>1 DEF SearchInv, VisitedSplits
  <2>4. QED
    BY <2>2, <2>3
<1>7. QED
  BY <1>4, <1>5, <1>6

\* What the stack keeps when a call returns.
LEMMA ReturnStack ==
  ASSUME TypeOK, SearchInv, Retreat
  PROVE  /\ stack' \in Seq(nodes) /\ StackInOrder'
         /\ OnStack' \subseteq OnStack
         /\ \A x \in OnStack : index[x] < index[Top] => x \in OnStack'
         /\ Root => OnStack' = OnStack \ Above /\ Found' = Found \cup Above
         /\ ~Root => OnStack' = OnStack /\ Found' = Found
<1>1. \A x \in OnStack : index[x] \in Nat /\ index[Top] \in Nat
  BY ReturnFacts, OnStackVisited DEF SearchInv
<1>2. CASE Root
  <2>1. /\ stack' \in Seq(nodes) /\ OnStack' = OnStack \ Above /\ Found' = Found \cup Above
        /\ StackInOrder'
    BY <1>2, RootTakesAbove
  <2>2. ASSUME NEW x \in OnStack, index[x] < index[Top] PROVE x \notin Above
    <3>1. ~(index[Top] <= index[x])
      BY <2>2, <1>1
    <3>2. QED
      BY <3>1 DEF Above
  <2>3. QED
    BY <2>1, <2>2, <1>2
<1>3. CASE ~Root
  <2>1. stack' = stack /\ components' = components /\ index' = index
    BY <1>3, ReturnFacts
  <2>2. OnStack' = OnStack /\ Found' = Found /\ StackInOrder' /\ stack' \in Seq(nodes)
    BY <2>1 DEF OnStack, Found, StackInOrder, SearchInv, TypeOK
  <2>3. QED
    BY <2>2, <1>3
<1>4. QED
  BY <1>2, <1>3

\* A call below the top one: its node keeps its place.
LEMMA ReturnCalls ==
  ASSUME TypeOK, SearchInv, Retreat
  PROVE  \A i \in DOMAIN call' :
           /\ i \in DOMAIN call /\ CallNode(i)' = CallNode(i) /\ call'[i] = call[i]
           /\ CallNode(i) \in OnStack' /\ CallNode(i) \in OnStack
           /\ index[CallNode(i)] < index[Top]
           /\ index[CallNode(i)] \in Nat /\ index[Top] \in Nat
<1> SUFFICES ASSUME NEW i \in DOMAIN call'
             PROVE  /\ i \in DOMAIN call /\ CallNode(i)' = CallNode(i) /\ call'[i] = call[i]
                    /\ CallNode(i) \in OnStack' /\ CallNode(i) \in OnStack
                    /\ index[CallNode(i)] < index[Top]
                    /\ index[CallNode(i)] \in Nat /\ index[Top] \in Nat
  OBVIOUS
<1> DEFINE L == Len(call)
<1>1. /\ L \in Nat \ {0} /\ DOMAIN call = 1..L /\ L \in DOMAIN call
      /\ i \in DOMAIN call /\ i # L /\ call'[i] = call[i] /\ Top = CallNode(L)
      /\ Top \in OnStack
  BY ReturnFacts DEF Top
<1>2. i < L
  BY <1>1
<1>3. index[CallNode(i)] < index[Top] /\ CallNode(i) \in OnStack
  BY <1>1, <1>2 DEF SearchInv, CallInOrder
<1>4. CallNode(i)' = CallNode(i)
  BY <1>1 DEF CallNode
<1>5. index[CallNode(i)] \in Nat /\ index[Top] \in Nat
  BY <1>1, <1>3, OnStackVisited DEF SearchInv
<1>6. QED
  BY <1>1, <1>3, <1>4, <1>5, ReturnStack

LEMMA ReturnKeepsSplit ==
  ASSUME TypeOK, SearchInv, Retreat
  PROVE  VisitedSplits' /\ Numbered' /\ CallInOrder'
<1>1. /\ request' = request /\ index' = index /\ Visited' = Visited
      /\ \A x \in Names : low'[x] = None <=> low[x] = None
  BY ReturnFacts, ReturnLow
<1>2. nodes' = nodes /\ \A x : Successors(x)' = Successors(x)
  BY <1>1, SameRequest
<1>3. /\ \A n \in nodes : n \in OnStack' \/ n \in Found' <=> n \in OnStack \/ n \in Found
      /\ \A n \in OnStack' : n \notin Found'
  <2>1. \A n \in OnStack : n \notin Found
    BY DEF SearchInv, VisitedSplits
  <2>2. CASE Root
    BY <2>1, <2>2, ReturnStack DEF Above
  <2>3. CASE ~Root
    BY <2>1, <2>3, ReturnStack
  <2>4. QED
    BY <2>2, <2>3
<1>4. VisitedSplits'
  BY <1>1, <1>2, <1>3 DEF SearchInv, VisitedSplits
<1>5. Numbered'
  BY <1>1 DEF SearchInv, Numbered
<1>6. CallInOrder'
  <2>1. ASSUME NEW i \in DOMAIN call'
        PROVE  CallNode(i)' \in OnStack' /\ call'[i].rest \subseteq Successors(CallNode(i))
    BY ReturnCalls DEF SearchInv, CallInOrder
  <2>2. ASSUME NEW i \in DOMAIN call', NEW j \in DOMAIN call', i < j
        PROVE  index[CallNode(i)] < index[CallNode(j)]
    BY <2>2, ReturnCalls DEF SearchInv, CallInOrder
  <2>3. \A i \in DOMAIN call' : CallNode(i)' = CallNode(i)
    BY ReturnCalls
  <2>4. QED
    BY <2>1, <2>2, <2>3, <1>1, <1>2 DEF CallInOrder
<1>7. QED
  BY <1>4, <1>5, <1>6

LEMMA ReturnKeepsClosed ==
  ASSUME TypeOK, SearchInv, Retreat
  PROVE  SuccessorsSeen' /\ FoundIsClosed' /\ FoundIsStrong'
<1>1. request' = request /\ index' = index /\ Visited' = Visited
  BY ReturnFacts
<1>2. /\ nodes' = nodes /\ \A x : Successors(x)' = Successors(x)
      /\ \A x, y : Mutual(x, y)' <=> Mutual(x, y)
  BY <1>1, SameRequest DEF Mutual
<1>3. SuccessorsSeen'
  <2> SUFFICES ASSUME NEW v \in Visited, NEW w \in Successors(v)
               PROVE  index[w] # None \/ Pending(v, w)'
    BY <1>1, <1>2 DEF SuccessorsSeen
  <2>1. index[w] # None \/ Pending(v, w)
    BY DEF SearchInv, SuccessorsSeen
  <2>2. QED
    BY <2>1, ReturnPending
<1>4. FoundIsClosed'
  <2>1. \A v \in Found : Successors(v) \subseteq Found
    BY DEF SearchInv, FoundIsClosed
  <2>2. CASE Root
    <3>1. Found' = Found \cup Above /\ \A v \in Above : Successors(v) \subseteq Above \cup Found
      BY <2>2, ReturnStack, AboveIsClosed
    <3>2. \A v \in Found' : Successors(v) \subseteq Found'
      BY <2>1, <3>1
    <3>3. QED
      BY <3>2, <1>2 DEF FoundIsClosed
  <2>3. CASE ~Root
    BY <2>1, <2>3, <1>2, ReturnStack DEF FoundIsClosed
  <2>4. QED
    BY <2>2, <2>3
<1>5. FoundIsStrong'
  <2>1. \A c \in components : \E n \in nodes : c = {m \in nodes : Mutual(n, m)}
    BY DEF SearchInv, FoundIsStrong
  <2>2. CASE Root
    <3>1. components' = components \cup {Above}
      BY <2>2, RootTakesAbove
    <3>2. Above = {m \in nodes : Mutual(Top, m)} /\ Top \in nodes
      BY <2>2, AboveIsStrong, ReturnFacts, StackTypes
    <3>3. \A c \in components' : \E n \in nodes : c = {m \in nodes : Mutual(n, m)}
      BY <2>1, <3>1, <3>2
    <3>4. QED
      BY <3>3, <1>2 DEF FoundIsStrong
  <2>3. CASE ~Root
    <3>1. components' = components
      BY <2>3, ReturnFacts
    <3>2. QED
      BY <2>1, <3>1, <1>2 DEF FoundIsStrong
  <2>4. QED
    BY <2>2, <2>3
<1>6. QED
  BY <1>3, <1>4, <1>5

\* What reached the node returned reaches, by its low, a node of a call below it.
LEMMA ReturnKeepsReaches ==
  ASSUME TypeOK, SearchInv, Retreat
  PROVE  CallReaches' /\ ReachesCall'
<1> DEFINE L == Len(call)
<1>1. /\ L \in Nat \ {0} /\ DOMAIN call = 1..L /\ DOMAIN call' = 1..(L - 1) /\ L \in DOMAIN call
      /\ request' = request /\ index' = index /\ Top = CallNode(L) /\ Top \in OnStack
  BY ReturnFacts DEF Top
<1>2. \A x, y : Reaches(x, y)' <=> Reaches(x, y)
  BY <1>1, SameRequest
<1>3. \A x \in OnStack : index[x] \in Nat /\ low[x] \in Nat
  BY OnStackVisited DEF SearchInv
<1>4. \A i \in DOMAIN call : i \in DOMAIN call' \/ i = L
  BY <1>1
<1> HIDE DEF L
<1>5. CallReaches'
  <2>1. ASSUME NEW i \in DOMAIN call', NEW x \in OnStack', index[CallNode(i)] <= index[x]
        PROVE  Reaches(CallNode(i), x)
    BY <2>1, ReturnCalls, ReturnStack DEF SearchInv, CallReaches
  <2>2. \A i \in DOMAIN call' : CallNode(i)' = CallNode(i)
    BY ReturnCalls
  <2>3. QED
    BY <2>1, <2>2, <1>1, <1>2 DEF CallReaches
<1>6. ASSUME NEW x \in OnStack'
      PROVE  \E i \in DOMAIN call' : index[CallNode(i)] <= index[x] /\ Reaches(x, CallNode(i))
  <2>1. x \in OnStack
    BY ReturnStack
  <2>2. PICK i \in DOMAIN call : index[CallNode(i)] <= index[x] /\ Reaches(x, CallNode(i))
    BY <2>1 DEF SearchInv, ReachesCall
  <2>3. CASE i \in DOMAIN call'
    BY <2>2, <2>3
  <2>4. CASE i = L
    <3>1. index[Top] <= index[x] /\ Reaches(x, Top)
      BY <2>2, <2>4, <1>1
    <3>2. ~Root
      BY <2>1, <3>1, ReturnStack DEF Above
    <3>3. PICK u \in OnStack : index[u] = low[Top] /\ Reaches(Top, u)
      BY <1>1 DEF SearchInv, LowIsReached
    <3>4. low[Top] <= index[Top] /\ low[Top] # index[Top]
      BY <3>2, <1>1 DEF SearchInv, LowIsReached, Root
    <3>5. index[u] < index[Top]
      BY <3>3, <3>4, <1>1, <1>3
    <3>6. PICK j \in DOMAIN call : index[CallNode(j)] <= index[u] /\ Reaches(u, CallNode(j))
      BY DEF SearchInv, ReachesCall
    <3>7. CallNode(j) \in OnStack
      BY DEF SearchInv, CallInOrder
    <3>8. index[CallNode(j)] <= index[x] /\ index[CallNode(j)] < index[Top]
      BY <2>1, <3>1, <3>5, <3>6, <3>7, <1>1, <1>3
    <3>9. j # L
      BY <3>8, <1>1, <1>3
    <3>10. Reaches(x, CallNode(j))
      BY <3>1, <3>3, <3>6, ReachesOn
    <3>11. QED
      BY <3>8, <3>9, <3>10, <1>4
  <2>5. QED
    BY <2>3, <2>4, <1>4
<1>7. ReachesCall'
  <2>1. \A i \in DOMAIN call' : CallNode(i)' = CallNode(i)
    BY ReturnCalls
  <2>2. QED
    BY <2>1, <1>1, <1>2, <1>6 DEF ReachesCall
<1>8. QED
  BY <1>5, <1>7

\* The caller's part of the stack grows by that of the node returned, unless that has
\* been taken off.
LEMMA ReturnKeepsLow ==
  ASSUME TypeOK, SearchInv, Retreat
  PROVE  LowIsReached' /\ LowIsLowest'
<1> DEFINE L == Len(call)
<1>1. /\ L \in Nat \ {0} /\ DOMAIN call = 1..L /\ DOMAIN call' = 1..(L - 1) /\ L \in DOMAIN call
      /\ Len(call') = L - 1
      /\ request' = request /\ index' = index /\ Top = CallNode(L) /\ Top \in OnStack
  BY ReturnFacts DEF Top
<1>2. /\ \A x, y : Reaches(x, y)' <=> Reaches(x, y)
      /\ \A x : Successors(x)' = Successors(x)
  BY <1>1, SameRequest
<1>3. \A x \in OnStack : x \in Visited /\ index[x] \in Nat /\ low[x] \in Nat
  BY OnStackVisited DEF SearchInv
<1>4. \A i \in DOMAIN call' :
        /\ i \in DOMAIN call /\ CallNode(i)' = CallNode(i)
        /\ CallNode(i) \in OnStack' /\ CallNode(i) \in OnStack
        /\ index[CallNode(i)] < index[Top]
  BY ReturnCalls
<1>5. \A i \in DOMAIN call' :
        /\ low'[CallNode(i)] \in Nat /\ low'[CallNode(i)] <= low[CallNode(i)]
        /\ low[CallNode(i)] \in Nat /\ index[CallNode(i)] \in Nat
        /\ i # L - 1 => low'[CallNode(i)] = low[CallNode(i)]
        /\ i = L - 1 => /\ low'[CallNode(i)] <= low[Top]
                        /\ low'[CallNode(i)] \in {low[CallNode(i)], low[Top]}
  BY <1>3, <1>4, ReturnLow
<1>6. index[Top] \in Nat /\ low[Top] \in Nat
  BY <1>1, <1>3
<1> HIDE DEF L
<1>7. ASSUME NEW i \in DOMAIN call'
      PROVE  /\ low'[CallNode(i)] <= index[CallNode(i)]
             /\ \E u \in OnStack' : index[u] = low'[CallNode(i)] /\ Reaches(CallNode(i), u)
  <2>1. low[CallNode(i)] <= index[CallNode(i)]
    BY <1>4 DEF SearchInv, LowIsReached
  <2>2. low'[CallNode(i)] <= index[CallNode(i)] /\ low'[CallNode(i)] < index[Top]
    BY <2>1, <1>4, <1>5, <1>6
  <2>3. CASE low'[CallNode(i)] = low[CallNode(i)]
    <3>1. PICK u \in OnStack : index[u] = low[CallNode(i)] /\ Reaches(CallNode(i), u)
      BY <1>4 DEF SearchInv, LowIsReached
    <3>2. u \in OnStack'
      BY <2>2, <2>3, <3>1, ReturnStack
    <3>3. QED
      BY <2>2, <2>3, <3>1, <3>2
  <2>4. CASE low'[CallNode(i)] # low[CallNode(i)]
    <3>1. low'[CallNode(i)] = low[Top]
      BY <2>4, <1>5
    <3>2. PICK u \in OnStack : index[u] = low[Top] /\ Reaches(Top, u)
      BY <1>1 DEF SearchInv, LowIsReached
    <3>3. u \in OnStack'
      BY <2>2, <3>1, <3>2, ReturnStack
    <3>4. index[CallNode(i)] <= index[Top]
      BY <1>4, <1>5, <1>6
    <3>5. Reaches(CallNode(i), Top)
      BY <3>4, <1>1, <1>4 DEF SearchInv, CallReaches
    <3>6. Reaches(CallNode(i), u)
      BY <3>2, <3>5, ReachesOn
    <3>7. QED
      BY <2>2, <3>1, <3>2, <3>3, <3>6
  <2>5. QED
    BY <2>3, <2>4
<1>8. ASSUME NEW i \in DOMAIN call', NEW x \in OnStack', NEW w \in OnStack',
             Region(i, x)', w \in Successors(x), ~Pending(x, w)'
      PROVE  low'[CallNode(i)] <= index[w]
  <2>1. x \in OnStack /\ w \in OnStack /\ index[x] \in Nat /\ index[w] \in Nat
    BY <1>3, ReturnStack
  <2>2. ~Pending(x, w)
    BY <1>8, ReturnPending
  <2>3. index[CallNode(i)] <= index[x]
    BY <1>1, <1>4, <1>8 DEF Region
  <2>4. i < L /\ i \in DOMAIN call
    BY <1>1
  <2>5. CASE Region(i, x)
    <3>1. low[CallNode(i)] <= index[w]
      BY <2>1, <2>2, <2>4, <2>5, <1>8 DEF SearchInv, LowIsLowest
    <3>2. QED
      BY <3>1, <2>1, <1>5
  <2>6. CASE ~Region(i, x)
    <3>1. i < Len(call) /\ ~(index[x] < index[CallNode(i + 1)])
      BY <2>3, <2>6 DEF Region
    <3>2. i = L - 1
      <4> SUFFICES ASSUME i # L - 1 PROVE FALSE
        OBVIOUS
      <4>1. i < Len(call') /\ i + 1 \in DOMAIN call'
        BY <1>1
      <4>2. index[x] < index[CallNode(i + 1)]
        BY <4>1, <1>1, <1>4, <1>8 DEF Region
      <4>3. QED
        BY <4>2, <3>1
    <3>3. i + 1 = L
      BY <3>2, <1>1
    <3>4. index[Top] <= index[x]
      BY <3>1, <3>3, <2>1, <1>1, <1>6
    <3>5. Region(L, x)
      BY <3>4, <1>1 DEF Region, L
    <3>6. low[Top] <= index[w]
      BY <3>5, <2>1, <2>2, <1>1, <1>8 DEF SearchInv, LowIsLowest
    <3>7. low'[CallNode(i)] <= low[Top] /\ low'[CallNode(i)] \in Nat
      BY <3>2, <1>5
    <3>8. QED
      BY <3>6, <3>7, <2>1, <1>6
  <2>7. QED
    BY <2>5, <2>6
<1>9. LowIsReached'
  BY <1>1, <1>2, <1>4, <1>7 DEF LowIsReached
<1>10. LowIsLowest'
  BY <1>1, <1>2, <1>4, <1>8 DEF LowIsLowest
<1>11. QED
  BY <1>9, <1>10

LEMMA ReturnKeepsSearchInv ==
  ASSUME TypeOK, SearchInv, Retreat
  PROVE  SearchInv'
BY ReturnStack, ReturnKeepsSplit, ReturnKeepsClosed, ReturnKeepsReaches, ReturnKeepsLow
   DEF SearchInv

-----------------------------------------------------------------------------
(* The steps of the search *)

\* The search's part of the invariant depends on the search's variables alone.
LEMMA SearchInvStays ==
  ASSUME SearchInv, request' = request, UNCHANGED searchVars
  PROVE  SearchInv'
<1>1. /\ index' = index /\ low' = low /\ stack' = stack /\ call' = call /\ components' = components
      /\ nodes' = nodes /\ Visited' = Visited /\ OnStack' = OnStack /\ Found' = Found
  BY DEF searchVars, nodes, Visited, OnStack, Found
<1>2. /\ \A x, y : Reaches(x, y)' <=> Reaches(x, y)
      /\ \A x, y : Mutual(x, y)' <=> Mutual(x, y)
      /\ \A x : Successors(x)' = Successors(x)
  BY SameRequest DEF Mutual
<1>3. /\ \A i : CallNode(i)' = CallNode(i)
      /\ \A v, w : Pending(v, w)' <=> Pending(v, w)
      /\ \A i, x : Region(i, x)' <=> Region(i, x)
  BY <1>1 DEF CallNode, Pending, Region
<1>4. VisitedSplits' /\ Numbered'
  BY <1>1 DEF SearchInv, VisitedSplits, Numbered
<1>5. StackInOrder' /\ CallInOrder'
  BY <1>1, <1>2, <1>3 DEF SearchInv, StackInOrder, CallInOrder
<1>6. SuccessorsSeen' /\ FoundIsClosed' /\ FoundIsStrong'
  BY <1>1, <1>2, <1>3 DEF SearchInv, SuccessorsSeen, FoundIsClosed, FoundIsStrong
<1>7. CallReaches' /\ ReachesCall'
  BY <1>1, <1>2, <1>3 DEF SearchInv, CallReaches, ReachesCall
<1>8. LowIsReached' /\ LowIsLowest'
  BY <1>1, <1>2, <1>3 DEF SearchInv, LowIsReached, LowIsLowest
<1>9. QED
  BY <1>4, <1>5, <1>6, <1>7, <1>8 DEF SearchInv

\* Both ways to visit a node are visits of the lemmas.
LEMMA RootIsVisited ==
  ASSUME TypeOK, SearchInv, NEW n, StartRoot(n)
  PROVE  Visits(n, <<>>)
<1>1. call = <<>> /\ Len(call) = 0 /\ DOMAIN call = {}
  BY StackTypes DEF StartRoot
<1>2. <<>> \in Seq(Frame) /\ Len(<<>>) = 0
  BY EmptySeq
<1>3. Below(<<>>, n)
  BY <1>1, <1>2 DEF Below
<1>4. n \in nodes /\ index[n] = None /\ Visit(n, <<>>) /\ request' = request
  BY DEF StartRoot, Visited
<1>5. QED
  BY <1>3, <1>4 DEF Visits

LEMMA SuccessorIsVisited ==
  ASSUME TypeOK, SearchInv, NEW w, Descend(w)
  PROVE  Visits(w, Yielded(w))
<1>1. call # <<>> /\ Len(call) \in DOMAIN call
  BY StackTypes DEF Descend
<1>2. w \in call[Len(call)].rest /\ w \notin Visited
  BY DEF Descend, Last
<1>3. w \in Successors(CallNode(Len(call)))
  BY <1>1, <1>2 DEF SearchInv, CallInOrder
<1>4. w \in nodes /\ index[w] = None
  BY <1>2, <1>3, Requested DEF Visited
<1>5. Below(Yielded(w), w)
  BY <1>1, <1>3, YieldedFrames DEF Below
<1>6. QED
  BY <1>4, <1>5 DEF Visits, Descend

LEMMA VisitKeepsType ==
  ASSUME NEW n, NEW frames, Visits(n, frames),
         UNCHANGED <<registry, phase, nextGroup, nodeEndpoint, expired>>
  PROVE  TypeOK'
<1> DEFINE c == Cardinality(Visited)
           K == Cardinality(nodes)
<1>1. TypeOK /\ request' = request /\ nodes' = nodes /\ groups' = groups
  BY SameRequest DEF Visits
<1>2. c \in 0..(K - 1)
  BY VisitNumbers
<1>3. index' = [index EXCEPT ![n] = c] /\ low' = [low EXCEPT ![n] = c] /\ components' = components
  BY DEF Visits, Visit, Counter
<1> HIDE DEF c
<1>4. /\ index' \in [Names -> 0..(K - 1) \cup {None}]
      /\ low' \in [Names -> 0..(K - 1) \cup {None}]
  BY <1>1, <1>2, <1>3 DEF TypeOK
<1>5. stack' \in Seq(nodes) /\ call' \in Seq([node : nodes, rest : SUBSET nodes])
  BY VisitStacks DEF Frame
<1>6. QED
  BY <1>1, <1>3, <1>4, <1>5 DEF TypeOK

LEMMA LookKeepsType ==
  ASSUME TypeOK, SearchInv, NEW w, SeeAgain(w)
  PROVE  TypeOK'
<1> DEFINE K == Cardinality(nodes)
           V == 0..(K - 1) \cup {None}
<1>1. /\ request' = request /\ index' = index /\ stack' = stack /\ components' = components
      /\ call' \in Seq([node : nodes, rest : SUBSET nodes])
      /\ UNCHANGED <<registry, phase, nextGroup, nodeEndpoint, expired>>
  BY LookFacts DEF SeeAgain, Frame
<1>2. nodes' = nodes /\ groups' = groups
  BY <1>1, SameRequest
<1>3. low' = [low EXCEPT ![Top] = LowAfter(Top, w)] /\ Top \in Names /\ w \in Names
  BY LookFacts, StackTypes, Requested DEF SeeAgain, Last, Top, CallNode, Visited
<1>4. LowAfter(Top, w) \in V
  BY <1>3 DEF TypeOK, LowAfter, Smaller
<1> HIDE DEF V
<1>5. low' \in [Names -> V]
  BY <1>3, <1>4 DEF TypeOK, V
<1>6. QED
  BY <1>1, <1>2, <1>5 DEF TypeOK, V

LEMMA ReturnKeepsType ==
  ASSUME TypeOK, SearchInv, Retreat
  PROVE  TypeOK'
<1> DEFINE K == Cardinality(nodes)
           V == 0..(K - 1) \cup {None}
           p == CallNode(Len(call) - 1)
<1>1. /\ request' = request /\ index' = index
      /\ call' \in Seq([node : nodes, rest : SUBSET nodes]) /\ stack' \in Seq(nodes)
      /\ UNCHANGED <<registry, phase, nextGroup, nodeEndpoint, expired>>
  BY ReturnFacts, ReturnStack DEF Retreat, Frame
<1>2. nodes' = nodes /\ groups' = groups
  BY <1>1, SameRequest
<1>3. components' \in SUBSET SUBSET nodes
  <2>1. CASE Root
    <3>1. Above \in SUBSET nodes
      BY StackTypes DEF Above
    <3>2. QED
      BY <2>1, <3>1, RootTakesAbove DEF TypeOK
  <2>2. CASE ~Root
    BY <2>2, ReturnFacts DEF TypeOK
  <2>3. QED
    BY <2>1, <2>2
<1>4. low' \in [Names -> V]
  <2>1. Len(call) = 1 \/ Len(call) > 1
    BY ReturnFacts
  <2>2. low \in [Names -> V] /\ Top \in Names
    BY ReturnFacts, StackTypes, Requested DEF TypeOK
  <2>3. CASE Len(call) = 1
    BY <2>2, <2>3, ReturnFacts
  <2>4. CASE Len(call) > 1
    <3>1. /\ low' = [low EXCEPT ![p] = Smaller(low[p], low[Top])]
          /\ Len(call) - 1 \in DOMAIN call'
      BY <2>4, ReturnFacts
    <3>2. p \in Names
      BY <3>1, ReturnCalls, StackTypes, Requested
    <3> HIDE DEF V, p
    <3>3. Smaller(low[p], low[Top]) \in V
      BY <2>2, <3>2 DEF Smaller
    <3>4. QED
      BY <2>2, <3>1, <3>2, <3>3
  <2>5. QED
    BY <2>1, <2>3, <2>4
<1>5. QED
  BY <1>1, <1>2, <1>3, <1>4 DEF TypeOK

\* When no call is left nothing is on the stack: what is visited is in a component.
LEMMA SearchIsComplete ==
  ASSUME TypeOK, SearchInv, call = <<>>, Visited = nodes
  PROVE  Found = nodes
<1>1. DOMAIN call = {}
  BY StackTypes
<1>2. OnStack = {}
  BY <1>1 DEF SearchInv, ReachesCall
<1>3. \A n \in nodes : n \in Found
  BY <1>2 DEF SearchInv, VisitedSplits, Visited
<1>4. Found \subseteq nodes
  BY DEF Found, TypeOK
<1>5. QED
  BY <1>3, <1>4

-----------------------------------------------------------------------------
(* The choice of an endpoint *)

LEMMA LeastNatural ==
  ASSUME NEW T \in SUBSET Nat, T # {}
  PROVE  \E x \in T : \A y \in T : x <= y
<1> DEFINE R == OpToRel(<, Nat)
<1>1. \A x, y \in T : <<y, x>> \in R <=> y < x
  BY DEF OpToRel
<1>2. IsWellFoundedOn(R, Nat)
  BY NatLessThanWellFounded, Zenon
<1> HIDE DEF R
<1>3. PICK x \in T : \A y \in T : ~(<<y, x>> \in R)
  BY <1>2, WFMin
<1>4. \A y \in T : ~(y < x)
  BY <1>1, <1>3
<1>5. QED
  BY <1>4

\* Before orders the endpoints totally.
LEMMA RoomIsNat ==
  ASSUME TypeOK
  PROVE  \A e \in Endpoints : TotalRoom(e) \in Nat /\ Rank[e] \in Nat
BY ConstantsAssumption DEF TypeOK, TotalRoom

LEMMA BeforeIsTotal ==
  ASSUME TypeOK
  PROVE  /\ \A e, f \in Endpoints : Before(e, f) \/ Before(f, e)
         /\ \A e, f, g \in Endpoints : Before(e, f) /\ Before(f, g) => Before(e, g)
<1>1. ASSUME NEW e \in Endpoints, NEW f \in Endpoints
      PROVE  Before(e, f) \/ Before(f, e)
  BY RoomIsNat DEF Before
<1>2. ASSUME NEW e \in Endpoints, NEW f \in Endpoints, NEW g \in Endpoints,
             Before(e, f), Before(f, g)
      PROVE  Before(e, g)
  BY <1>2, RoomIsNat DEF Before
<1>3. QED
  BY <1>1, <1>2

\* Of finitely many endpoints one comes before all others: one with the fewest that do
\* not come behind it.
LEMMA FirstExists ==
  ASSUME TypeOK, NEW S \in SUBSET Endpoints, S # {}
  PROVE  \E e \in S : \A f \in S : Before(e, f)
<1> DEFINE Better(e) == {f \in S : ~Before(e, f)}
           Sizes == {k \in Nat : \E e \in S : k = Cardinality(Better(e))}
<1>1. IsFiniteSet(S)
  BY ConstantsAssumption, FS_Subset
<1>2. \A e \in S : IsFiniteSet(Better(e)) /\ Cardinality(Better(e)) \in Nat
  BY <1>1, FS_Subset, FS_CardinalityType
<1>3. Sizes \in SUBSET Nat /\ Sizes # {}
  <2>1. PICK e \in S : TRUE
    OBVIOUS
  <2>2. Cardinality(Better(e)) \in Sizes
    BY <1>2
  <2>3. QED
    BY <2>2
<1>4. PICK k \in Sizes : \A j \in Sizes : k <= j
  <2> HIDE DEF Sizes
  <2>1. QED
    BY <1>3, LeastNatural
<1>5. PICK e \in S : k = Cardinality(Better(e))
  OBVIOUS
<1>6. Better(e) = {}
  <2> SUFFICES ASSUME NEW f \in Better(e) PROVE FALSE
    OBVIOUS
  <2>1. f \in S /\ ~Before(e, f) /\ Before(f, e) /\ Before(f, f)
    BY BeforeIsTotal
  <2>2. Better(f) \subseteq Better(e)
    <3> SUFFICES ASSUME NEW g \in S, ~Before(f, g) PROVE ~Before(e, g)
      OBVIOUS
    <3>1. Before(e, g) => Before(f, g)
      BY <2>1, BeforeIsTotal
    <3>2. QED
      BY <3>1
  <2>3. f \notin Better(f) /\ Better(f) # Better(e)
    BY <2>1
  <2>4. Cardinality(Better(f)) < Cardinality(Better(e))
    <3> HIDE DEF Better
    <3>1. /\ Cardinality(Better(f)) <= Cardinality(Better(e))
          /\ Cardinality(Better(e)) = Cardinality(Better(f)) => Better(e) = Better(f)
      BY <2>2, <1>2, FS_Subset
    <3>2. QED
      BY <3>1, <2>1, <2>3, <1>2
  <2>5. Cardinality(Better(f)) \in Sizes
    BY <2>1, <1>2
  <2> HIDE DEF Better, Sizes
  <2>6. k <= Cardinality(Better(f)) /\ Cardinality(Better(f)) \in Nat /\ Cardinality(Better(e)) \in Nat
    BY <2>1, <2>5, <1>2, <1>4
  <2>7. QED
    BY <2>4, <2>6, <1>5
<1>7. QED
  BY <1>6

\* Where some endpoint serves a partition, the one picked does.
LEMMA PickedServes ==
  ASSUME TypeOK, NEW members, Serving(members) # {}
  PROVE  /\ Picked(members) \in Endpoints
         /\ \A n \in members : ServesNode(Picked(members), n)
<1>1. Serving(members) \in SUBSET Endpoints
  BY DEF Serving
<1>2. \E e \in Serving(members) : \A f \in Serving(members) : Before(e, f)
  BY <1>1, FirstExists
<1>3. Picked(members) \in Serving(members)
  BY <1>2 DEF Picked
<1>4. QED
  BY <1>3 DEF Serving, Serves

-----------------------------------------------------------------------------
(* The steps of the binding *)

\* What a step that leaves the request and the registry alone leaves of both.
LEMMA RequestStays ==
  ASSUME request' = request, registry' = registry
  PROVE  /\ nodes' = nodes /\ groups' = groups /\ Remote' = Remote
         /\ Grouped' = Grouped /\ Free' = Free
         /\ \A i : Members(i)' = Members(i)
         /\ \A n : InOneGroup(n)' <=> InOneGroup(n)
         /\ \A e, n : ServesNode(e, n)' <=> ServesNode(e, n)
         /\ \A c : Split(c)' <=> Split(c)
<1>1. nodes' = nodes /\ groups' = groups /\ Remote' = Remote /\ intents' = intents
  BY SameRequest
<1>2. \A i : NodeGroup(i)' = NodeGroup(i)
  BY <1>1 DEF NodeGroup
<1>3. Grouped' = Grouped
  BY <1>1, <1>2 DEF Grouped
<1>4. Free' = Free /\ \A i : Members(i)' = Members(i)
  BY <1>1, <1>2, <1>3 DEF Free, Members
<1>5. \A n : InOneGroup(n)' <=> InOneGroup(n)
  BY <1>1, <1>2 DEF InOneGroup
<1>6. \A e, n : ServesNode(e, n)' <=> ServesNode(e, n)
  BY <1>1 DEF ServesNode, Fits
<1>7. \A n : FirstGroup(n)' = FirstGroup(n)
  BY <1>1, <1>2 DEF FirstGroup
<1>8. \A c : Split(c)' <=> Split(c)
  BY <1>3, <1>7 DEF Split
<1>9. QED
  BY <1>1, <1>3, <1>4, <1>5, <1>6, <1>8

\* A partition bound: its nodes at the endpoint picked, the others where they were.
LEMMA BoundPartition ==
  ASSUME TypeOK, BoundNodes, NEW members, members \subseteq Remote,
         Serving(members) # {}, request' = request, registry' = registry,
         nodeEndpoint' = BoundTogether(members)
  PROVE  /\ nodeEndpoint' \in [Names -> Endpoints \cup {None}]
         /\ \A n \in Names : nodeEndpoint'[n] = IF n \in members THEN Picked(members)
                                                                 ELSE nodeEndpoint[n]
         /\ \A n \in members : nodeEndpoint'[n] # None
         /\ \A n \in Names : nodeEndpoint[n] # None => nodeEndpoint'[n] # None
         /\ BoundNodes'
<1>1. Picked(members) \in Endpoints /\ \A n \in members : ServesNode(Picked(members), n)
  BY PickedServes
<1>2. members \subseteq Names /\ None \notin Endpoints
  BY Requested
<1>3. \A n \in Names : nodeEndpoint'[n] = IF n \in members THEN Picked(members)
                                                           ELSE nodeEndpoint[n]
  BY DEF BoundTogether
<1>4. nodeEndpoint' \in [Names -> Endpoints \cup {None}]
  BY <1>1 DEF BoundTogether, TypeOK
<1>5. \A n \in members : nodeEndpoint'[n] # None
  BY <1>1, <1>2, <1>3
<1>6. ASSUME NEW n \in Names, nodeEndpoint'[n] # None
      PROVE  n \in Remote /\ ServesNode(nodeEndpoint'[n], n)
  <2>1. CASE n \in members
    BY <2>1, <1>1, <1>3
  <2>2. CASE n \notin members
    BY <2>2, <1>3, <1>6 DEF BoundNodes
  <2>3. QED
    BY <2>1, <2>2
<1>7. BoundNodes'
  BY <1>6, RequestStays DEF BoundNodes
<1>8. QED
  BY <1>2, <1>3, <1>4, <1>5, <1>7

\* A step of the search that goes on leaves the binding where it starts.
LEMMA SearchKeepsBinding ==
  ASSUME IInv, phase = "search", request' = request, registry' = registry,
         nextGroup' = nextGroup, nodeEndpoint' = nodeEndpoint,
         phase' \in {"search", "cyclic", "bind"}
  PROVE  BindInv' /\ InspectionAgreesWithBinding'
<1>1. groups' = groups /\ nextGroup' = 1
  BY RequestStays DEF IInv, BindInv, BeforeBinding
<1>2. GroupsPassed' = {}
  BY <1>1, Requested DEF GroupsPassed, IInv
<1>3. BoundNodes'
  BY RequestStays DEF IInv, BindInv, BoundNodes
<1>4. GroupsBound' /\ GroupsTogether'
  BY <1>2 DEF GroupsBound, GroupsTogether
<1>5. BeforeBinding' /\ BehindBinding' /\ InspectionAgreesWithBinding'
  BY <1>1 DEF BeforeBinding, BehindBinding, InspectionAgreesWithBinding
<1>6. QED
  BY <1>3, <1>4, <1>5 DEF BindInv

LEMMA SearchGoesOn ==
  ASSUME IInv, TypeOK', SearchInv', phase = "search", phase' = phase, request' = request,
         registry' = registry, nextGroup' = nextGroup, nodeEndpoint' = nodeEndpoint
  PROVE  IInv'
<1>1. BindInv' /\ InspectionAgreesWithBinding'
  BY SearchKeepsBinding
<1>2. SearchOver' /\ CyclicIsComplete'
  BY DEF SearchOver, CyclicIsComplete
<1>3. RemoteIsSearched'
  BY RequestStays DEF IInv, RemoteIsSearched
<1>4. QED
  BY <1>1, <1>2, <1>3 DEF IInv

LEMMA SearchStepIInv ==
  ASSUME IInv, SearchStep
  PROVE  IInv'
<1>1. TypeOK /\ SearchInv
  BY DEF IInv
<1>2. ASSUME NEW n \in Names, StartRoot(n) PROVE IInv'
  <2>1. Visits(n, <<>>)
    BY <1>1, <1>2, RootIsVisited
  <2>2. TypeOK' /\ SearchInv'
    BY <2>1, <1>2, VisitKeepsType, VisitKeepsSearchInv DEF StartRoot
  <2>3. QED
    BY <2>2, <1>2, SearchGoesOn DEF StartRoot
<1>3. ASSUME NEW w \in Names, Descend(w) PROVE IInv'
  <2>1. Visits(w, Yielded(w))
    BY <1>1, <1>3, SuccessorIsVisited
  <2>2. TypeOK' /\ SearchInv'
    BY <2>1, <1>3, VisitKeepsType, VisitKeepsSearchInv DEF Descend
  <2>3. QED
    BY <2>2, <1>3, SearchGoesOn DEF Descend
<1>4. ASSUME NEW w \in Names, SeeAgain(w) PROVE IInv'
  <2>1. TypeOK' /\ SearchInv'
    BY <1>1, <1>4, LookKeepsType, LookKeepsSearchInv
  <2>2. QED
    BY <2>1, <1>4, SearchGoesOn DEF SeeAgain
<1>5. ASSUME Retreat PROVE IInv'
  <2>1. TypeOK' /\ SearchInv'
    BY <1>1, <1>5, ReturnKeepsType, ReturnKeepsSearchInv
  <2>2. QED
    BY <2>1, <1>5, SearchGoesOn DEF Retreat
<1>6. ASSUME EndSearch PROVE IInv'
  <2>1. /\ request' = request /\ registry' = registry /\ UNCHANGED searchVars
        /\ nextGroup' = nextGroup /\ nodeEndpoint' = nodeEndpoint /\ expired' = expired
        /\ phase = "search" /\ phase' \in {"search", "cyclic", "bind"}
        /\ phase' = IF \E c \in components : Split(c) THEN "cyclic" ELSE "bind"
    BY <1>6 DEF EndSearch
  <2>2. Found = nodes
    BY <1>1, <1>6, SearchIsComplete DEF EndSearch
  <2>3. Found' = Found /\ nodes' = nodes /\ components' = components
        /\ \A c : Split(c)' <=> Split(c)
    BY <2>1, RequestStays DEF searchVars, Found
  <2>4. SearchOver' /\ CyclicIsComplete' /\ RemoteIsSearched'
    BY <2>1, <2>2, <2>3, RequestStays DEF IInv, SearchOver, CyclicIsComplete, RemoteIsSearched
  <2>5. TypeOK'
    BY <1>1, <2>1, RequestStays DEF TypeOK, searchVars, Phase
  <2>6. SearchInv'
    BY <1>1, <2>1, SearchInvStays
  <2>7. BindInv' /\ InspectionAgreesWithBinding'
    BY <2>1, SearchKeepsBinding
  <2>8. QED
    BY <2>4, <2>5, <2>6, <2>7 DEF IInv
<1>7. QED
  BY <1>2, <1>3, <1>4, <1>5, <1>6 DEF SearchStep

\* A step behind the search leaves what the search has found.
LEMMA SearchStaysOver ==
  ASSUME IInv, phase \notin {"search", "cyclic"}, phase' \notin {"search", "cyclic"},
         phase' \in {"bind", "unserved"} => phase = "bind",
         request' = request, registry' = registry, UNCHANGED searchVars
  PROVE  SearchInv' /\ SearchOver' /\ CyclicIsComplete' /\ RemoteIsSearched'
<1>1. SearchInv'
  BY SearchInvStays DEF IInv
<1>2. /\ Found' = Found /\ components' = components /\ nodes' = nodes /\ Remote' = Remote
      /\ \A c : Split(c)' <=> Split(c)
  BY RequestStays DEF Found, searchVars
<1>3. SearchOver' /\ CyclicIsComplete'
  BY <1>2 DEF IInv, SearchOver, CyclicIsComplete
<1>4. RemoteIsSearched'
  BY <1>2 DEF IInv, RemoteIsSearched
<1>5. QED
  BY <1>1, <1>3, <1>4

\* The one group of a node that is in one only.
LEMMA OneGroup ==
  ASSUME TypeOK, NEW n, InOneGroup(n)
  PROVE  \E i : {k \in DOMAIN groups : n \in NodeGroup(k)} = {i}
<1> DEFINE G == {k \in DOMAIN groups : n \in NodeGroup(k)}
<1>1. DOMAIN groups = 1..Len(groups) /\ Len(groups) \in Nat
  BY Requested
<1>2. IsFiniteSet(1..Len(groups))
  BY <1>1, FS_Interval
<1>3. IsFiniteSet(G)
  BY <1>1, <1>2, FS_Subset
<1>4. Cardinality(G) = 1
  BY DEF InOneGroup
<1> HIDE DEF G
<1>5. \E i : G = {i}
  BY <1>3, <1>4, FS_Singleton
<1>6. QED
  BY <1>5 DEF G

\* A group is bound where no group passed shares one of its nodes in one group only.
LEMMA BindGroupIInv ==
  ASSUME IInv, BindGroup
  PROVE  IInv'
<1> DEFINE i == nextGroup
           members == Members(i)
<1>1. /\ TypeOK /\ BoundNodes /\ GroupsBound /\ GroupsTogether /\ phase = "bind"
      /\ request' = request /\ registry' = registry /\ UNCHANGED searchVars
      /\ expired' = expired /\ nextGroup' = i + 1
      /\ groups \in Seq(Seq(Names)) /\ members \subseteq Remote
  BY Requested DEF IInv, BindInv, BindGroup, Members
<1>2. i \in Nat /\ i \in DOMAIN groups /\ Len(groups) \in Nat /\ DOMAIN groups = 1..Len(groups)
      /\ i + 1 \in 1..(Len(groups) + 1)
  BY <1>1 DEF TypeOK, BindGroup
<1>3. /\ nodes' = nodes /\ groups' = groups /\ Remote' = Remote
      /\ \A j : Members(j)' = Members(j)
      /\ \A n : InOneGroup(n)' <=> InOneGroup(n)
  BY <1>1, RequestStays
<1>4. GroupsPassed' = GroupsPassed \cup {i}
  BY <1>1, <1>2, <1>3 DEF GroupsPassed
<1>5. \/ phase' = "unserved" /\ nodeEndpoint' = nodeEndpoint
      \/ members = {} /\ phase' = phase /\ nodeEndpoint' = nodeEndpoint
      \/ Serving(members) # {} /\ phase' = phase /\ nodeEndpoint' = BoundTogether(members)
  BY DEF BindGroup, BindPartition
<1> HIDE DEF members, i
<1>6. phase' \in {"bind", "unserved"}
  BY <1>1, <1>5
<1>7. SearchInv' /\ SearchOver' /\ CyclicIsComplete' /\ RemoteIsSearched'
  BY <1>1, <1>6, SearchStaysOver
<1>8. nodeEndpoint' \in [Names -> Endpoints \cup {None}] /\ BoundNodes'
  <2>1. CASE nodeEndpoint' = nodeEndpoint
    BY <2>1, <1>1, RequestStays DEF TypeOK, BoundNodes
  <2>2. CASE Serving(members) # {} /\ nodeEndpoint' = BoundTogether(members)
    BY <2>2, <1>1, BoundPartition
  <2>3. QED
    BY <2>1, <2>2, <1>5
<1>9. TypeOK'
  BY <1>1, <1>2, <1>3, <1>6, <1>8 DEF TypeOK, Phase, searchVars
<1>10. BeforeBinding' /\ BehindBinding' /\ InspectionAgreesWithBinding'
  BY <1>6 DEF BeforeBinding, BehindBinding, InspectionAgreesWithBinding
<1>11. GroupsBound' /\ GroupsTogether'
  <2>1. CASE phase' = "unserved"
    BY <2>1 DEF GroupsBound, GroupsTogether
  <2>2. CASE members = {} /\ nodeEndpoint' = nodeEndpoint
    <3>1. \A j \in GroupsPassed' : j \in GroupsPassed \/ Members(j) = {}
      BY <2>2, <1>4 DEF members
    <3>2. QED
      BY <2>2, <3>1, <1>1, <1>3 DEF GroupsBound, GroupsTogether
  <2>3. CASE Serving(members) # {} /\ nodeEndpoint' = BoundTogether(members)
    <3>1. /\ \A n \in Names : nodeEndpoint'[n] = IF n \in members THEN Picked(members)
                                                                  ELSE nodeEndpoint[n]
          /\ \A n \in members : nodeEndpoint'[n] # None
          /\ \A n \in Names : nodeEndpoint[n] # None => nodeEndpoint'[n] # None
      BY <2>3, <1>1, BoundPartition
    <3>2. Remote \subseteq Names /\ \A j : Members(j) \subseteq Remote
      BY <1>1, Requested DEF Members
    <3>3. ASSUME NEW j \in GroupsPassed', NEW n \in Members(j)
          PROVE  nodeEndpoint'[n] # None
      <4>1. CASE j = i
        BY <4>1, <3>1, <3>3 DEF members
      <4>2. CASE j \in GroupsPassed
        BY <4>2, <3>1, <3>2, <3>3, <1>1 DEF GroupsBound
      <4>3. QED
        BY <4>1, <4>2, <1>4
    <3>4. ASSUME NEW j \in GroupsPassed', NEW n \in Members(j), NEW m \in Members(j),
                 InOneGroup(n), InOneGroup(m)
          PROVE  nodeEndpoint'[n] = nodeEndpoint'[m]
      <4>1. n \in Names /\ m \in Names
        BY <3>2
      <4>2. CASE j = i
        BY <4>1, <4>2, <3>1, <3>4 DEF members
      <4>3. CASE j \in GroupsPassed /\ j # i
        <5>1. ASSUME NEW x \in Members(j), InOneGroup(x) PROVE x \notin members
          <6> SUFFICES ASSUME x \in members PROVE FALSE
            OBVIOUS
          <6>1. j \in DOMAIN groups /\ x \in NodeGroup(j) /\ x \in NodeGroup(i)
            BY <4>3, <5>1 DEF members, Members, GroupsPassed
          <6>2. PICK y : {k \in DOMAIN groups : x \in NodeGroup(k)} = {y}
            BY <1>1, <5>1, OneGroup
          <6>3. i \in {k \in DOMAIN groups : x \in NodeGroup(k)}
                /\ j \in {k \in DOMAIN groups : x \in NodeGroup(k)}
            BY <6>1, <1>2
          <6>4. QED
            BY <6>2, <6>3, <4>3
        <5>2. nodeEndpoint'[n] = nodeEndpoint[n] /\ nodeEndpoint'[m] = nodeEndpoint[m]
          BY <3>1, <3>4, <4>1, <5>1
        <5>3. nodeEndpoint[n] = nodeEndpoint[m]
          BY <3>4, <4>3, <1>1 DEF GroupsTogether
        <5>4. QED
          BY <5>2, <5>3
      <4>4. QED
        BY <4>2, <4>3, <1>4
    <3>5. QED
      BY <3>3, <3>4, <1>3 DEF GroupsBound, GroupsTogether
  <2>4. QED
    BY <2>1, <2>2, <2>3, <1>5
<1>12. QED
  BY <1>7, <1>8, <1>9, <1>10, <1>11 DEF IInv, BindInv

LEMMA BindFreeIInv ==
  ASSUME IInv, NEW n \in Names, BindFree(n)
  PROVE  IInv'
<1>1. /\ TypeOK /\ BoundNodes /\ GroupsBound /\ GroupsTogether /\ phase = "bind"
      /\ request' = request /\ registry' = registry /\ UNCHANGED searchVars
      /\ expired' = expired /\ nextGroup' = nextGroup
      /\ n \in Remote /\ n \notin Grouped
  BY DEF IInv, BindInv, BindFree, Free
<1>2. /\ nodes' = nodes /\ groups' = groups /\ Remote' = Remote /\ GroupsPassed' = GroupsPassed
      /\ \A j : Members(j)' = Members(j)
      /\ \A m : InOneGroup(m)' <=> InOneGroup(m)
  BY <1>1, RequestStays DEF GroupsPassed
<1>3. \/ phase' = "unserved" /\ nodeEndpoint' = nodeEndpoint
      \/ Serving({n}) # {} /\ phase' = phase /\ nodeEndpoint' = BoundTogether({n})
  BY DEF BindFree, BindPartition
<1>4. phase' \in {"bind", "unserved"}
  BY <1>1, <1>3
<1>5. SearchInv' /\ SearchOver' /\ CyclicIsComplete' /\ RemoteIsSearched'
  BY <1>1, <1>4, SearchStaysOver
<1>6. nodeEndpoint' \in [Names -> Endpoints \cup {None}] /\ BoundNodes'
  <2>1. CASE nodeEndpoint' = nodeEndpoint
    BY <2>1, <1>1, RequestStays DEF TypeOK, BoundNodes
  <2>2. CASE Serving({n}) # {} /\ nodeEndpoint' = BoundTogether({n})
    BY <2>2, <1>1, BoundPartition
  <2>3. QED
    BY <2>1, <2>2, <1>3
<1>7. TypeOK'
  BY <1>1, <1>2, <1>4, <1>6 DEF TypeOK, Phase, searchVars
<1>8. BeforeBinding' /\ BehindBinding' /\ InspectionAgreesWithBinding'
  BY <1>4 DEF BeforeBinding, BehindBinding, InspectionAgreesWithBinding
<1>9. \A j \in GroupsPassed : \A m \in Members(j) : nodeEndpoint'[m] = nodeEndpoint[m]
  <2> SUFFICES ASSUME NEW j \in GroupsPassed, NEW m \in Members(j)
               PROVE  nodeEndpoint'[m] = nodeEndpoint[m]
    OBVIOUS
  <2>1. m \in Grouped /\ m \in Remote
    BY DEF Members, Grouped, GroupsPassed
  <2>2. m # n /\ m \in Names
    BY <2>1, <1>1, Requested
  <2>3. QED
    BY <2>2, <1>3 DEF BoundTogether
<1>10. GroupsBound' /\ GroupsTogether'
  BY <1>1, <1>2, <1>9 DEF GroupsBound, GroupsTogether
<1>11. QED
  BY <1>5, <1>6, <1>7, <1>8, <1>10 DEF IInv, BindInv

LEMMA EndBindingIInv ==
  ASSUME IInv, EndBinding
  PROVE  IInv'
<1>1. /\ TypeOK /\ BoundNodes /\ GroupsBound /\ GroupsTogether /\ phase = "bind"
      /\ phase' = "inspect"
      /\ request' = request /\ registry' = registry /\ UNCHANGED searchVars
      /\ expired' = expired /\ nextGroup' = nextGroup /\ nodeEndpoint' = nodeEndpoint
      /\ nextGroup > Len(groups) /\ \A n \in Free : nodeEndpoint[n] # None
  BY DEF IInv, BindInv, EndBinding
<1>2. /\ nodes' = nodes /\ groups' = groups /\ Remote' = Remote /\ GroupsPassed' = GroupsPassed
      /\ \A j : Members(j)' = Members(j)
      /\ \A m : InOneGroup(m)' <=> InOneGroup(m)
  BY <1>1, RequestStays DEF GroupsPassed
<1>3. DOMAIN groups = 1..Len(groups) /\ Len(groups) \in Nat /\ nextGroup = Len(groups) + 1
  BY <1>1, Requested DEF TypeOK
<1>4. SearchInv' /\ SearchOver' /\ CyclicIsComplete' /\ RemoteIsSearched'
  BY <1>1, SearchStaysOver
<1>5. TypeOK'
  BY <1>1, <1>2 DEF TypeOK, Phase, searchVars
<1>6. BoundNodes'
  BY <1>1, RequestStays DEF BoundNodes
<1>7. GroupsBound' /\ GroupsTogether'
  BY <1>1, <1>2 DEF GroupsBound, GroupsTogether
<1>8. GroupsPassed = DOMAIN groups
  BY <1>3 DEF GroupsPassed
<1>9. \A n \in Remote : nodeEndpoint[n] # None
  <2> SUFFICES ASSUME NEW n \in Remote PROVE nodeEndpoint[n] # None
    OBVIOUS
  <2>1. CASE n \in Free
    BY <2>1, <1>1
  <2>2. CASE n \notin Free
    <3>1. PICK i \in DOMAIN groups : n \in NodeGroup(i)
      BY <2>2 DEF Free, Grouped
    <3>2. i \in GroupsPassed /\ n \in Members(i)
      BY <3>1, <1>8 DEF Members
    <3>3. QED
      BY <3>2, <1>1 DEF GroupsBound
  <2>3. QED
    BY <2>1, <2>2
<1>10. BehindBinding' /\ BeforeBinding' /\ InspectionAgreesWithBinding'
  BY <1>1, <1>2, <1>3, <1>9 DEF BehindBinding, BeforeBinding, InspectionAgreesWithBinding
<1>11. QED
  BY <1>4, <1>5, <1>6, <1>7, <1>10 DEF IInv, BindInv

\* A node bound to an endpoint that is still there passes the inspection.
LEMMA InspectIInv ==
  ASSUME IInv, NEW gone \in SUBSET Endpoints, Inspect(gone)
  PROVE  IInv'
<1>1. /\ TypeOK /\ BoundNodes /\ GroupsBound /\ GroupsTogether /\ BehindBinding
      /\ phase = "inspect" /\ phase' \in {"bound", "uninspected"}
      /\ phase' = IF \A n \in Remote : Inspected(n, Endpoints \ gone) THEN "bound"
                                                                     ELSE "uninspected"
      /\ request' = request /\ registry' = registry /\ UNCHANGED searchVars
      /\ expired' = gone /\ nextGroup' = nextGroup /\ nodeEndpoint' = nodeEndpoint
  BY DEF IInv, BindInv, Inspect
<1>2. /\ nodes' = nodes /\ groups' = groups /\ Remote' = Remote /\ GroupsPassed' = GroupsPassed
      /\ \A j : Members(j)' = Members(j)
      /\ \A m : InOneGroup(m)' <=> InOneGroup(m)
  BY <1>1, RequestStays DEF GroupsPassed
<1>3. SearchInv' /\ SearchOver' /\ CyclicIsComplete' /\ RemoteIsSearched'
  BY <1>1, SearchStaysOver
<1>4. TypeOK'
  BY <1>1, <1>2 DEF TypeOK, Phase, searchVars
<1>5. BoundNodes'
  BY <1>1, RequestStays DEF BoundNodes
<1>6. GroupsBound' /\ GroupsTogether'
  BY <1>1, <1>2 DEF GroupsBound, GroupsTogether
<1>7. BehindBinding' /\ BeforeBinding'
  BY <1>1, <1>2 DEF BehindBinding, BeforeBinding
<1>8. InspectionAgreesWithBinding'
  <2> SUFFICES ASSUME phase' = "uninspected"
               PROVE  \E n \in Remote : nodeEndpoint[n] \in gone
    BY <1>1, <1>2 DEF InspectionAgreesWithBinding
  <2>1. PICK n \in Remote : ~Inspected(n, Endpoints \ gone)
    BY <1>1
  <2>2. n \in Names /\ nodeEndpoint[n] # None
    BY <1>1, Requested DEF BehindBinding
  <2>3. nodeEndpoint[n] \in Endpoints /\ ServesNode(nodeEndpoint[n], n)
    BY <2>2, <1>1 DEF TypeOK, BoundNodes
  <2>4. nodeEndpoint[n] \in gone
    <3> SUFFICES ASSUME nodeEndpoint[n] \notin gone PROVE FALSE
      OBVIOUS
    <3>1. nodeEndpoint[n] \in Offering(n, Endpoints \ gone)
      BY <2>3 DEF Offering, ServesNode
    <3>2. Inspected(n, Endpoints \ gone)
      BY <2>3, <3>1 DEF Inspected, ServesNode
    <3>3. QED
      BY <2>1, <3>2
  <2>5. QED
    BY <2>4
<1>9. QED
  BY <1>3, <1>4, <1>5, <1>6, <1>7, <1>8 DEF IInv, BindInv

-----------------------------------------------------------------------------
(* The invariant *)

LEMMA InitIInv == Init => IInv
<1> SUFFICES ASSUME Init PROVE IInv
  OBVIOUS
<1> USE DEF Init
<1>1. /\ stack = <<>> /\ call = <<>> /\ DOMAIN stack = {} /\ DOMAIN call = {}
      /\ components = {} /\ nextGroup = 1
      /\ \A n \in Names : index[n] = None /\ low[n] = None /\ nodeEndpoint[n] = None
  OBVIOUS
<1>2. /\ groups \in Seq(Seq(Names)) /\ nodes \subseteq Names /\ Remote \subseteq Names
  BY ConstantsAssumption DEF groups, nodes, Remote, intents
<1>3. Len(groups) \in Nat /\ 1 \in 1..(Len(groups) + 1)
  BY <1>2
<1>4. TypeOK
  <2>1. /\ index \in [Names -> 0..(Cardinality(nodes) - 1) \cup {None}]
        /\ low \in [Names -> 0..(Cardinality(nodes) - 1) \cup {None}]
        /\ nodeEndpoint \in [Names -> Endpoints \cup {None}]
    OBVIOUS
  <2>2. stack \in Seq(nodes) /\ call \in Seq([node : nodes, rest : SUBSET nodes])
    BY EmptySeq
  <2>3. phase \in Phase /\ expired \in SUBSET Endpoints /\ components \in SUBSET SUBSET nodes
    BY DEF Phase
  <2>4. QED
    BY <1>3, <2>1, <2>2, <2>3 DEF TypeOK
<1>5. OnStack = {} /\ Found = {} /\ Visited = {}
  BY <1>1, <1>2 DEF OnStack, Found, Visited
<1>6. SearchInv
  <2>1. VisitedSplits
    BY <1>1, <1>2, <1>5 DEF VisitedSplits
  <2>2. Numbered /\ SuccessorsSeen /\ FoundIsClosed /\ FoundIsStrong
    BY <1>1, <1>5 DEF Numbered, SuccessorsSeen, FoundIsClosed, FoundIsStrong
  <2>3. StackInOrder /\ CallInOrder
    BY <1>1 DEF StackInOrder, CallInOrder
  <2>4. CallReaches /\ ReachesCall /\ LowIsReached /\ LowIsLowest
    BY <1>1, <1>5 DEF CallReaches, ReachesCall, LowIsReached, LowIsLowest
  <2>5. QED
    BY <2>1, <2>2, <2>3, <2>4 DEF SearchInv
<1>7. SearchOver /\ CyclicIsComplete /\ RemoteIsSearched /\ InspectionAgreesWithBinding
  BY DEF SearchOver, CyclicIsComplete, RemoteIsSearched, InspectionAgreesWithBinding
<1>8. GroupsPassed = {}
  BY <1>1, <1>2 DEF GroupsPassed
<1>9. BindInv
  BY <1>1, <1>8 DEF BindInv, BoundNodes, GroupsBound, GroupsTogether, BeforeBinding, BehindBinding
<1>10. QED
  BY <1>4, <1>6, <1>7, <1>9 DEF IInv

LEMMA StepIInv == IInv /\ [Next]_vars => IInv'
<1> SUFFICES ASSUME IInv, [Next]_vars PROVE IInv'
  OBVIOUS
<1>1. CASE SearchStep
  BY <1>1, SearchStepIInv
<1>2. CASE BindStep
  BY <1>2, BindGroupIInv, BindFreeIInv, EndBindingIInv DEF BindStep
<1>3. CASE \E gone \in SUBSET Endpoints : Inspect(gone)
  BY <1>3, InspectIInv
<1>4. CASE UNCHANGED vars
  <2>1. /\ request' = request /\ registry' = registry /\ phase' = phase /\ UNCHANGED searchVars
        /\ nextGroup' = nextGroup /\ nodeEndpoint' = nodeEndpoint /\ expired' = expired
    BY <1>4 DEF vars, searchVars
  <2>2. /\ nodes' = nodes /\ groups' = groups /\ Remote' = Remote /\ GroupsPassed' = GroupsPassed
        /\ Found' = Found /\ components' = components
        /\ \A j : Members(j)' = Members(j)
        /\ \A m : InOneGroup(m)' <=> InOneGroup(m)
        /\ \A c : Split(c)' <=> Split(c)
    BY <2>1, RequestStays DEF GroupsPassed, Found, searchVars
  <2>3. TypeOK'
    BY <2>1, <2>2 DEF IInv, TypeOK, searchVars
  <2>4. SearchInv'
    BY <2>1, SearchInvStays DEF IInv
  <2>5. SearchOver' /\ CyclicIsComplete' /\ RemoteIsSearched'
    BY <2>1, <2>2 DEF IInv, SearchOver, CyclicIsComplete, RemoteIsSearched
  <2>6. BoundNodes'
    BY <2>1, RequestStays DEF IInv, BindInv, BoundNodes
  <2>7. GroupsBound' /\ GroupsTogether'
    BY <2>1, <2>2 DEF IInv, BindInv, GroupsBound, GroupsTogether
  <2>8. BeforeBinding' /\ BehindBinding' /\ InspectionAgreesWithBinding'
    BY <2>1, <2>2 DEF IInv, BindInv, BeforeBinding, BehindBinding, InspectionAgreesWithBinding
  <2>9. QED
    BY <2>3, <2>4, <2>5, <2>6, <2>7, <2>8 DEF IInv, BindInv
<1>5. QED
  BY <1>1, <1>2, <1>3, <1>4 DEF Next

LEMMA SpecIInv == Spec => []IInv
BY InitIInv, StepIInv, PTL DEF Spec

-----------------------------------------------------------------------------
(* The theorems *)

\* Every variable of a submit's binding keeps its type; no number exceeds the last node's.
THEOREM BindingTypes == Spec => []TypeOK
<1>1. IInv => TypeOK
  BY DEF IInv
<1>2. QED
  BY <1>1, SpecIInv, PTL

\* cycleViolation's iterative search: on every finite graph, in whatever order it takes
\* roots and successors, each component it records is a class of mutually reachable
\* nodes, and when it ends every node is in one.
THEOREM SearchFindsComponents == Spec => []ComponentsAreStrong
<1>1. IInv => ComponentsAreStrong
  <2> SUFFICES ASSUME IInv PROVE ComponentsAreStrong
    OBVIOUS
  <2>1. FoundIsStrong /\ SearchOver /\ CyclicIsComplete /\ RemoteIsSearched
    BY DEF IInv, SearchInv
  <2>2. QED
    BY <2>1 DEF FoundIsStrong, SearchOver, CyclicIsComplete, RemoteIsSearched,
                ComponentsAreStrong, Found
<1>2. QED
  BY <1>1, SpecIInv, PTL

\* bindWorkflow: whenever a submit passes the binding, every remote node is bound to an
\* endpoint that has its model, room for it and the right ports.
THEOREM BoundNodesAreServed == Spec => []BoundIsServed
<1>1. IInv => BoundIsServed
  <2> SUFFICES ASSUME IInv, phase \in {"inspect", "bound"}, NEW n \in Remote
               PROVE  nodeEndpoint[n] # None /\ ServesNode(nodeEndpoint[n], n)
    BY DEF BoundIsServed
  <2>1. n \in Names /\ nodeEndpoint[n] # None
    BY Requested DEF IInv, BindInv, BehindBinding
  <2>2. QED
    BY <2>1 DEF IInv, BindInv, BoundNodes
<1>2. QED
  BY <1>1, SpecIInv, PTL

\* cycleViolation and bindWorkflow together: nodes on a common cycle, each in one group,
\* are bound to the same endpoint.
THEOREM CyclesStayTogether == Spec => []GroupedCyclesStayTogether
<1>1. IInv => GroupedCyclesStayTogether
  <2> SUFFICES ASSUME IInv, phase = "bound", NEW n \in Remote, NEW m \in Remote,
                      InOneGroup(n), InOneGroup(m), Mutual(n, m)
               PROVE  nodeEndpoint[n] = nodeEndpoint[m]
    BY DEF GroupedCyclesStayTogether
  <2>1. TypeOK /\ FoundIsStrong /\ SearchOver /\ BoundNodes /\ GroupsTogether /\ BehindBinding
    BY DEF IInv, BindInv, SearchInv
  <2>2. n \in nodes /\ m \in nodes
    <3>1. \A x \in Remote : x \in Names /\ nodeEndpoint[x] # None
      BY <2>1, Requested DEF BehindBinding
    <3>2. QED
      BY <3>1, <2>1 DEF BoundNodes, ServesNode
  <2>3. PICK c \in components : n \in c /\ m \in c
    <3>1. PICK c \in components : n \in c
      BY <2>1, <2>2 DEF SearchOver, Found
    <3>2. PICK x \in nodes : c = {y \in nodes : Mutual(x, y)}
      BY <2>1 DEF FoundIsStrong
    <3>3. Mutual(x, n)
      BY <3>1, <3>2
    <3>4. Mutual(x, m)
      BY <3>3, ReachesOn DEF Mutual
    <3>5. QED
      BY <3>1, <3>2, <3>4, <2>2
  <2>4. ~Split(c)
    BY <2>1 DEF SearchOver
  <2>5. PICK i : {k \in DOMAIN groups : n \in NodeGroup(k)} = {i}
    BY <2>1, OneGroup
  <2>6. PICK j : {k \in DOMAIN groups : m \in NodeGroup(k)} = {j}
    BY <2>1, OneGroup
  <2>7. /\ i \in DOMAIN groups /\ n \in NodeGroup(i) /\ j \in DOMAIN groups /\ m \in NodeGroup(j)
        /\ n \in Grouped /\ m \in Grouped
    BY <2>5, <2>6 DEF Grouped
  <2>8. DOMAIN groups = 1..Len(groups) /\ Len(groups) \in Nat
    BY <2>1, Requested
  <2>9. FirstGroup(n) = i /\ FirstGroup(m) = j
    <3>1. \A k \in Nat : Min({k}) = k
      BY DEF Min
    <3>2. i \in Nat /\ j \in Nat
      BY <2>7, <2>8
    <3>3. FirstGroup(n) = Min({i}) /\ FirstGroup(m) = Min({j})
      BY <2>5, <2>6 DEF FirstGroup
    <3>4. QED
      BY <3>1, <3>2, <3>3
  <2>10. i = j
    BY <2>3, <2>4, <2>7, <2>9 DEF Split
  <2>11. i \in GroupsPassed
    BY <2>1, <2>7, <2>8 DEF BehindBinding, GroupsPassed
  <2>12. QED
    BY <2>1, <2>7, <2>10, <2>11 DEF GroupsTogether, Members
<1>2. QED
  BY <1>1, SpecIInv, PTL

\* inspectWorkflowGraph after bindWorkflow: a bound graph fails the inspection only when
\* an endpoint it is bound to expired in between.
THEOREM InspectionAgrees == Spec => []InspectionAgreesWithBinding
<1>1. IInv => InspectionAgreesWithBinding
  BY DEF IInv
<1>2. QED
  BY <1>1, SpecIInv, PTL

=============================================================================
