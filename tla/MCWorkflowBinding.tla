-------------------------- MODULE MCWorkflowBinding --------------------------
(***************************************************************************)
(* Instances of WorkflowBinding for TLC: every graph of three nodes        *)
(* without self-loops (a component of one node is never split), a few      *)
(* groupings, sets of intents and registries.                              *)
(***************************************************************************)
EXTENDS WorkflowBinding, TLC

CONSTANTS a, b, c, ghost, m1, m2, e1, e2

AllNames     == {a, b, c, ghost}
GraphNodes   == {a, b, c}
TwoModels    == {m1, m2}
TwoEndpoints == {e1, e2}
TheRank      == (e1 :> 1) @@ (e2 :> 2)

InPort(shape)  == <<[name |-> "x", type |-> "Float", shape |-> shape]>>
OutPort(shape) == <<[name |-> "y", type |-> "Float", shape |-> shape]>>

Graphs == SUBSET {e \in GraphNodes \X GraphNodes : e[1] # e[2]}

Groupings ==
  {<<>>, << <<a, b>> >>, << <<a>>, <<c>> >>, << <<a, b>>, <<b, c>> >>,
   << <<ghost>>, <<a>>, <<b>> >>}

AllRemote  == (a :> m1) @@ (b :> m2) @@ (c :> m2)
OneLocal   == (a :> m1) @@ (c :> m1)
OneMissing == (a :> m1) @@ (ghost :> m2)

Request(edges, groupings, wanted) ==
  [nodes |-> GraphNodes, edges |-> edges, groups |-> groupings, intents |-> wanted,
   inputs |-> [n \in AllNames |-> InPort(<<2>>)],
   outputs |-> [n \in AllNames |-> IF n = c THEN <<>> ELSE OutPort(<<Dynamic>>)]]

\* Every graph with remote nodes only, and one cycle with a local node on it, with a
\* remote node the graph does not have, or without any remote node.
SomeRequests ==
  {Request(edges, g, AllRemote) : edges \in Graphs, g \in Groupings}
    \cup {Request({<<a, b>>, <<b, c>>, <<c, a>>}, g, wanted) :
            g \in Groupings, wanted \in {<<>>, OneLocal, OneMissing}}

Offer(room, shape) ==
  [room |-> room, inputs |-> InPort(shape), outputs |-> OutPort(<<3>>)]
Undeclared == [room |-> 1, inputs |-> InPort(<<2>>), outputs |-> None]
Both(x, y) == (m1 :> x) @@ (m2 :> y)

\* Two that can do everything, two with a model each, one with more room but the wrong
\* shape for m1 beside one that fits, one full and one without output ports.
SomeRegistries ==
  {(e1 :> Both(Offer(1, <<2>>), Offer(1, <<2>>))) @@ (e2 :> Both(Offer(1, <<Dynamic>>), Offer(2, <<2>>))),
   (e1 :> Both(Offer(2, <<2>>), None)) @@ (e2 :> Both(None, Offer(1, <<2>>))),
   (e1 :> Both(Offer(1, <<4>>), Offer(2, <<2>>))) @@ (e2 :> Both(Offer(1, <<2>>), Offer(1, <<2>>))),
   (e1 :> Both(Offer(0, <<2>>), Undeclared)) @@ (e2 :> Both(Undeclared, Offer(1, <<2>>)))}

=============================================================================
