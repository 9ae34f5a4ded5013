----------------------- MODULE MCDispatchedExecution -----------------------
(***************************************************************************)
(* Instances of DispatchedExecution for TLC: one endpoint with one lane,   *)
(* one poll, and two tasks, of one workflow or of two.                     *)
(***************************************************************************)
EXTENDS DispatchedExecution, TLC

CONSTANTS e1, t1, t2, w1, w2, m1, p1

OneEndpoint == {e1}
OneModel    == {m1}
TwoTasks    == {t1, t2}
OneWorkflow == {w1}
TwoWorkflows == {w1, w2}
OnePoll     == {p1}
TheModel    == [t \in Tasks |-> m1]
SameWorkflow == [t \in Tasks |-> w1]
OwnWorkflow  == (t1 :> w1) @@ (t2 :> w2)
BoundToE1   == [t \in Tasks |-> e1]

=============================================================================
