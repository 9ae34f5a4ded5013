--------------------------- MODULE MCDispatchPump ---------------------------
(***************************************************************************)
(* Instances of DispatchPump for TLC: one model, one workflow, and every   *)
(* task first bound to the same endpoint, so that there is always another  *)
(* one to move it to.                                                      *)
(***************************************************************************)
EXTENDS DispatchPump, TLC

CONSTANTS e1, e2, t1, w1, m1, p1, p2

TwoEndpoints == {e1, e2}
OneTask      == {t1}
OneWorkflow  == {w1}
OneModel     == {m1}
TwoPolls     == {p1, p2}

TheModel    == [t \in Tasks |-> m1]
TheWorkflow == [t \in Tasks |-> w1]
BoundToE1   == [t \in Tasks |-> e1]

=============================================================================
