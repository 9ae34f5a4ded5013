--------------------------- MODULE MCWorkflowRun ----------------------------
(***************************************************************************)
(* Instances of WorkflowRun for TLC: the output depends on x and y, and z  *)
(* is a remote node beside it.                                             *)
(***************************************************************************)
EXTENDS WorkflowRun, TLC

CONSTANTS x, y, z

ThreeNodes   == {x, y, z}
OutputNodes  == {x, y}
AllKinds     == {"ok", "error", "nourl"}

=============================================================================
