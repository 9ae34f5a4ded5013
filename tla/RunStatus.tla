----------------------------- MODULE RunStatus ------------------------------
(***************************************************************************)
(* What the control plane may rely on about the status of a workflow run   *)
(* in the sidecar (GraphExecutionStatus, read through GET .../status): it  *)
(* goes forward and then ends, and only an end may still be overturned by  *)
(* the other end.  WorkflowRun implements it; WorkflowLedger builds on it. *)
(***************************************************************************)
VARIABLE status

Live     == {"starting", "waitingRemote", "executing"}
Outcomes == {"completed", "failed"}

Init == status = "starting"

Waits    == status = "starting" /\ status' = "waitingRemote"
Executes == status = "waitingRemote" /\ status' = "executing"
Ends     == status \in Live /\ status' \in Outcomes
\* The two windows of OutcomeChangesOnlyInWindow.
Overturned == status \in Outcomes /\ status' \in Outcomes \ {status}

Next == Waits \/ Executes \/ Ends \/ Overturned

Spec == Init /\ [][Next]_status

=============================================================================
