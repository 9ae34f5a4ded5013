-------------------------- MODULE MCWorkflowLedger --------------------------
(***************************************************************************)
(* Instances of WorkflowLedger for TLC.                                    *)
(***************************************************************************)
EXTENDS WorkflowLedger, TLC

CONSTANTS s1, s2, r1, r2, t1

TwoSubmits == {s1, s2}
TwoReaders == {r1, r2}
OneTask    == {t1}

=============================================================================
