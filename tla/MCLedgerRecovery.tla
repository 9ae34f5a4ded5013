-------------------------- MODULE MCLedgerRecovery --------------------------
(***************************************************************************)
(* Instance of LedgerRecovery for TLC: one task, one poll, as many         *)
(* endpoints as the configuration says.                                    *)
(***************************************************************************)
EXTENDS LedgerRecovery, TLC

CONSTANTS e1, e2, t1, w1, m1, p1

OneEndpoint  == {e1}
TwoEndpoints == {e1, e2}
OneModel     == {m1}
OneTask      == {t1}
OneWorkflow  == {w1}
OnePoll      == {p1}
TheModel     == t1 :> m1
TheWorkflow  == t1 :> w1
BoundToE1    == t1 :> e1

=============================================================================
