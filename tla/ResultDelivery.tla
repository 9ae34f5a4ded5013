--------------------------- MODULE ResultDelivery ---------------------------
(***************************************************************************)
(* What the control plane promises the sidecar about the results of remote *)
(* tasks, whatever endpoints, polls and sweeps do: a task it knows is open *)
(* until the first completion report settles it; settling starts one       *)
(* notice; the notice reaches the sidecar or is lost; no other notice for  *)
(* the task is ever started.  This is the `first come, first served` rule  *)
(* of TaskAccount.markReported seen from outside.                          *)
(***************************************************************************)
EXTENDS Naturals

CONSTANT Tasks

VARIABLES
  phase,      \* "unknown", "open" or "settled", per task
  inTransit,  \* tasks whose notice is on its way
  delivered   \* how many notices for a task have arrived

vars == <<phase, inTransit, delivered>>

Init ==
  /\ phase = [t \in Tasks |-> "unknown"]
  /\ inTransit = {}
  /\ delivered = [t \in Tasks |-> 0]

Open(t) ==
  /\ phase[t] = "unknown"
  /\ phase' = [phase EXCEPT ![t] = "open"]
  /\ UNCHANGED <<inTransit, delivered>>

Settle(t) ==
  /\ phase[t] = "open"
  /\ phase' = [phase EXCEPT ![t] = "settled"]
  /\ inTransit' = inTransit \cup {t}
  /\ UNCHANGED delivered

Deliver(t) ==
  /\ t \in inTransit
  /\ inTransit' = inTransit \ {t}
  /\ delivered' = [delivered EXCEPT ![t] = @ + 1]
  /\ UNCHANGED phase

Lose(t) ==
  /\ t \in inTransit
  /\ inTransit' = inTransit \ {t}
  /\ UNCHANGED <<phase, delivered>>

Next == \E t \in Tasks : Open(t) \/ Settle(t) \/ Deliver(t) \/ Lose(t)

Spec == Init /\ [][Next]_vars

=============================================================================
