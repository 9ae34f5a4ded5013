------------------------- MODULE MCSidecarSupervisor -------------------------
(***************************************************************************)
(* Instance of SidecarSupervisor for TLC: two ports, the system chooses.   *)
(***************************************************************************)
EXTENDS SidecarSupervisor

TwoPorts == {1, 2}

=============================================================================
