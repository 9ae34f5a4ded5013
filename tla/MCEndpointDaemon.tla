-------------------------- MODULE MCEndpointDaemon --------------------------
(***************************************************************************)
(* Instances of EndpointDaemon for TLC: two lanes, `first` before `other`; *)
(* two tasks on the first lane, of which one may be revoked, one on the    *)
(* other, and one whose model has no lane.                                 *)
(***************************************************************************)
EXTENDS EndpointDaemon, TLC

CONSTANTS first, other, unknown, a, b, c, d

TwoLanes   == {first, other}
TheRank    == (first :> 1) @@ (other :> 2)
TheDepth   == (first :> 2) @@ (other :> 1)
AllTasks   == {a, b, c, d}
TheModel   == (a :> first) @@ (b :> first) @@ (c :> other) @@ (d :> unknown)
SomeRevoked == {a}

=============================================================================
