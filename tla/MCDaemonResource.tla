-------------------------- MODULE MCDaemonResource --------------------------
(* Instances of DaemonResource for TLC: three processes, so that a third   *)
(* start can follow on a second one nobody knows of.                       *)
EXTENDS DaemonResource, TLC

MCSymmetry == Permutations(Daemons)
=============================================================================
