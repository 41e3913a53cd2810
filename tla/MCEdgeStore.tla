---------------------------- MODULE MCEdgeStore ----------------------------
(* Instances of EdgeStore for TLC. *)
EXTENDS EdgeStore, TLC

Symmetry == Permutations(Device) \cup Permutations(Worker)
=============================================================================
