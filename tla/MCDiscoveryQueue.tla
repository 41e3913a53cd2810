-------------------------- MODULE MCDiscoveryQueue --------------------------
(* Instances of DiscoveryQueue for TLC. *)
EXTENDS DiscoveryQueue, TLC

Symmetry == Permutations(Device) \cup Permutations(Asset)
              \cup Permutations(Operator) \cup Permutations(Evidence)
=============================================================================
