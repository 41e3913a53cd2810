--------------------------- MODULE MCToolProposals ---------------------------
(* Instances of ToolProposals for TLC. *)
EXTENDS ToolProposals, TLC

Symmetry == Permutations(Proposal) \cup Permutations(Recovery) \cup Permutations(Operator)
=============================================================================
