------------------------------ MODULE MCAuditLog ------------------------------
(* Instance of AuditLog for TLC. *)
EXTENDS AuditLog, TLC

Workers == Permutations(Worker)
=============================================================================
