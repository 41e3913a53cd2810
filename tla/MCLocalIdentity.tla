---------------------------- MODULE MCLocalIdentity ----------------------------
(* Instance of LocalIdentity for TLC. *)
EXTENDS LocalIdentity, TLC
=============================================================================
