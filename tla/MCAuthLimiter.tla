----------------------------- MODULE MCAuthLimiter -----------------------------
(* Instance of AuthLimiter for TLC. *)
EXTENDS AuthLimiter, TLC
=============================================================================
