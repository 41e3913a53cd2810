---------------------------- MODULE RecoveryGate ----------------------------
(***************************************************************************)
(* What the recovery tables promise an operator, whatever the load on the  *)
(* ingestion path: a recovery proposal waits until a person decides it, it *)
(* is decided once, it is forgotten only after that, and no identifier     *)
(* returns.  Only the demo reset, refused in production, clears the gate.  *)
(***************************************************************************)
EXTENDS Integers

CONSTANTS Id, Production

VARIABLES gate,       \* life of each proposal id
          decisions   \* recorded decisions per proposal id

gateVars == <<gate, decisions>>

State == {"unused", "pending", "approved", "gone"}

Init ==
  /\ gate = [p \in Id |-> "unused"]
  /\ decisions = [p \in Id |-> 0]

(* Only a decided proposal may be forgotten, to make room for others. *)
KeptOrForgotten(p) ==
  \/ gate'[p] = gate[p]
  \/ gate[p] = "approved" /\ gate'[p] = "gone"

(* An id is used up: by an anomaly that starts to wait for a decision, or  *)
(* by a sample without one.                                                *)
Use(i) ==
  /\ gate[i] = "unused"
  /\ gate' \in [Id -> State]
  /\ gate'[i] \in {"pending", "gone"}
  /\ \A p \in Id \ {i} : KeptOrForgotten(p)
  /\ UNCHANGED decisions

Decide(p) ==
  /\ gate[p] = "pending"
  /\ gate' = [gate EXCEPT ![p] = "approved"]
  /\ decisions' = [decisions EXCEPT ![p] = @ + 1]

Forget ==
  /\ gate' \in [Id -> State]
  /\ \A p \in Id : KeptOrForgotten(p)
  /\ UNCHANGED decisions

Wipe ==
  /\ ~Production
  /\ gate' = [p \in Id |-> IF gate[p] = "unused" THEN "unused" ELSE "gone"]
  /\ UNCHANGED decisions

Next ==
  \/ \E p \in Id : Use(p) \/ Decide(p)
  \/ Forget \/ Wipe

Spec == Init /\ [][Next]_gateVars
=============================================================================
