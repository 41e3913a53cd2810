--------------------------- MODULE ScanLease_proofs ---------------------------
(* Proof that the scan lease excludes concurrent probes of the network. *)
EXTENDS ScanLease, TLAPS

(* A process that may still probe owns the lease row, and what is left of  *)
(* its lease is at least what is left of the longest hold.                 *)
Covered ==
  \A p \in Process : scan[p].pc \in {"leased", "probing"} =>
    lease.token = p /\ lease.left + scan[p].held >= LeaseTime

IInv == TypeOK /\ Covered

LEMMA StageType ==
  ASSUME TypeOK, NEW p \in Process, scan[p].pc # "idle"
  PROVE  /\ scan[p] \in Busy /\ scan[p].actor \in Operator
         /\ scan[p].held \in 0..HoldMax /\ scan[p].held \in Nat
BY TimingAssumption DEF TypeOK, Idle, Busy

LEMMA InitInv == ASSUME Init PROVE IInv
BY TimingAssumption DEF Init, IInv, TypeOK, Covered, Idle

(* Moving a busy process to another stage keeps its record well formed. *)
LEMMA PcType ==
  ASSUME TypeOK, NEW p \in Process, scan[p].pc # "idle",
         NEW stage \in {"leased", "probing", "done"}, scan' = Pc(p, stage)
  PROVE  /\ scan' \in [Process -> {Idle} \cup Busy]
         /\ scan'[p].pc = stage /\ scan'[p].held = scan[p].held
         /\ \A q \in Process : q # p => scan'[q] = scan[q]
<1>1. scan[p] \in Busy
  BY StageType
<1>2. [scan[p] EXCEPT !.pc = stage] \in Busy
  BY <1>1 DEF Busy
<1>3. /\ scan'[p] = [scan[p] EXCEPT !.pc = stage]
      /\ \A q \in Process : q # p => scan'[q] = scan[q]
  BY DEF Pc, TypeOK
<1>4. scan' \in [Process -> {Idle} \cup Busy]
  BY <1>2 DEF Pc, TypeOK
<1>5. scan'[p].pc = stage /\ scan'[p].held = scan[p].held
  BY <1>1, <1>3 DEF Busy
<1> QED BY <1>3, <1>4, <1>5

LEMMA NextInv == ASSUME IInv, [Next]_vars PROVE IInv'
<1> USE TimingAssumption
<1>1. ASSUME NEW p \in Process, NEW o \in Operator, Claim(p, o) PROVE IInv'
  <2>1. [pc |-> "leased", actor |-> o, held |-> 0] \in Busy
    BY DEF Busy
  <2>2. TypeOK'
    BY <1>1, <2>1 DEF IInv, TypeOK, Claim
  <2>3. \A q \in Process : scan[q].pc \notin {"leased", "probing"}
    BY <1>1, StageType DEF IInv, Covered, Claim, LeaseFree
  <2>4. Covered'
    BY <1>1, <2>3 DEF IInv, TypeOK, Covered, Claim
  <2> QED BY <2>2, <2>4 DEF IInv
<1>2. ASSUME NEW p \in Process, AttemptGranted(p) \/ AttemptRefused(p) \/ EndProbe(p)
      PROVE  IInv'
  <2>1. scan[p].pc \in {"leased", "probing"} /\ UNCHANGED lease
    BY <1>2 DEF AttemptGranted, AttemptRefused, EndProbe
  <2>2. PICK stage \in {"probing", "done"} : scan' = Pc(p, stage)
    BY <1>2 DEF AttemptGranted, AttemptRefused, EndProbe
  <2>3. /\ scan' \in [Process -> {Idle} \cup Busy]
        /\ scan'[p].pc = stage /\ scan'[p].held = scan[p].held
        /\ \A q \in Process : q # p => scan'[q] = scan[q]
    BY <2>1, <2>2, PcType DEF IInv
  <2>4. scan[p].actor \in Operator
    BY <2>1, StageType DEF IInv
  <2>5. cooling' \in [Operator -> 0..Cooldown]
    BY <1>2, <2>4 DEF AttemptGranted, AttemptRefused, EndProbe, IInv, TypeOK
  <2>6. TypeOK'
    BY <2>1, <2>3, <2>5 DEF IInv, TypeOK
  <2>7. Covered'
    BY <2>1, <2>3 DEF IInv, Covered
  <2> QED BY <2>6, <2>7 DEF IInv
<1>3. ASSUME NEW p \in Process, Release(p) PROVE IInv'
  <2>1. lease' = Released(p) /\ scan' = [scan EXCEPT ![p] = Idle] /\ UNCHANGED cooling
    BY <1>3 DEF Release
  <2>2. TypeOK'
    BY <2>1 DEF Released, IInv, TypeOK
  <2>3. Covered'
    <3> SUFFICES ASSUME NEW q \in Process, scan'[q].pc \in {"leased", "probing"}
                 PROVE  lease'.token = q /\ lease'.left + scan'[q].held >= LeaseTime
      BY DEF Covered
    <3>1. q # p /\ scan'[q] = scan[q]
      BY <2>1 DEF IInv, TypeOK, Idle
    <3> QED BY <2>1, <3>1 DEF Released, IInv, Covered
  <2> QED BY <2>2, <2>3 DEF IInv
<1>4. ASSUME NEW p \in Process, Abandon(p) PROVE IInv'
  BY <1>4 DEF IInv, TypeOK, Covered, Abandon, Idle
<1>5. ASSUME Tick PROVE IInv'
  <2>1. /\ scan' = [p \in Process |-> Aged(scan[p])]
        /\ lease' = [lease EXCEPT !.left = Less(lease.left)]
        /\ cooling' = [o \in Operator |-> Less(cooling[o])]
    BY <1>5 DEF Tick
  <2>2. ASSUME NEW p \in Process, scan[p].pc \in {"leased", "probing"}
        PROVE  /\ Aged(scan[p]) \in Busy
               /\ Aged(scan[p]).held = scan[p].held + 1
    BY <1>5, <2>2, StageType DEF Tick, Aged, Busy, IInv
  <2>3. ASSUME NEW p \in Process, scan[p].pc \notin {"leased", "probing"}
        PROVE  Aged(scan[p]) = scan[p]
    BY <2>3 DEF Aged
  <2>4. scan' \in [Process -> {Idle} \cup Busy]
    BY <2>1, <2>2, <2>3 DEF IInv, TypeOK
  <2>5. /\ lease'.token = lease.token /\ lease'.left = Less(lease.left)
        /\ lease' \in [token : Process \cup {NoToken}, left : 0..LeaseTime]
    BY <2>1 DEF Less, IInv, TypeOK
  <2>6. cooling' \in [Operator -> 0..Cooldown]
    BY <2>1 DEF Less, IInv, TypeOK
  <2>7. Covered'
    <3> SUFFICES ASSUME NEW p \in Process, scan'[p].pc \in {"leased", "probing"}
                 PROVE  lease'.token = p /\ lease'.left + scan'[p].held >= LeaseTime
      BY DEF Covered
    <3>1. scan'[p] = Aged(scan[p]) /\ scan[p].pc \in {"leased", "probing"}
      BY <2>1, <2>3
    <3>2. lease.token = p /\ lease.left + scan[p].held >= LeaseTime
      BY <3>1 DEF IInv, Covered
    <3>3. scan[p].held \in Nat /\ scan[p].held < HoldMax
      BY <1>5, <3>1, StageType DEF Tick, IInv
    <3>4. lease.left \in Nat /\ Less(lease.left) = lease.left - 1
      BY <3>2, <3>3 DEF Less, IInv, TypeOK
    <3> QED BY <2>2, <2>5, <3>1, <3>2, <3>3, <3>4
  <2> QED BY <2>4, <2>5, <2>6, <2>7 DEF IInv, TypeOK
<1>6. ASSUME UNCHANGED vars PROVE IInv'
  BY <1>6 DEF vars, IInv, TypeOK, Covered
<1> QED BY <1>1, <1>2, <1>3, <1>4, <1>5, <1>6 DEF Next, Serve

THEOREM Inductive == Spec => []IInv
BY InitInv, NextInv, PTL DEF Spec

(* For any processes, lease and cooldown: as long as a hold ends before    *)
(* the lease it started with, probes exclude each other, however releases  *)
(* fail and processes die.                                                 *)
THEOREM ProbesExclude == Spec => []OneProbe
<1>1. IInv => OneProbe
  BY DEF IInv, Covered, OneProbe, Probing
<1> QED BY <1>1, Inductive, PTL
=============================================================================
