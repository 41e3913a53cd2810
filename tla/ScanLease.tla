------------------------------ MODULE ScanLease ------------------------------
(***************************************************************************)
(* Who may probe the network: run_network_discovery_scan (app.py) takes    *)
(* the asyncio lock of its process, the expiring SQLite lease shared by    *)
(* all processes and the cooldown slot of the operator, probes for a       *)
(* bounded time and releases the lease it holds, if it still can.          *)
(*                                                                         *)
(* Timestamps of the tables are modelled as the time left until they stop  *)
(* mattering, so that behaviours need no bound on the clock.               *)
(***************************************************************************)
EXTENDS Integers, FiniteSets

CONSTANTS
  Process,      \* server processes on one database
  Operator,     \* actors with the scope network:scan
  NoToken,      \* no row in the lease table
  LeaseTime,    \* NETWORK_DISCOVERY_LEASE_SECONDS
  Cooldown,     \* DISCOVERY_ACTOR_COOLDOWN_SECONDS
  HoldMax       \* longest time from the clock read that dates a lease to the end
                \* of its probe: three busy timeouts and the probe's own timeout

ASSUME TimingAssumption ==
  /\ LeaseTime \in Nat \ {0} /\ Cooldown \in Nat /\ HoldMax \in Nat
  /\ HoldMax < LeaseTime
  /\ NoToken \notin Process

VARIABLES
  lease,      \* [token, left]: the process whose token the lease row carries
  cooling,    \* time until an operator may scan again
  scan        \* what each process is doing

vars == <<lease, cooling, scan>>

Idle == [pc |-> "idle"]
Busy == [pc : {"leased", "probing", "done"}, actor : Operator, held : 0..HoldMax]

Holds(p) == scan[p] # Idle
Pc(p, stage) == [scan EXCEPT ![p].pc = stage]

-----------------------------------------------------------------------------
(* claim_network_discovery_lease in one BEGIN IMMEDIATE transaction, with  *)
(* the lock of the process held.  A live lease answers 409.                *)
LeaseFree_noExpiry == lease.token = NoToken
LeaseFree == lease.left = 0

Claim(p, o) ==
  /\ ~Holds(p)
  /\ LeaseFree
  /\ lease' = [token |-> p, left |-> LeaseTime]
  /\ scan' = [scan EXCEPT ![p] = [pc |-> "leased", actor |-> o, held |-> 0]]
  /\ UNCHANGED cooling

(* claim_network_discovery_attempt, then the authorization receipt. *)
Authorized(p) == cooling[scan[p].actor] = 0
AttemptGranted(p) ==
  /\ scan[p].pc = "leased"
  /\ Authorized(p)
  /\ cooling' = [cooling EXCEPT ![scan[p].actor] = Cooldown]
  /\ scan' = Pc(p, "probing")
  /\ UNCHANGED lease

(* A 429, or an error of one of the two transactions: the attempt may have *)
(* been charged to the operator all the same.                              *)
AttemptRefused(p) ==
  /\ scan[p].pc = "leased"
  /\ cooling' \in {cooling} \cup
       IF Authorized(p) THEN {[cooling EXCEPT ![scan[p].actor] = Cooldown]} ELSE {}
  /\ scan' = Pc(p, "done")
  /\ UNCHANGED lease

(* The probe ends, with a result, an error or its own timeout. *)
EndProbe(p) ==
  /\ scan[p].pc = "probing"
  /\ scan' = Pc(p, "done")
  /\ UNCHANGED <<lease, cooling>>

(* The release deletes the lease only under its own token.  A claim of the *)
(* same process gets a new token, but starts only after this release.      *)
Released_anyToken(p) == [token |-> NoToken, left |-> 0]
Released(p) ==
  IF lease.token = p THEN [token |-> NoToken, left |-> 0] ELSE lease
Release(p) ==
  /\ scan[p].pc = "done"
  /\ lease' = Released(p)
  /\ scan' = [scan EXCEPT ![p] = Idle]
  /\ UNCHANGED cooling

(* The release fails in the database, or the process dies: the row stays.  *)
Abandon(p) ==
  /\ Holds(p)
  /\ scan' = [scan EXCEPT ![p] = Idle]
  /\ UNCHANGED <<lease, cooling>>

Less(n) == IF n = 0 THEN 0 ELSE n - 1
Aged(s) == IF s.pc \in {"leased", "probing"} THEN [s EXCEPT !.held = @ + 1] ELSE s
Tick ==
  /\ \A p \in Process : scan[p].pc \in {"leased", "probing"} => scan[p].held < HoldMax
  /\ lease' = [lease EXCEPT !.left = Less(@)]
  /\ cooling' = [o \in Operator |-> Less(cooling[o])]
  /\ scan' = [p \in Process |-> Aged(scan[p])]

-----------------------------------------------------------------------------
Init ==
  /\ lease = [token |-> NoToken, left |-> 0]
  /\ cooling = [o \in Operator |-> 0]
  /\ scan = [p \in Process |-> Idle]

Serve(p) == AttemptGranted(p) \/ AttemptRefused(p) \/ EndProbe(p) \/ Release(p)
Next ==
  \/ \E p \in Process : Serve(p) \/ Abandon(p) \/ \E o \in Operator : Claim(p, o)
  \/ Tick

(* Time passes, and a process that runs carries its request to the end.    *)
Fairness == WF_vars(Tick) /\ \A p \in Process : WF_vars(Serve(p))
Spec == Init /\ [][Next]_vars /\ Fairness

-----------------------------------------------------------------------------
(* Properties *)

TypeOK ==
  /\ lease \in [token : Process \cup {NoToken}, left : 0..LeaseTime]
  /\ cooling \in [Operator -> 0..Cooldown]
  /\ scan \in [Process -> {Idle} \cup Busy]

Probing == {p \in Process : scan[p].pc = "probing"}

(* At most one process probes the network at a time, although leases       *)
(* expire under their holders, releases fail and processes die: the claim, *)
(* expiry and release of network_discovery_scan_lease exclude each other.  *)
OneProbe == \A p, q \in Probing : p = q

(* A scan that died or could not release its lease does not lock scanning  *)
(* out for good.                                                           *)
ScanNotLockedOut == []<>LeaseFree
=============================================================================
