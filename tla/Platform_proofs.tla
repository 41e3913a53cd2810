---------------------------- MODULE Platform_proofs ----------------------------
(***************************************************************************)
(* What the components of Platform keep for every value of their           *)
(* constants: for each component an inductive invariant of its own steps,  *)
(* and at the end of the module the theorems of the platform.              *)
(***************************************************************************)
EXTENDS Platform, FiniteSetTheorems, SequenceTheorems, WellFoundedInduction,
        TLAPS

(* A sequence of one value with another one appended. *)
LEMMA AppendPair ==
  ASSUME NEW S, NEW x \in S, NEW y \in S PROVE Append(<<x>>, y) = <<x, y>>
<1>1. PICK s : s = <<x>>
  OBVIOUS
<1>2. PICK t : t = <<x, y>>
  OBVIOUS
<1>3. s \in Seq(S) /\ Len(s) = 1 /\ s[1] = x /\ t \in Seq(S) /\ Len(t) = 2 /\ t[1] = x /\ t[2] = y
  BY <1>1, <1>2
<1>4. PICK u : u = Append(s, y)
  OBVIOUS
<1>5. u \in Seq(S) /\ Len(u) = 2 /\ u[1] = x /\ u[2] = y
  BY <1>3, <1>4, AppendProperties
<1>6. ASSUME NEW i \in 1..Len(u) PROVE u[i] = t[i]
  <2>1. i = 1 \/ i = 2
    BY <1>5
  <2> QED BY <2>1, <1>3, <1>5
<1>7. u = t
  BY <1>3, <1>5, <1>6, SeqEqual
<1> QED BY <1>1, <1>2, <1>4, <1>7

(* A set of naturals has a least element.                                  *)
LEMMA LeastExists ==
  ASSUME NEW T \in SUBSET Nat, T # {}
  PROVE  \E m \in T : \A k \in T : m <= k
<1>1. IsWellFoundedOn(OpToRel(<, Nat), Nat)
  BY NatLessThanWellFounded
<1>2. PICK m \in T : \A k \in T : <<k, m>> \notin OpToRel(<, Nat)
  BY <1>1, WFMin
<1>3. \A k \in T : ~(k < m)
  BY <1>2 DEF OpToRel
<1> QED BY <1>3

(* Among the places of a ledger there is a last one.                       *)
LEMMA GreatestExists ==
  ASSUME NEW n \in Nat, NEW I \in SUBSET (1..n), I # {}
  PROVE  \E i \in I : \A j \in I : j <= i
<1> DEFINE T == {k \in Nat : \E i \in I : n - i = k}
<1>1. \A i \in I : i \in Nat /\ n - i \in Nat /\ n - i \in T
  OBVIOUS
<1>2. T \in SUBSET Nat /\ T # {}
  BY <1>1
<1>3. PICK k \in T : \A x \in T : k <= x
  <2> HIDE DEF T
  <2> QED BY <1>2, LeastExists
<1>4. PICK i \in I : n - i = k
  BY <1>3
<1>5. ASSUME NEW j \in I PROVE j <= i
  <2>1. k <= n - j /\ i \in Nat /\ j \in Nat
    BY <1>1, <1>3
  <2> QED BY <1>4, <2>1
<1> QED BY <1>5

-----------------------------------------------------------------------------
(* Hardware discovery candidates and the saga of their approval.           *)

(* What is known of the registrations of one candidate that was neither    *)
(* posted again during one nor lost a worker: there is at most one, while  *)
(* the claim stands, and its audit row is the only one.                    *)
Claimed(c) ==
  /\ Approval!Registering(c) # {} => status[c] = "approving"
  /\ \A v, w \in Approval!Registering(c) : v = w
  /\ registered[c] <= 1
  /\ \A w \in Approver : Approval!On(w, "register", c) \/ Approval!On(w, "undo", c) => registered[c] = 0
  /\ registered[c] > 0 =>
       status[c] = "approved" \/ \E w \in Approver : Approval!On(w, "finish", c)

(* A registration has written what it says, and is complete at its end. *)
Registered(w, c) ==
  /\ Approval!On(w, "register", c) => 1..req[w].done \subseteq written[c]
  /\ Approval!On(w, "finish", c) => written[c] = 1..Approval!Parts /\ registered[c] > 0
Complete(c) == status[c] = "approved" => written[c] = 1..Approval!Parts /\ registered[c] > 0

ApprovalInv ==
  /\ Approval!TypeOK
  /\ \A c \in Candidate \ (reposted \cup lost) : Claimed(c)
  /\ production => \A c \in Candidate : Complete(c) /\ \A w \in Approver : Registered(w, c)

LEMMA IdleNotAttempt == Approval!Idle \notin Approval!Attempt
BY DEF Approval!Idle, Approval!Attempt

LEMMA ApprovalTyped ==
  ASSUME Approval!BoundAssumption
  PROVE  /\ Approval!Init => Approval!TypeOK
         /\ Approval!TypeOK /\ [Approval!Next]_(Approval!vars) => Approval!TypeOK'
<1> USE DEF Approval!BoundAssumption
<1>1. Approval!Init => Approval!TypeOK
  BY DEF Approval!Init, Approval!TypeOK, Approval!Status, Approval!Idle, Approval!Parts
<1>2. Approval!TypeOK /\ [Approval!Next]_(Approval!vars) => Approval!TypeOK'
  <2> SUFFICES ASSUME Approval!TypeOK, [Approval!Next]_(Approval!vars) PROVE Approval!TypeOK'
    OBVIOUS
  <2> USE DEF Approval!TypeOK, Approval!Status, Approval!Idle, Approval!Attempt, Approval!Parts,
              Approval!On, Approval!Goto, Approval!inventory, Approval!ghosts
  <2>0. CASE UNCHANGED Approval!vars
    BY <2>0 DEF Approval!vars
  <2>1. ASSUME NEW w \in Approver, NEW c \in Candidate, Approval!BeginCreate(w, c), UNCHANGED production
        PROVE Approval!TypeOK'
    BY <2>1 DEF Approval!BeginCreate
  <2>2. ASSUME NEW w \in Approver, NEW c \in Candidate, Approval!Create(w, c), UNCHANGED production
        PROVE Approval!TypeOK'
    BY <2>2 DEF Approval!Create, Approval!Requeued
  <2>3. ASSUME NEW w \in Approver, NEW c \in Candidate, Approval!BeginApprove(w, c), UNCHANGED production
        PROVE Approval!TypeOK'
    BY <2>3 DEF Approval!BeginApprove
  <2>4. ASSUME NEW w \in Approver, NEW c \in Candidate, Approval!Claim(w, c), UNCHANGED production
        PROVE Approval!TypeOK'
    BY <2>4 DEF Approval!Claim, Approval!Claimable
  <2>5. ASSUME NEW w \in Approver, NEW c \in Candidate, Approval!RegisterPart(w, c), UNCHANGED production
        PROVE Approval!TypeOK'
    BY <2>5 DEF Approval!RegisterPart, Approval!MoreParts
  <2>6. ASSUME NEW w \in Approver, NEW c \in Candidate, Approval!AuditRegistration(w, c), UNCHANGED production
        PROVE Approval!TypeOK'
    BY <2>6 DEF Approval!AuditRegistration
  <2>7. ASSUME NEW w \in Approver, NEW c \in Candidate, Approval!FailRegistration(w, c), UNCHANGED production
        PROVE Approval!TypeOK'
    BY <2>7 DEF Approval!FailRegistration
  <2>8. ASSUME NEW w \in Approver, NEW c \in Candidate, Approval!Undo(w, c), UNCHANGED production
        PROVE Approval!TypeOK'
    BY <2>8 DEF Approval!Undo, Approval!Undone
  <2>9. ASSUME NEW w \in Approver, NEW c \in Candidate, Approval!Finish(w, c), UNCHANGED production
        PROVE Approval!TypeOK'
    BY <2>9 DEF Approval!Finish
  <2>10. ASSUME NEW w \in Approver, Approval!Crash(w), UNCHANGED production
         PROVE Approval!TypeOK'
    BY <2>10 DEF Approval!Crash
  <2>11. ASSUME Approval!ResetDemo, UNCHANGED production PROVE Approval!TypeOK'
    BY <2>11 DEF Approval!ResetDemo
  <2> QED
    BY <2>0, <2>1, <2>2, <2>3, <2>4, <2>5, <2>6, <2>7, <2>8, <2>9, <2>10, <2>11
    DEF Approval!Next, Approval!Step, Approval!Approving
<1> QED BY <1>1, <1>2

(* A step disturbs what is known of candidate c only if it is about c. *)
LEMMA ClaimStep ==
  ASSUME Approval!TypeOK, Approval!TypeOK', [Approval!Next]_(Approval!vars),
         NEW c \in Candidate, c \notin reposted' \cup lost', Claimed(c)
  PROVE  Claimed(c)'
<1> USE DEF Approval!Goto, Approval!Registering, Approval!On, Approval!inventory, Approval!ghosts,
            Approval!TypeOK, Approval!Attempt, Claimed
<1>0. CASE UNCHANGED Approval!vars
  BY <1>0 DEF Approval!vars
<1>1. ASSUME NEW w \in Approver, NEW e \in Candidate, Approval!BeginCreate(w, e) PROVE Claimed(c)'
  BY <1>1, IdleNotAttempt DEF Approval!BeginCreate
<1>2. ASSUME NEW w \in Approver, NEW e \in Candidate, Approval!Create(w, e) PROVE Claimed(c)'
  BY <1>2, IdleNotAttempt DEF Approval!Create, Approval!Requeued
<1>3. ASSUME NEW w \in Approver, NEW e \in Candidate, Approval!BeginApprove(w, e) PROVE Claimed(c)'
  BY <1>3, IdleNotAttempt DEF Approval!BeginApprove
<1>4. ASSUME NEW w \in Approver, NEW e \in Candidate, Approval!Claim(w, e) PROVE Claimed(c)'
  BY <1>4, IdleNotAttempt DEF Approval!Claim, Approval!Claimable
<1>5. ASSUME NEW w \in Approver, NEW e \in Candidate, Approval!RegisterPart(w, e) PROVE Claimed(c)'
  BY <1>5, IdleNotAttempt DEF Approval!RegisterPart, Approval!MoreParts
<1>6. ASSUME NEW w \in Approver, NEW e \in Candidate, Approval!AuditRegistration(w, e) PROVE Claimed(c)'
  BY <1>6, IdleNotAttempt DEF Approval!AuditRegistration
<1>7. ASSUME NEW w \in Approver, NEW e \in Candidate, Approval!FailRegistration(w, e) PROVE Claimed(c)'
  BY <1>7, IdleNotAttempt DEF Approval!FailRegistration
<1>8. ASSUME NEW w \in Approver, NEW e \in Candidate, Approval!Undo(w, e) PROVE Claimed(c)'
  BY <1>8, IdleNotAttempt DEF Approval!Undo, Approval!Undone
<1>9. ASSUME NEW w \in Approver, NEW e \in Candidate, Approval!Finish(w, e) PROVE Claimed(c)'
  BY <1>9, IdleNotAttempt DEF Approval!Finish
<1>10. ASSUME NEW w \in Approver, Approval!Crash(w) PROVE Claimed(c)'
  BY <1>10, IdleNotAttempt DEF Approval!Crash
<1>11. ASSUME Approval!ResetDemo PROVE Claimed(c)'
  BY <1>11 DEF Approval!ResetDemo
<1> QED
  BY <1>0, <1>1, <1>2, <1>3, <1>4, <1>5, <1>6, <1>7, <1>8, <1>9, <1>10, <1>11
  DEF Approval!Next, Approval!Step, Approval!Approving

(* In production nothing that was registered is taken away. *)
LEMMA CompleteStep ==
  ASSUME Approval!TypeOK, Approval!TypeOK', [Approval!Next]_(Approval!vars), production,
         NEW c \in Candidate, Complete(c), \A w \in Approver : Registered(w, c)
  PROVE  Complete(c)' /\ \A w \in Approver : Registered(w, c)'
<1> DEFINE Done == Complete(c)' /\ \A w \in Approver : Registered(w, c)'
<1> USE IdleNotAttempt
    DEF Approval!Goto, Approval!On, Approval!inventory, Approval!ghosts, Approval!Parts,
        Approval!TypeOK, Approval!Attempt, Complete, Registered
<1>0. CASE UNCHANGED Approval!vars
  BY <1>0 DEF Approval!vars
<1>1. ASSUME NEW v \in Approver, NEW e \in Candidate, Approval!BeginCreate(v, e) PROVE Done
  BY <1>1 DEF Approval!BeginCreate
<1>2. ASSUME NEW v \in Approver, NEW e \in Candidate, Approval!Create(v, e) PROVE Done
  BY <1>2 DEF Approval!Create, Approval!Requeued
<1>3. ASSUME NEW v \in Approver, NEW e \in Candidate, Approval!BeginApprove(v, e) PROVE Done
  BY <1>3 DEF Approval!BeginApprove
<1>4. ASSUME NEW v \in Approver, NEW e \in Candidate, Approval!Claim(v, e) PROVE Done
  BY <1>4 DEF Approval!Claim, Approval!Claimable
<1>5. ASSUME NEW v \in Approver, NEW e \in Candidate, Approval!RegisterPart(v, e) PROVE Done
  BY <1>5 DEF Approval!RegisterPart, Approval!MoreParts
<1>6. ASSUME NEW v \in Approver, NEW e \in Candidate, Approval!AuditRegistration(v, e) PROVE Done
  BY <1>6 DEF Approval!AuditRegistration, Approval!MoreParts
<1>7. ASSUME NEW v \in Approver, NEW e \in Candidate, Approval!FailRegistration(v, e) PROVE Done
  BY <1>7 DEF Approval!FailRegistration
<1>8. ASSUME NEW v \in Approver, NEW e \in Candidate, Approval!Undo(v, e) PROVE Done
  BY <1>8 DEF Approval!Undo, Approval!Undone
<1>9. ASSUME NEW v \in Approver, NEW e \in Candidate, Approval!Finish(v, e) PROVE Done
  BY <1>9 DEF Approval!Finish
<1>10. ASSUME NEW v \in Approver, Approval!Crash(v) PROVE Done
  BY <1>10 DEF Approval!Crash
<1>11. ASSUME Approval!ResetDemo PROVE Done
  BY <1>11 DEF Approval!ResetDemo
<1> QED
  BY <1>0, <1>1, <1>2, <1>3, <1>4, <1>5, <1>6, <1>7, <1>8, <1>9, <1>10, <1>11
  DEF Approval!Next, Approval!Step, Approval!Approving

LEMMA ApprovalInductive ==
  ASSUME Approval!BoundAssumption
  PROVE  /\ Approval!Init => ApprovalInv
         /\ ApprovalInv /\ [Approval!Next]_(Approval!vars) => ApprovalInv'
<1>1. Approval!Init => ApprovalInv
  BY DEF Approval!Init, ApprovalInv, Approval!TypeOK, Approval!Status, Approval!Idle, Approval!Parts,
         Approval!BoundAssumption, Claimed, Complete, Registered, Approval!Registering, Approval!On
<1>2. ApprovalInv /\ Approval!TypeOK' /\ [Approval!Next]_(Approval!vars) => ApprovalInv'
  <2> SUFFICES ASSUME ApprovalInv, Approval!TypeOK', [Approval!Next]_(Approval!vars)
               PROVE  ApprovalInv'
    OBVIOUS
  <2>1. reposted \subseteq reposted' /\ lost \subseteq lost' /\ production' = production
    BY DEF Approval!Next, Approval!Step, Approval!Approving, Approval!BeginCreate, Approval!Create,
           Approval!BeginApprove, Approval!Claim, Approval!RegisterPart, Approval!AuditRegistration,
           Approval!FailRegistration, Approval!Undo, Approval!Finish, Approval!Crash,
           Approval!ResetDemo, Approval!ghosts, Approval!vars
  <2>2. ASSUME NEW c \in Candidate \ (reposted \cup lost)' PROVE Claimed(c)'
    BY <2>1, ClaimStep DEF ApprovalInv
  <2>3. ASSUME production, NEW c \in Candidate
        PROVE  Complete(c)' /\ \A w \in Approver : Registered(w, c)'
    BY <2>3, CompleteStep DEF ApprovalInv
  <2> QED BY <2>1, <2>2, <2>3 DEF ApprovalInv
<1>3. ApprovalInv => Approval!TypeOK
  BY DEF ApprovalInv
<1> QED BY <1>1, <1>2, <1>3, ApprovalTyped

LEMMA ApprovalCardinality == ASSUME NEW S PROVE Approval!Cardinality(S) = Cardinality(S)
BY DEF Approval!Cardinality, Cardinality

LEMMA ApprovalHolds ==
  ASSUME ApprovalInv
  PROVE  Approval!TypeOK /\ Approval!ApprovedIsComplete /\ Approval!OneRegistrar
<1>1. Approval!TypeOK /\ Approval!ApprovedIsComplete
  BY DEF ApprovalInv, Complete, Approval!ApprovedIsComplete
<1>2. ASSUME NEW c \in Candidate \ (reposted \cup lost)
      PROVE  Cardinality(Approval!Registering(c)) <= 1 /\ registered[c] <= 1
  <2>1. Claimed(c)
    BY DEF ApprovalInv
  <2>2. CASE Approval!Registering(c) = {}
    BY <2>1, <2>2, FS_EmptySet DEF Claimed
  <2>3. ASSUME NEW w \in Approval!Registering(c) PROVE Cardinality(Approval!Registering(c)) = 1
    <3>1. Approval!Registering(c) = {w}
      BY <2>1, <2>3 DEF Claimed
    <3> QED BY <3>1, FS_Singleton
  <2> QED BY <2>1, <2>2, <2>3 DEF Claimed
<1> QED BY <1>1, <1>2, ApprovalCardinality DEF Approval!OneRegistrar

(* No step takes an approval back. *)
LEMMA ApprovalStays ==
  ASSUME ApprovalInv, [Approval!Next]_(Approval!vars) PROVE [Approval!StaysApproved]_(Approval!vars)
BY DEF ApprovalInv, Approval!TypeOK, Approval!Next, Approval!Step, Approval!Approving,
       Approval!BeginCreate, Approval!Create, Approval!Requeued, Approval!BeginApprove,
       Approval!Claim, Approval!Claimable, Approval!RegisterPart, Approval!AuditRegistration,
       Approval!FailRegistration, Approval!Undo, Approval!Undone, Approval!Finish,
       Approval!Crash, Approval!ResetDemo, Approval!StaysApproved

-----------------------------------------------------------------------------
(* The off-host backup: the ledger of observations and the digest cache.   *)

Seeing == {"open", "digest", "lock", "ledger", "write", "unlock"}
Holding == {"ledger", "write", "unlock"}
Observed == Offhost!Observation \cup {NoEntry}

OffhostTyped ==
  /\ clock \in Offhost!Time /\ receipt.id \in OffhostReceipt
  /\ object \in [good : BOOLEAN, stamp : Nat]
  /\ issued \subseteq Offhost!Observation /\ liveness.seen \in issued
  /\ ledger \in Observed /\ consumed \in Observed
  /\ probe = [p \in ReadinessProbe |-> probe[p]]
  /\ \A p \in ReadinessProbe : probe[p].at \in Seeing => probe[p].seen \in Offhost!Observation

(* A probe that is past the lock holds it alone, what it wrote or found    *)
(* recorded is the entry of the ledger, and what it is about to write is   *)
(* newer than the entry.                                                   *)
LockHolds ==
  \A p \in ReadinessProbe : probe[p].at \in Holding =>
    /\ lock = {p}
    /\ probe[p].at = "write" => ledger = NoEntry \/ ledger.checked < probe[p].seen.checked
    /\ probe[p].at = "unlock" /\ probe[p].state = "recorded" => ledger = probe[p].seen
(* The ledger never falls behind what was answered. *)
LedgerLeads ==
  consumed # NoEntry => ledger # NoEntry /\ (ledger = consumed \/ consumed.checked < ledger.checked)

LedgerInv == OffhostTyped /\ LockHolds /\ LedgerLeads

(* A digest is filed under the version that was open or an older one. *)
DigestInv ==
  /\ \A p \in ReadinessProbe : probe[p].at = "digest" => probe[p].stamp \in 0..object.stamp
  /\ \A c \in cache : /\ c.key.stamp \in 0..object.stamp
                      /\ c.key.stamp = object.stamp /\ c.good => object.good

(* The outcomes of a digest. *)
LEMMA DigestGoes ==
  ASSUME NEW q, Offhost!Digest(q)
  PROVE  \E e : Offhost!Goto(q, e) /\ (e.at = "answer" \/ e = [at |-> "lock", seen |-> probe[q].seen])
<1>1. PICK good :
        \/ Offhost!Answer(q, "backup_object_changed")
        \/ Offhost!Goto(q, IF good THEN [at |-> "lock", seen |-> probe[q].seen]
                          ELSE [at |-> "answer", state |-> "backup_object_digest_mismatch"])
  BY DEF Offhost!Digest
<1>2. CASE Offhost!Answer(q, "backup_object_changed")
  BY <1>2 DEF Offhost!Answer
<1>3. CASE ~Offhost!Answer(q, "backup_object_changed")
  <2>1. PICK e : e = IF good THEN [at |-> "lock", seen |-> probe[q].seen]
                     ELSE [at |-> "answer", state |-> "backup_object_digest_mismatch"]
    OBVIOUS
  <2>2. Offhost!Goto(q, e)
    BY <1>1, <1>3, <2>1
  <2> QED BY <2>1, <2>2
<1> QED BY <1>2, <1>3

(* A probe moves on, and the others wait. *)
LEMMA ProbeMoves ==
  ASSUME OffhostTyped, NEW q \in ReadinessProbe, NEW e, Offhost!Goto(q, e),
         e.at \in Seeing => e.seen \in Offhost!Observation
  PROVE  /\ probe' = [p \in ReadinessProbe |-> probe'[p]]
         /\ probe'[q] = e /\ \A p \in ReadinessProbe \ {q} : probe'[p] = probe[p]
         /\ \A p \in ReadinessProbe : probe'[p].at \in Seeing => probe'[p].seen \in Offhost!Observation
<1>1. probe' = [probe EXCEPT ![q] = e] /\ DOMAIN probe = ReadinessProbe
  BY DEF OffhostTyped, Offhost!Goto
<1>2. probe'[q] = e /\ \A p \in ReadinessProbe \ {q} : probe'[p] = probe[p]
  BY <1>1
<1>3. probe' = [p \in ReadinessProbe |-> probe'[p]]
  BY <1>1
<1> QED BY <1>2, <1>3 DEF OffhostTyped

LEMMA TypedStep ==
  ASSUME OffhostTyped, NEW q \in ReadinessProbe, NEW e, Offhost!Goto(q, e),
         e.at \in Seeing => e.seen \in Offhost!Observation,
         UNCHANGED <<clock, receipt, liveness, issued, object>>, ledger' \in Observed, consumed' \in Observed
  PROVE  OffhostTyped'
<1> DEFINE Files == /\ clock \in Offhost!Time /\ receipt.id \in OffhostReceipt
                    /\ object \in [good : BOOLEAN, stamp : Nat]
                    /\ issued \subseteq Offhost!Observation /\ liveness.seen \in issued
<1>1. Files
  BY DEF OffhostTyped
<1>2. Files'
  BY <1>1
<1> QED BY <1>2, ProbeMoves DEF OffhostTyped

(* What a probe does before it has the lock or after it gave it back.      *)
LEMMA FreeStep ==
  ASSUME LedgerInv, NEW q \in ReadinessProbe, NEW e, Offhost!Goto(q, e),
         e.at \in Seeing => e.seen \in Offhost!Observation, e.at \notin Holding,
         UNCHANGED <<clock, receipt, liveness, issued, object, ledger, lock, consumed>>
  PROVE  LedgerInv' /\ Offhost!InOrder
<1>0. OffhostTyped /\ LockHolds /\ LedgerLeads
  BY DEF LedgerInv
<1>1. OffhostTyped'
  BY <1>0, TypedStep DEF OffhostTyped
<1>2. LockHolds'
  BY <1>0, ProbeMoves DEF LockHolds
<1>3. LedgerLeads' /\ Offhost!InOrder
  BY <1>0 DEF LedgerLeads, Offhost!InOrder
<1> QED BY <1>1, <1>2, <1>3 DEF LedgerInv

LEMMA LedgerStep ==
  ASSUME Offhost!OffhostAssumption, LedgerInv, [Offhost!Next]_(Offhost!vars)
  PROVE  LedgerInv' /\ Offhost!InOrder
<1> DEFINE Kept == LedgerInv' /\ Offhost!InOrder
<1>a. /\ OffhostTyped /\ LockHolds /\ LedgerLeads
      /\ \A p \in ReadinessProbe : probe[p].at \in Seeing => probe[p].seen \in Offhost!Observation
      /\ ledger \in Observed /\ consumed \in Observed
  BY DEF LedgerInv, OffhostTyped
<1>b. (\A o \in Offhost!Observation : o.checked \in Nat) /\ NoEntry \notin Offhost!Observation
  BY DEF Offhost!Observation, Offhost!Time, Offhost!OffhostAssumption
<1>1. ASSUME NEW q \in ReadinessProbe, Offhost!ReadReceipt(q) PROVE Kept
  <2>1. PICK e : e.at \in {"answer", "liveness"} /\ Offhost!Goto(q, e)
    <3>1. CASE receipt.defects # {}
      BY <1>1, <3>1 DEF Offhost!ReadReceipt, Offhost!Answer
    <3>2. CASE receipt.defects = {}
      BY <1>1, <3>2 DEF Offhost!ReadReceipt
    <3> QED BY <3>1, <3>2
  <2> QED BY <1>1, <2>1, FreeStep DEF Offhost!ReadReceipt, Offhost!files, Seeing, Holding
<1>2. ASSUME NEW q \in ReadinessProbe, Offhost!ReadLiveness(q) PROVE Kept
  <2>1. PICK d : d = Offhost!LivenessDefects(liveness, probe[q].receipt, probe[q].now)
    OBVIOUS
  <2>2. liveness.seen \in Offhost!Observation
    BY <1>a DEF OffhostTyped
  <2>3. PICK e : Offhost!Goto(q, e) /\ (e.at = "answer" \/ e = [at |-> "open", seen |-> liveness.seen])
    <3>1. CASE d # {}
      BY <1>2, <2>1, <3>1 DEF Offhost!ReadLiveness, Offhost!Answer
    <3>2. CASE d = {}
      BY <1>2, <2>1, <3>2 DEF Offhost!ReadLiveness
    <3> QED BY <3>1, <3>2
  <2> QED BY <1>2, <2>2, <2>3, FreeStep DEF Offhost!ReadLiveness, Offhost!files, Seeing, Holding
<1>3. ASSUME NEW q \in ReadinessProbe, Offhost!OpenBackup(q) PROVE Kept
  <2>1. PICK e : /\ Offhost!Goto(q, e)
                 /\ e = [at |-> "digest", seen |-> probe[q].seen, stamp |-> object.stamp]
    BY <1>3 DEF Offhost!OpenBackup
  <2>2. probe[q].at \in Seeing
    BY <1>3 DEF Offhost!OpenBackup, Seeing
  <2>3. e.at \notin Holding /\ e.seen \in Offhost!Observation
    BY <1>a, <2>1, <2>2 DEF Holding
  <2> QED BY <1>3, <2>1, <2>3, FreeStep DEF Offhost!OpenBackup, Offhost!files
<1>4. ASSUME NEW q \in ReadinessProbe, Offhost!Digest(q) PROVE Kept
  <2>1. PICK e : Offhost!Goto(q, e) /\ (e.at = "answer" \/ e = [at |-> "lock", seen |-> probe[q].seen])
    BY <1>4, DigestGoes
  <2>2. probe[q].at \in Seeing
    BY <1>4 DEF Offhost!Digest, Seeing
  <2>3. e.at \notin Holding /\ (e.at \in Seeing => e.seen \in Offhost!Observation)
    BY <1>a, <2>1, <2>2 DEF Holding, Seeing
  <2> QED BY <1>4, <2>1, <2>3, FreeStep DEF Offhost!Digest, Offhost!files
<1>5. ASSUME NEW q \in ReadinessProbe, Offhost!TakeLock(q) PROVE Kept
  <2>1. PICK e : Offhost!Goto(q, e) /\ e = [at |-> "ledger", seen |-> probe[q].seen]
    BY <1>5 DEF Offhost!TakeLock
  <2>2. /\ lock = {} /\ lock' = {q} /\ probe[q].at \in Seeing
        /\ UNCHANGED <<clock, receipt, liveness, issued, object, ledger, consumed>>
    BY <1>5 DEF Offhost!TakeLock, Offhost!LockFree, Offhost!files, Seeing
  <2>3. e.seen \in Offhost!Observation /\ e.at = "ledger"
    BY <1>a, <2>1, <2>2
  <2>4. OffhostTyped'
    BY <1>a, <2>1, <2>2, <2>3, TypedStep
  <2>5. LockHolds'
    <3>1. probe'[q] = e /\ \A p \in ReadinessProbe \ {q} : probe'[p] = probe[p]
      BY <1>a, <2>1, <2>3, ProbeMoves
    <3>2. \A p \in ReadinessProbe : probe[p].at \notin Holding
      BY <1>a, <2>2 DEF LockHolds
    <3> QED BY <2>2, <2>3, <3>1, <3>2 DEF LockHolds
  <2>6. LedgerLeads' /\ Offhost!InOrder
    BY <1>a, <2>2 DEF LedgerLeads, Offhost!InOrder
  <2> QED BY <2>4, <2>5, <2>6 DEF LedgerInv
<1>6. ASSUME NEW q \in ReadinessProbe, Offhost!ReadLedger(q) PROVE Kept
  <2>1. PICK v : v = Offhost!Verdict(probe[q].seen, ledger)
    OBVIOUS
  <2>2. PICK e : /\ Offhost!Goto(q, e)
                 /\ e = [at |-> IF v = "write" THEN "write" ELSE "unlock", seen |-> probe[q].seen, state |-> v]
    BY <1>6, <2>1 DEF Offhost!ReadLedger
  <2>3. /\ probe[q].at \in Seeing /\ probe[q].at \in Holding
        /\ UNCHANGED <<clock, receipt, liveness, issued, object, ledger, lock, consumed>>
    BY <1>6 DEF Offhost!ReadLedger, Offhost!files, Seeing, Holding
  <2>4. e.seen = probe[q].seen /\ e.seen \in Offhost!Observation /\ e.state = v
        /\ (e.at = "write" <=> v = "write")
    BY <1>a, <2>2, <2>3
  <2>5. /\ v = "write" => ledger = NoEntry \/ ledger.checked < e.seen.checked
        /\ v = "recorded" => ledger = e.seen
    <3>1. ledger = NoEntry \/ (ledger.checked \in Nat /\ e.seen.checked \in Nat)
      BY <1>a, <1>b, <2>4 DEF Observed
    <3> QED BY <2>1, <2>4, <3>1 DEF Offhost!Verdict
  <2>6. OffhostTyped'
    BY <1>a, <2>2, <2>3, <2>4, TypedStep
  <2>7. LockHolds'
    <3>1. probe'[q] = e /\ \A p \in ReadinessProbe \ {q} : probe'[p] = probe[p]
      BY <1>a, <2>2, <2>4, ProbeMoves
    <3>2. lock = {q}
      BY <1>a, <2>3 DEF LockHolds
    <3> QED BY <1>a, <2>3, <2>4, <2>5, <3>1, <3>2 DEF LockHolds
  <2>8. LedgerLeads' /\ Offhost!InOrder
    BY <1>a, <2>3 DEF LedgerLeads, Offhost!InOrder
  <2> QED BY <2>6, <2>7, <2>8 DEF LedgerInv
<1>7. ASSUME NEW q \in ReadinessProbe, Offhost!WriteLedger(q) PROVE Kept
  <2>1. PICK state \in {"recorded", "replay_ledger_invalid"} :
          /\ ledger' = IF state = "recorded" THEN probe[q].seen ELSE ledger
          /\ Offhost!Goto(q, [at |-> "unlock", seen |-> probe[q].seen, state |-> state])
    BY <1>7 DEF Offhost!WriteLedger
  <2>2. PICK e : Offhost!Goto(q, e) /\ e = [at |-> "unlock", seen |-> probe[q].seen, state |-> state]
    BY <2>1
  <2>3. /\ probe[q].at = "write" /\ probe[q].at \in Seeing /\ probe[q].at \in Holding
        /\ UNCHANGED <<clock, receipt, liveness, issued, object, lock, consumed>>
    BY <1>7 DEF Offhost!WriteLedger, Offhost!files, Seeing, Holding
  <2>4. e.seen = probe[q].seen /\ e.seen \in Offhost!Observation /\ e.at = "unlock" /\ e.state = state
    BY <1>a, <2>2, <2>3
  <2>5. lock = {q} /\ (ledger = NoEntry \/ ledger.checked < e.seen.checked)
    BY <1>a, <2>3, <2>4 DEF LockHolds
  <2>6. ledger' \in {ledger, e.seen} /\ (state = "recorded" => ledger' = e.seen)
    BY <2>1, <2>4
  <2>7. OffhostTyped'
    <3>1. ledger' \in Observed /\ consumed' \in Observed
      BY <1>a, <2>3, <2>4, <2>6 DEF Observed
    <3> QED BY <1>a, <2>2, <2>3, <2>4, <3>1, TypedStep
  <2>8. LockHolds'
    <3>1. probe'[q] = e /\ \A p \in ReadinessProbe \ {q} : probe'[p] = probe[p]
      BY <1>a, <2>2, <2>4, ProbeMoves
    <3>2. \A p \in ReadinessProbe \ {q} : probe[p].at \notin Holding
      BY <1>a, <2>5 DEF LockHolds
    <3> QED BY <2>3, <2>4, <2>5, <2>6, <3>1, <3>2 DEF LockHolds
  <2>9. LedgerLeads' /\ Offhost!InOrder
    <3>1. ledger = NoEntry => consumed = NoEntry
      BY <1>a DEF LedgerLeads
    <3>2. consumed # NoEntry => consumed.checked \in Nat /\ ledger.checked \in Nat /\ e.seen.checked \in Nat
      BY <1>a, <1>b, <2>4, <3>1 DEF Observed
    <3>3. consumed # NoEntry /\ ledger' = e.seen => consumed.checked < ledger'.checked /\ ledger' # NoEntry
      BY <1>a, <1>b, <2>4, <2>5, <3>1, <3>2 DEF LedgerLeads
    <3>4. consumed' = consumed
      BY <2>3
    <3> QED BY <1>a, <2>6, <3>3, <3>4 DEF LedgerLeads, Offhost!InOrder
  <2> QED BY <2>7, <2>8, <2>9 DEF LedgerInv
<1>8. ASSUME NEW q \in ReadinessProbe, Offhost!Unlock(q) PROVE Kept
  <2>1. PICK e : Offhost!Goto(q, e) /\ e = [at |-> "answer", state |-> probe[q].state]
    BY <1>8 DEF Offhost!Unlock, Offhost!Answer
  <2>2. /\ probe[q].at = "unlock" /\ probe[q].at \in Seeing /\ probe[q].at \in Holding
        /\ UNCHANGED <<clock, receipt, liveness, issued, object, ledger>>
        /\ consumed' = IF probe[q].state = "recorded" THEN probe[q].seen ELSE consumed
    BY <1>8 DEF Offhost!Unlock, Offhost!files, Seeing, Holding
  <2>3. e.at = "answer" /\ e.at \notin Seeing /\ e.at \notin Holding
    BY <2>1 DEF Seeing, Holding
  <2>4. lock = {q} /\ (probe[q].state = "recorded" => ledger = probe[q].seen)
        /\ probe[q].seen \in Offhost!Observation
    BY <1>a, <2>2 DEF LockHolds
  <2>5. OffhostTyped'
    <3>1. ledger' \in Observed /\ consumed' \in Observed
      BY <1>a, <2>2, <2>4 DEF Observed
    <3> QED BY <1>a, <2>1, <2>2, <2>3, <3>1, TypedStep
  <2>6. LockHolds'
    <3>1. probe'[q] = e /\ \A p \in ReadinessProbe \ {q} : probe'[p] = probe[p]
      BY <1>a, <2>1, <2>3, ProbeMoves
    <3>2. \A p \in ReadinessProbe \ {q} : probe[p].at \notin Holding
      BY <1>a, <2>4 DEF LockHolds
    <3> QED BY <2>3, <3>1, <3>2 DEF LockHolds
  <2>7. LedgerLeads' /\ Offhost!InOrder
    <3>1. CASE probe[q].state = "recorded"
      <4>1. consumed' = ledger /\ ledger' = ledger /\ ledger # NoEntry
        BY <1>b, <2>2, <2>4, <3>1
      <4> QED BY <1>a, <4>1 DEF LedgerLeads, Offhost!InOrder
    <3>2. CASE probe[q].state # "recorded"
      <4>1. consumed' = consumed /\ ledger' = ledger
        BY <2>2, <3>2
      <4> QED BY <1>a, <4>1 DEF LedgerLeads, Offhost!InOrder
    <3> QED BY <3>1, <3>2
  <2> QED BY <2>5, <2>6, <2>7 DEF LedgerInv
<1>9. ASSUME NEW q \in ReadinessProbe, Offhost!Respond(q) PROVE Kept
  <2>1. PICK e : e.at = "idle" /\ Offhost!Goto(q, e)
    BY <1>9 DEF Offhost!Respond, Offhost!Idle
  <2> QED BY <1>9, <2>1, FreeStep DEF Offhost!Respond, Offhost!files, Seeing, Holding
<1>10. ASSUME UNCHANGED <<ledger, lock, probe, consumed>>, OffhostTyped' PROVE Kept
  <2>1. LockHolds'
    BY <1>a, <1>10 DEF LockHolds
  <2>2. LedgerLeads' /\ Offhost!InOrder
    BY <1>a, <1>10 DEF LedgerLeads, Offhost!InOrder
  <2> QED BY <1>10, <2>1, <2>2 DEF LedgerInv
<1>11. ASSUME NEW n \in Nonce, Offhost!Issue(n) PROVE Kept
  BY <1>a, <1>10, <1>11 DEF Offhost!Issue, OffhostTyped, Offhost!Observation
<1>12. ASSUME NEW o \in issued, NEW d, Offhost!PutLiveness(o, d) PROVE Kept
  BY <1>a, <1>10, <1>12 DEF Offhost!PutLiveness, OffhostTyped
<1>13. ASSUME NEW r \in OffhostReceipt, NEW d, Offhost!PutReceipt(r, d) PROVE Kept
  BY <1>a, <1>10, <1>13 DEF Offhost!PutReceipt, OffhostTyped
<1>14. ASSUME NEW good \in BOOLEAN, Offhost!Rewrite(good) PROVE Kept
  BY <1>a, <1>10, <1>14 DEF Offhost!Rewrite, OffhostTyped
<1>15. CASE Offhost!Restart
  <2>1. /\ probe' = [p \in ReadinessProbe |-> Offhost!Idle]
        /\ UNCHANGED <<clock, receipt, liveness, issued, object, ledger, consumed>>
    BY <1>15 DEF Offhost!Restart, Offhost!files
  <2>2. \A p \in ReadinessProbe : probe'[p].at \notin Seeing /\ probe'[p].at \notin Holding
    BY <2>1 DEF Offhost!Idle, Seeing, Holding
  <2>3. OffhostTyped'
    BY <1>a, <2>1, <2>2 DEF OffhostTyped
  <2>4. LockHolds' /\ LedgerLeads' /\ Offhost!InOrder
    BY <1>a, <2>1, <2>2 DEF LockHolds, LedgerLeads, Offhost!InOrder
  <2> QED BY <2>3, <2>4 DEF LedgerInv
<1>16. CASE Offhost!Tick
  <2>1. clock' \in Offhost!Time
    BY <1>a, <1>16 DEF Offhost!Tick, Offhost!Time, OffhostTyped, Offhost!OffhostAssumption
  <2> QED BY <1>a, <1>10, <1>16, <2>1 DEF Offhost!Tick, Offhost!files, OffhostTyped
<1>17. CASE UNCHANGED Offhost!vars
  BY <1>a, <1>10, <1>17 DEF Offhost!vars, OffhostTyped
<1> QED
  BY <1>1, <1>2, <1>3, <1>4, <1>5, <1>6, <1>7, <1>8, <1>9, <1>11, <1>12, <1>13,
     <1>14, <1>15, <1>16, <1>17
  DEF Offhost!Next, Offhost!Check

LEMMA DigestStep ==
  ASSUME OffhostTyped, DigestInv, [Offhost!Next]_(Offhost!vars) PROVE DigestInv'
<1> USE DEF Offhost!Goto, Offhost!files, Offhost!Idle, Offhost!Answer, OffhostTyped, DigestInv
<1>1. ASSUME NEW p \in ReadinessProbe, Offhost!Digest(p) PROVE DigestInv'
  <2> DEFINE k == Offhost!Key(probe[p].seen, probe[p].stamp)
  <2>1. k.stamp = probe[p].stamp
    BY DEF Offhost!Key
  <2>2. CASE cache' = cache
    BY <1>1, <2>2 DEF Offhost!Digest
  <2>3. CASE cache' # cache
    <3>1. \A c \in cache' : c \in cache \/ c = [key |-> k, good |-> object.good]
      BY <1>1, <2>3 DEF Offhost!Digest
    <3> QED BY <1>1, <2>1, <3>1 DEF Offhost!Digest
  <2> QED BY <2>2, <2>3
<1>2. ASSUME NEW p \in ReadinessProbe, Offhost!OpenBackup(p) PROVE DigestInv'
  BY <1>2 DEF Offhost!OpenBackup
<1>3. ASSUME NEW good \in BOOLEAN, Offhost!Rewrite(good) PROVE DigestInv'
  BY <1>3 DEF Offhost!Rewrite
<1>4. CASE Offhost!Restart
  BY <1>4 DEF Offhost!Restart
<1>5. ASSUME UNCHANGED <<object, cache>>,
             \A p \in ReadinessProbe : probe'[p].at = "digest" => probe'[p] = probe[p]
      PROVE  DigestInv'
  BY <1>5
<1>6. ASSUME NEW p \in ReadinessProbe,
             \/ Offhost!ReadReceipt(p) \/ Offhost!ReadLiveness(p) \/ Offhost!TakeLock(p)
             \/ Offhost!ReadLedger(p) \/ Offhost!WriteLedger(p) \/ Offhost!Unlock(p)
             \/ Offhost!Respond(p)
      PROVE  DigestInv'
  BY <1>5, <1>6 DEF Offhost!ReadReceipt, Offhost!ReadLiveness, Offhost!TakeLock, Offhost!ReadLedger,
                    Offhost!WriteLedger, Offhost!Unlock, Offhost!Respond
<1>7. CASE \/ UNCHANGED Offhost!vars \/ Offhost!Tick \/ \E n \in Nonce : Offhost!Issue(n)
           \/ \E o \in issued, d \in {{}, {"liveness_signature_invalid", "liveness_invalid"}} :
                Offhost!PutLiveness(o, d)
           \/ \E r \in OffhostReceipt, d \in {{}, {"stale", "signature_invalid"}} : Offhost!PutReceipt(r, d)
  BY <1>5, <1>7 DEF Offhost!vars, Offhost!Tick, Offhost!Issue, Offhost!PutLiveness, Offhost!PutReceipt
<1> QED BY <1>1, <1>2, <1>3, <1>4, <1>6, <1>7 DEF Offhost!Next, Offhost!Check

(* The files and the cache speak of observations that were issued. *)
FilesInv ==
  /\ receipt \in [id : OffhostReceipt, defects : SUBSET Offhost!Names(Offhost!ReceiptChecks)]
  /\ liveness \in [seen : issued, defects : SUBSET Offhost!Names(Offhost!LivenessChecks)]
  /\ object \in [good : BOOLEAN, stamp : 1..StampMax]
  /\ cache \subseteq [key : [seen : issued, stamp : 1..StampMax], good : BOOLEAN]
  /\ IsFiniteSet(cache) /\ Cardinality(cache) <= CacheMax
  /\ ledger \in issued \cup {NoEntry} /\ consumed \in issued \cup {NoEntry}
  /\ lock \subseteq ReadinessProbe
  /\ \A p \in ReadinessProbe : probe[p].at \in Seeing => probe[p].seen \in issued
  /\ \A p \in ReadinessProbe : probe[p].at = "digest" => probe[p].stamp \in 1..StampMax

LEMMA OffhostCardinality == ASSUME NEW S PROVE Offhost!Cardinality(S) = Cardinality(S)
BY DEF Offhost!Cardinality, Cardinality

LEMMA DefectNames ==
  /\ {"stale", "signature_invalid"} \subseteq Offhost!Names(Offhost!ReceiptChecks)
  /\ {"liveness_signature_invalid", "liveness_invalid"} \subseteq Offhost!Names(Offhost!LivenessChecks)
<1>1. /\ Len(Offhost!ReceiptChecks) = 13 /\ Offhost!ReceiptChecks[13] = "stale"
      /\ Offhost!ReceiptChecks[5] = "signature_invalid"
  BY DEF Offhost!ReceiptChecks
<1>2. /\ Len(Offhost!LivenessChecks) = 13 /\ Offhost!LivenessChecks[3] = "liveness_invalid"
      /\ Offhost!LivenessChecks[5] = "liveness_signature_invalid"
  BY DEF Offhost!LivenessChecks
<1>3. 13 \in 1..13 /\ 5 \in 1..13 /\ 3 \in 1..13
  OBVIOUS
<1> QED BY <1>1, <1>2, <1>3 DEF Offhost!Names

LEMMA FilesInit == ASSUME Offhost!OffhostAssumption, Offhost!Init PROVE FilesInv
BY FS_EmptySet DEF Offhost!Init, FilesInv, Offhost!Idle, Seeing, Offhost!OffhostAssumption

(* A verification result is filed in a cache that has room. *)
LEMMA CacheStep ==
  ASSUME Offhost!OffhostAssumption, OffhostTyped, FilesInv, NEW p \in ReadinessProbe, Offhost!Digest(p)
  PROVE  /\ cache' \subseteq [key : [seen : issued, stamp : 1..StampMax], good : BOOLEAN]
         /\ IsFiniteSet(cache') /\ Cardinality(cache') <= CacheMax
<1> DEFINE k == Offhost!Key(probe[p].seen, probe[p].stamp)
           row == [key |-> k, good |-> object.good]
<1>1. k \in [seen : issued, stamp : 1..StampMax] /\ object.good \in BOOLEAN
  BY DEF Offhost!Digest, Offhost!Key, FilesInv, Seeing
<1>2. /\ IsFiniteSet({}) /\ Cardinality({}) < CacheMax
      /\ Cardinality(cache) \in Nat /\ CacheMax \in Nat
  BY FS_EmptySet, FS_CardinalityType DEF FilesInv, Offhost!OffhostAssumption
<1>3. \/ cache' = cache
      \/ \E kept : /\ kept \subseteq cache /\ IsFiniteSet(kept) /\ Cardinality(kept) < CacheMax
                   /\ cache' = kept \cup {row}
  <2>1. \/ cache' = cache
        \/ Cardinality(cache) >= CacheMax /\ cache' = {} \cup {row}
        \/ ~(Cardinality(cache) >= CacheMax) /\ cache' = cache \cup {row}
    BY OffhostCardinality DEF Offhost!Digest
  <2> QED BY <1>2, <2>1 DEF FilesInv
<1>4. ASSUME NEW kept, kept \subseteq cache, IsFiniteSet(kept), Cardinality(kept) < CacheMax,
             cache' = kept \cup {row}
      PROVE  IsFiniteSet(cache') /\ Cardinality(cache') <= CacheMax
  <2>1. PICK r : r = row
    OBVIOUS
  <2>2. cache' = kept \cup {r} /\ Cardinality(kept) \in Nat
    BY <1>4, <2>1, FS_CardinalityType
  <2>3. Cardinality(kept) < CacheMax /\ IsFiniteSet(kept)
    BY <1>4
  <2>4. /\ IsFiniteSet(kept \cup {r})
        /\ Cardinality(kept \cup {r}) \in {Cardinality(kept), Cardinality(kept) + 1}
    BY <2>3, FS_AddElement
  <2> QED BY <1>2, <2>2, <2>3, <2>4
<1> QED BY <1>1, <1>3, <1>4 DEF FilesInv

LEMMA FilesStep ==
  ASSUME Offhost!OffhostAssumption, OffhostTyped, FilesInv, [Offhost!Next]_(Offhost!vars)
  PROVE  FilesInv'
<1> USE DEF Offhost!Goto, Offhost!files, Offhost!Idle, Offhost!Answer, OffhostTyped, FilesInv, Seeing,
            Offhost!OffhostAssumption
<1>0. CASE UNCHANGED Offhost!vars
  BY <1>0 DEF Offhost!vars
<1>1. ASSUME NEW p \in ReadinessProbe, Offhost!Digest(p) PROVE FilesInv'
  <2>1. UNCHANGED <<receipt, liveness, object, issued, ledger, consumed, lock>>
    BY <1>1 DEF Offhost!Digest
  <2>2. /\ \A q \in ReadinessProbe : probe'[q].at \in Seeing => probe'[q].seen \in issued
        /\ \A q \in ReadinessProbe : probe'[q].at = "digest" => probe'[q].stamp \in 1..StampMax
    BY <1>1 DEF Offhost!Digest
  <2> QED BY <1>1, <2>1, <2>2, CacheStep
<1>2. ASSUME NEW p \in ReadinessProbe, Offhost!OpenBackup(p) PROVE FilesInv'
  BY <1>2 DEF Offhost!OpenBackup
<1>3. ASSUME NEW p \in ReadinessProbe,
             \/ Offhost!ReadReceipt(p) \/ Offhost!TakeLock(p)
             \/ Offhost!ReadLedger(p) \/ Offhost!WriteLedger(p) \/ Offhost!Unlock(p)
             \/ Offhost!Respond(p)
      PROVE  FilesInv'
  BY <1>3 DEF Offhost!ReadReceipt, Offhost!TakeLock, Offhost!ReadLedger,
              Offhost!WriteLedger, Offhost!Unlock, Offhost!Respond
<1>4. ASSUME NEW p \in ReadinessProbe, Offhost!ReadLiveness(p) PROVE FilesInv'
  BY <1>4 DEF Offhost!ReadLiveness
<1>5. ASSUME NEW n \in Nonce, Offhost!Issue(n) PROVE FilesInv'
  BY <1>5 DEF Offhost!Issue
<1>6. ASSUME NEW o \in issued, NEW d \in {{}, {"liveness_signature_invalid", "liveness_invalid"}},
             Offhost!PutLiveness(o, d)
      PROVE  FilesInv'
  BY <1>6, DefectNames DEF Offhost!PutLiveness
<1>7. ASSUME NEW r \in OffhostReceipt, NEW d \in {{}, {"stale", "signature_invalid"}}, Offhost!PutReceipt(r, d)
      PROVE  FilesInv'
  BY <1>7, DefectNames DEF Offhost!PutReceipt
<1>8. ASSUME NEW good \in BOOLEAN, Offhost!Rewrite(good) PROVE FilesInv'
  BY <1>8 DEF Offhost!Rewrite
<1>9. CASE Offhost!Restart
  BY <1>9, FS_EmptySet DEF Offhost!Restart
<1>10. CASE Offhost!Tick
  BY <1>10 DEF Offhost!Tick
<1> QED
  BY <1>0, <1>1, <1>2, <1>3, <1>4, <1>5, <1>6, <1>7, <1>8, <1>9, <1>10 DEF Offhost!Next, Offhost!Check

OffhostInv == LedgerInv /\ DigestInv /\ FilesInv

LEMMA OffhostInductive ==
  ASSUME Offhost!OffhostAssumption
  PROVE  /\ Offhost!Init => OffhostInv
         /\ OffhostInv /\ [Offhost!Next]_(Offhost!vars) => OffhostInv'
<1> USE DEF OffhostInv
<1>1. Offhost!Init => LedgerInv /\ DigestInv
  BY DEF Offhost!Init, LedgerInv, DigestInv, OffhostTyped, LockHolds, LedgerLeads, Seeing, Holding,
         Observed, Offhost!Observation, Offhost!Time, Offhost!Idle, Offhost!OffhostAssumption
<1>2. LedgerInv /\ DigestInv /\ [Offhost!Next]_(Offhost!vars) => LedgerInv' /\ DigestInv'
  BY LedgerStep, DigestStep DEF LedgerInv
<1> QED BY <1>1, <1>2, FilesInit, FilesStep DEF LedgerInv

LEMMA OffhostHolds == ASSUME OffhostInv PROVE Offhost!TypeOK /\ Offhost!CacheTrue
<1>1. Offhost!TypeOK
  BY OffhostCardinality DEF OffhostInv, LedgerInv, OffhostTyped, FilesInv, Offhost!TypeOK
<1>2. Offhost!CacheTrue
  BY DEF OffhostInv, DigestInv, Offhost!CacheTrue, Offhost!Key
<1> QED BY <1>1, <1>2

-----------------------------------------------------------------------------
(* Authorization: a granted scope was assigned and permitted.              *)

Assignment == [role : Role, scopes : SUBSET Scope,
               status : {"active", "disabled", "review_required"}]

Authorization ==
  [at : {"idle", "validated", "denied"}] \cup [at : {"assigned"}, row : Assignment]
  \cup [at : {"granted"}, role : Role, scopes : SUBSET Scope]
AccessTyped ==
  /\ override \in [Role -> RoleChoice \cup {None}]
  /\ assignment \in [Access!Key -> Assignment \cup {None}]
  /\ update \in [Administrator -> {Access!Idle} \cup [at : {"writing"}, key : Access!Key, row : Assignment]]
  /\ request \in [Request -> Authorization]
  /\ seen \in [Request -> [permitted : SUBSET (Role \X Scope), assigned : SUBSET (Role \X Scope)]]

(* A request under way has seen every state the tables had since it began, *)
(* and so the grant it read.                                               *)
SeenAll ==
  \A q \in Request :
    /\ request[q].at # "idle" =>
         Access!Permits(override) \subseteq seen[q].permitted /\ Access!Grants(assignment) \subseteq seen[q].assigned
    /\ request[q].at = "assigned" =>
         \A s \in request[q].row.scopes : <<request[q].row.role, s>> \in seen[q].assigned

AccessInv == AccessTyped /\ SeenAll /\ Access!GrantedByBoth

(* A request goes on with what it has seen. *)
LEMMA RequestMoves ==
  ASSUME AccessInv, NEW q \in Request, NEW e \in Authorization, request' = [request EXCEPT ![q] = e],
         UNCHANGED <<override, assignment, update, seen>>, request[q].at # "idle",
         e.at = "assigned" => \A s \in e.row.scopes : <<e.row.role, s>> \in seen[q].assigned,
         e.at = "granted" => \A s \in e.scopes : <<e.role, s>> \in seen[q].permitted \cap seen[q].assigned
  PROVE  AccessInv'
<1>1. request' \in [Request -> Authorization]
  BY DEF AccessInv, AccessTyped
<1>2. request'[q] = e /\ \A p \in Request \ {q} : request'[p] = request[p]
  BY DEF AccessInv, AccessTyped
<1>3. AccessTyped'
  BY <1>1 DEF AccessInv, AccessTyped
<1>4. Access!Permits(override)' = Access!Permits(override)
      /\ Access!Grants(assignment)' = Access!Grants(assignment)
  BY DEF Access!Permits, Access!PolicyOf, Access!Grants
<1>5. SeenAll'
  BY <1>2, <1>4 DEF AccessInv, SeenAll
<1>6. Access!GrantedByBoth'
  BY <1>2 DEF AccessInv, Access!GrantedByBoth
<1> QED BY <1>3, <1>5, <1>6 DEF AccessInv

LEMMA AccessStep ==
  ASSUME Access!AccessAssumption, AccessInv, [Access!Next]_(Access!vars) PROVE AccessInv'
<1> USE DEF Access!AccessAssumption, AccessInv, AccessTyped, Assignment, Authorization, SeenAll,
            Access!GrantedByBoth, Access!Key, Access!Idle
<1>0. CASE UNCHANGED Access!vars
  BY <1>0 DEF Access!vars, Access!Permits, Access!PolicyOf, Access!Grants
<1>1. ASSUME NEW r \in Role, NEW scopes \in RoleChoice, Access!UpdateRole(r, scopes) PROVE AccessInv'
  BY <1>1 DEF Access!UpdateRole, Access!Observe, Access!Permits, Access!PolicyOf, Access!Grants
<1>2. ASSUME NEW a \in Administrator, NEW k \in Access!Key, NEW new \in AssignChoice,
             Access!BeginAssign(a, k, new)
      PROVE  AccessInv'
  BY <1>2 DEF Access!BeginAssign, Access!Defined, Access!Permits, Access!PolicyOf, Access!Grants
<1>3. ASSUME NEW a \in Administrator, Access!Assign(a) PROVE AccessInv'
  BY <1>3 DEF Access!Assign, Access!Observe, Access!Permits, Access!PolicyOf, Access!Grants
<1>4. ASSUME NEW q \in Request, Access!Begin(q) PROVE AccessInv'
  BY <1>4 DEF Access!Begin, Access!Permits, Access!PolicyOf, Access!Grants
<1>5. ASSUME NEW q \in Request, Access!ReadAssignment(q) PROVE AccessInv'
  <2> HIDE DEF Access!AccessAssumption, AccessInv, AccessTyped, Assignment, Authorization, SeenAll,
               Access!GrantedByBoth, Access!Key, Access!Idle
  <2>1. PICK row : row = Access!Assigned(assignment)
    OBVIOUS
  <2>2. PICK e : /\ request' = [request EXCEPT ![q] = e]
                 /\ \/ e = [at |-> "denied"]
                    \/ row # None /\ row.status = "active" /\ e = [at |-> "assigned", row |-> row]
    BY <1>5, <2>1 DEF Access!ReadAssignment
  <2>3. UNCHANGED <<override, assignment, update, seen>> /\ request[q].at = "validated"
    BY <1>5 DEF Access!ReadAssignment
  <2>4. PICK k \in Access!Key : row = assignment[k]
    BY <2>1 DEF Access!Assigned, Access!Key
  <2>5. row # None => row \in Assignment
    BY <2>4 DEF AccessInv, AccessTyped
  <2>6. ASSUME row # None, row.status = "active", NEW s \in row.scopes
        PROVE  <<row.role, s>> \in seen[q].assigned
    <3>1. row.role \in Role /\ s \in Scope
      BY <2>5, <2>6 DEF Assignment
    <3>2. <<row.role, s>> \in Access!Grants(assignment)
      BY <2>4, <2>6, <3>1 DEF Access!Grants
    <3> QED BY <2>3, <3>2 DEF AccessInv, SeenAll
  <2>7. e \in Authorization
    BY <2>2, <2>5 DEF Authorization
  <2>8. /\ e.at = "assigned" => \A s \in e.row.scopes : <<e.row.role, s>> \in seen[q].assigned
        /\ e.at # "granted"
    BY <2>2, <2>6
  <2> QED BY <2>2, <2>3, <2>7, <2>8, RequestMoves
<1>6. ASSUME NEW q \in Request, Access!ReadPolicy(q) PROVE AccessInv'
  <2> HIDE DEF Access!AccessAssumption, AccessInv, AccessTyped, Assignment, Authorization, SeenAll,
               Access!GrantedByBoth, Access!Key, Access!Idle
  <2>1. /\ UNCHANGED <<override, assignment, update, seen>> /\ request[q].at = "assigned"
        /\ request' = [request EXCEPT ![q] =
                         [at |-> "granted", role |-> request[q].row.role,
                          scopes |-> Access!Effective(request[q].row)]]
    BY <1>6 DEF Access!ReadPolicy
  <2>2. request[q].row \in Assignment /\ request[q] \in Authorization
    BY <2>1 DEF AccessInv, AccessTyped, Authorization
  <2>3. PICK row \in Assignment : row = request[q].row
    BY <2>2
  <2>4. PICK e : e = [at |-> "granted", role |-> row.role, scopes |-> Access!Effective(row)]
    OBVIOUS
  <2>5. row.role \in Role /\ Access!Effective(row) \subseteq row.scopes /\ row.scopes \subseteq Scope
    BY DEF Assignment, Access!Effective
  <2>6. e \in Authorization
    BY <2>4, <2>5 DEF Authorization
  <2>7. ASSUME NEW s \in Access!Effective(row)
        PROVE  <<row.role, s>> \in seen[q].permitted \cap seen[q].assigned
    <3>1. <<row.role, s>> \in seen[q].assigned
      BY <2>1, <2>3, <2>5 DEF AccessInv, SeenAll
    <3>2. <<row.role, s>> \in Access!Permits(override)
      BY <2>5 DEF Access!Permits, Access!Effective
    <3> QED BY <2>1, <3>1, <3>2 DEF AccessInv, SeenAll
  <2>8. e.at = "granted" /\ \A s \in e.scopes : <<e.role, s>> \in seen[q].permitted \cap seen[q].assigned
    BY <2>4, <2>7
  <2> QED BY <2>1, <2>3, <2>4, <2>6, <2>8, RequestMoves
<1> QED BY <1>0, <1>1, <1>2, <1>3, <1>4, <1>5, <1>6 DEF Access!Next

LEMMA AccessInit == ASSUME Access!AccessAssumption, Access!Init PROVE AccessInv
BY DEF Access!Init, AccessInv, AccessTyped, Authorization, SeenAll, Access!GrantedByBoth, Access!Key, Access!Idle,
       Access!AccessAssumption

LEMMA AccessHolds == ASSUME AccessInv PROVE Access!TypeOK /\ Access!GrantedByBoth
BY DEF AccessInv, AccessTyped, Authorization, Access!TypeOK, Assignment

-----------------------------------------------------------------------------
(* The gate in front of a model provider.                                  *)

Runnable == {p \in Gate!Policy : p.provider \in Provider /\ p.model # None}
ChatWork ==
  {Gate!Idle} \cup [at : {"routed"}, ready : BOOLEAN, routed : Gate!Policy]
  \cup [at : {"calling", "answered", "fell_back", "error"}, ready : BOOLEAN, routed : Gate!Policy,
        called : Runnable]
  \cup [at : {"skipped"}, ready : BOOLEAN, routed : Gate!Policy, called : Gate!Policy]
  \cup [at : {"done"}, ready : BOOLEAN, routed : Gate!Policy, called : Gate!Policy,
        was : {"skipped", "answered", "fell_back"}]

Row(r) == r # None => /\ r.status \in {"blocked", "completed", "failed"}
                      /\ r.model \in Model \cup {None} /\ r.at \in 0..clock
Tables ==
  /\ policy \in Gate!Policy /\ credential \subseteq Cloud
  /\ usages \in [Chat -> Nat] /\ verified \subseteq Provider \X Model /\ clock \in 0..ClockMax
Checks == checks = [p \in Provider |-> checks[p]] /\ \A p \in Provider : Row(checks[p])
Tests ==
  test \in [Test -> {Gate!Idle} \cup [at : {"calling", "completed", "failed"}, policy : Runnable]]
Chats == chat \in [Chat -> ChatWork]
GateTyped == Tables /\ Checks /\ Tests /\ Chats

(* A row that opens the gate was written by a completed test of its model. *)
ChecksVerified ==
  \A p \in Provider : checks[p] # None /\ checks[p].status = "completed" =>
    <<p, checks[p].model>> \in verified

(* The usage of a chat that is not done. *)
UsageSoFar ==
  \A c \in Chat :
    /\ chat[c].at \in {"idle", "routed", "calling", "skipped", "error"} => usages[c] = 0
    /\ chat[c].at \in {"answered", "fell_back"} => usages[c] = 1

GateInv == GateTyped /\ ChecksVerified /\ UsageSoFar /\ Gate!GateSound

(* Tests: a row of a completed test goes with its entry of `verified`. *)
LEMMA ChecksStep ==
  ASSUME GateTyped, ChecksVerified, [Gate!Next]_(Gate!vars)
  PROVE  Checks' /\ ChecksVerified' /\ Tests' /\ verified \subseteq verified'
         /\ verified' \subseteq Provider \X Model
<1> DEFINE Kept == Checks' /\ ChecksVerified' /\ Tests' /\ verified \subseteq verified'
                   /\ verified' \subseteq Provider \X Model
<1>1. /\ \A p \in Provider : Row(checks[p])
      /\ verified \subseteq Provider \X Model /\ policy \in Gate!Policy /\ clock \in 0..ClockMax
  BY DEF GateTyped, Checks, Tables
<1>2. CASE UNCHANGED <<checks, test, clock, verified>>
  BY <1>1, <1>2 DEF GateTyped, Checks, Row, ChecksVerified, Tests
<1>3. ASSUME UNCHANGED <<clock, test>>, NEW q \in Provider, NEW r, checks' = [checks EXCEPT ![q] = r],
             verified' = verified, Row(r), r # None => r.status # "completed"
      PROVE  Kept
  <2>1. ASSUME NEW p \in Provider PROVE checks'[p] = IF p = q THEN r ELSE checks[p]
    BY <1>3 DEF GateTyped, Checks
  <2> QED BY <1>1, <1>3, <2>1 DEF GateTyped, Checks, Row, ChecksVerified, Tests
<1>4. ASSUME NEW p \in Provider, Gate!CheckForgotten(p) PROVE Kept
  BY <1>3, <1>4 DEF Gate!CheckForgotten, Row
<1>5. ASSUME NEW t \in Test, NEW p \in Provider, Gate!TestBlocked(t, p) PROVE Kept
  <2>1. Row(Gate!Row("blocked", policy, FALSE)) /\ Gate!Row("blocked", policy, FALSE).status = "blocked"
    BY <1>1 DEF Row, Gate!Row, Gate!Policy
  <2> QED BY <1>3, <1>5, <2>1 DEF Gate!TestBlocked
<1>6. ASSUME NEW t \in Test, Gate!BeginTest(t) PROVE Kept
  <2>1. policy \in Runnable
    BY <1>1, <1>6 DEF Gate!BeginTest, Gate!RuntimeAllowed, Runnable
  <2>2. Tests'
    BY <1>6, <2>1 DEF Gate!BeginTest, GateTyped, Tests
  <2> QED BY <1>1, <1>6, <2>2 DEF Gate!BeginTest, GateTyped, Checks, Row, ChecksVerified
<1>7. ASSUME NEW t \in Test, NEW o \in {"completed", "failed", "raised"}, Gate!TestCalled(t, o)
      PROVE  Kept
  <2>2. Tests'
    BY <1>7 DEF Gate!TestCalled, GateTyped, Tests, Gate!Idle
  <2> QED BY <1>1, <1>7, <2>2 DEF Gate!TestCalled, GateTyped, Checks, Row, ChecksVerified
<1>8. ASSUME NEW t \in Test, Gate!TestRecorded(t) PROVE Kept
  <2>1. test[t].at \in {"completed", "failed"} /\ test[t].policy \in Runnable
    BY <1>8 DEF Gate!TestRecorded, GateTyped, Tests, Gate!Idle
  <2>2. PICK p \in Runnable : p = test[t].policy
    BY <2>1
  <2>3. PICK r : r = Gate!Row(test[t].at, p, TRUE)
    OBVIOUS
  <2>4. p.provider \in Provider /\ p.model \in Model
    BY DEF Runnable, Gate!Policy
  <2>5. r.status = test[t].at /\ r.model = p.model /\ r.at = clock
    BY <2>3 DEF Gate!Row
  <2>6. /\ checks' = [checks EXCEPT ![p.provider] = r] /\ clock' = clock
        /\ verified' = IF r.status = "completed"
                       THEN verified \cup {<<p.provider, p.model>>} ELSE verified
        /\ Tests'
    BY <1>8, <2>2, <2>3, <2>5 DEF Gate!TestRecorded, GateTyped, Tests
  <2>7. Row(r)'
    BY <1>1, <2>1, <2>4, <2>5, <2>6 DEF Row
  <2>8. ASSUME NEW x \in Provider PROVE checks'[x] = IF x = p.provider THEN r ELSE checks[x]
    BY <2>4, <2>6 DEF GateTyped, Checks
  <2>9. Checks'
    BY <1>1, <2>4, <2>6, <2>7, <2>8 DEF GateTyped, Checks, Row
  <2>10. ChecksVerified'
    BY <2>4, <2>5, <2>6, <2>8 DEF ChecksVerified
  <2> QED BY <1>1, <2>4, <2>6, <2>9, <2>10
<1>9. CASE Gate!Tick
  <2>1. \A n \in 0..clock : n \in 0..clock'
    BY <1>9, <1>1 DEF Gate!Tick
  <2> QED BY <1>1, <1>9, <2>1 DEF Gate!Tick, GateTyped, Checks, Row, ChecksVerified, Tests
<1>10. ASSUME NEW c \in Chat,
              \/ Gate!Route(c) \/ Gate!Decide(c) \/ Gate!Finish(c)
              \/ \E o \in {"completed", "failed", "raised"} : Gate!Called(c, o)
       PROVE  Kept
  BY <1>2, <1>10 DEF Gate!Route, Gate!Decide, Gate!Finish, Gate!Called
<1>11. CASE \/ UNCHANGED Gate!vars \/ \E p \in PolicyChoice : Gate!UpdatePolicy(p)
            \/ \E p \in Cloud, usable \in BOOLEAN : Gate!UpdateCredential(p, usable)
  BY <1>2, <1>11 DEF Gate!vars, Gate!UpdatePolicy, Gate!UpdateCredential
<1> QED
  BY <1>4, <1>5, <1>6, <1>7, <1>8, <1>9, <1>10, <1>11 DEF Gate!Next

(* Chats: what one may call, and what it has on the record. *)
LEMMA ChatStep ==
  ASSUME Gate!ProviderAssumption, GateInv, verified \subseteq verified', [Gate!Next]_(Gate!vars)
  PROVE  Chats' /\ usages' \in [Chat -> Nat] /\ UsageSoFar' /\ Gate!GateSound'
<1> DEFINE Kept == Chats' /\ usages' \in [Chat -> Nat] /\ UsageSoFar' /\ Gate!GateSound'
<1>1. /\ chat \in [Chat -> ChatWork] /\ usages \in [Chat -> Nat] /\ policy \in Gate!Policy
      /\ ChecksVerified /\ UsageSoFar /\ Gate!ReadyMeansVerified /\ Gate!ChatAccounting
  BY DEF GateInv, GateTyped, Chats, Tables, Gate!GateSound
<1> USE <1>1 DEF Chats, ChatWork, UsageSoFar, Gate!GateSound, Gate!ReadyMeansVerified, Gate!ChatAccounting
<1>2. CASE UNCHANGED <<chat, usages>>
  BY <1>2
<1>3. ASSUME NEW c \in Chat, Gate!Route(c) PROVE Kept
  <2>1. Gate!GateReady(policy) \in BOOLEAN
    BY DEF Gate!GateReady
  <2>2. Gate!GateReady(policy) => <<policy.provider, policy.model>> \in verified
    BY DEF Gate!GateReady, ChecksVerified
  <2>3. chat' = [chat EXCEPT ![c] = [at |-> "routed", ready |-> Gate!GateReady(policy), routed |-> policy]]
        /\ usages' = usages /\ chat[c].at = "idle"
    BY <1>3 DEF Gate!Route
  <2> QED BY <2>1, <2>2, <2>3
<1>4. ASSUME NEW c \in Chat, Gate!Decide(c) PROVE Kept
  <2>1. Gate!RuntimeAllowed(policy) => policy \in Runnable
    BY DEF Gate!RuntimeAllowed, Runnable
  <2> QED BY <1>4, <2>1 DEF Gate!Decide, Gate!Idle
<1>5. ASSUME NEW c \in Chat, NEW o \in {"completed", "failed", "raised"}, Gate!Called(c, o) PROVE Kept
  <2>1. PICK a \in {"answered", "fell_back", "error"} :
          /\ chat[c].at = "calling" /\ chat' = [chat EXCEPT ![c].at = a]
          /\ usages' = [usages EXCEPT ![c] = IF a = "error" THEN @ ELSE @ + 1]
    BY <1>5 DEF Gate!Called
  <2> QED BY <2>1 DEF Gate!Idle
<1>6. ASSUME NEW c \in Chat, Gate!Finish(c) PROVE Kept
  <2>1. chat[c].at = "fell_back" => ~Gate!NoProvider(c)
    BY DEF Gate!NoProvider, Gate!ProviderAssumption, Runnable, Gate!Idle
  <2> QED BY <1>6, <2>1 DEF Gate!Finish, Gate!NoProvider, Gate!Idle, Runnable
<1>7. CASE \/ UNCHANGED Gate!vars \/ Gate!Tick \/ \E p \in PolicyChoice : Gate!UpdatePolicy(p)
           \/ \E p \in Cloud, usable \in BOOLEAN : Gate!UpdateCredential(p, usable)
           \/ \E p \in Provider : Gate!CheckForgotten(p)
           \/ \E t \in Test : Gate!BeginTest(t) \/ Gate!TestRecorded(t)
           \/ \E t \in Test, p \in Provider : Gate!TestBlocked(t, p)
           \/ \E t \in Test, o \in {"completed", "failed", "raised"} : Gate!TestCalled(t, o)
  BY <1>2, <1>7 DEF Gate!vars, Gate!Tick, Gate!UpdatePolicy, Gate!UpdateCredential, Gate!CheckForgotten,
                    Gate!BeginTest, Gate!TestRecorded, Gate!TestBlocked, Gate!TestCalled
<1> QED BY <1>3, <1>4, <1>5, <1>6, <1>7 DEF Gate!Next

LEMMA TablesStep ==
  ASSUME Gate!ProviderAssumption, Tables, [Gate!Next]_(Gate!vars),
         usages' \in [Chat -> Nat], verified' \subseteq Provider \X Model
  PROVE  Tables'
<1>1. policy' \in Gate!Policy /\ credential' \subseteq Cloud
  BY DEF Tables, Gate!ProviderAssumption, Gate!Next, Gate!UpdatePolicy, Gate!UpdateCredential,
         Gate!CheckForgotten, Gate!TestBlocked, Gate!BeginTest, Gate!TestRecorded, Gate!TestCalled,
         Gate!Route, Gate!Decide, Gate!Finish, Gate!Called, Gate!Tick, Gate!vars
<1>2. clock' = clock \/ (clock < ClockMax /\ clock' = clock + 1)
  BY DEF Gate!Next, Gate!UpdatePolicy, Gate!UpdateCredential, Gate!CheckForgotten, Gate!TestBlocked,
         Gate!BeginTest, Gate!TestRecorded, Gate!TestCalled, Gate!Route, Gate!Decide, Gate!Finish,
         Gate!Called, Gate!Tick, Gate!vars
<1>3. clock' \in 0..ClockMax
  BY <1>2 DEF Tables, Gate!ProviderAssumption
<1> QED BY <1>1, <1>3 DEF Tables

LEMMA GateInductive ==
  ASSUME Gate!ProviderAssumption
  PROVE  /\ Gate!Init => GateInv
         /\ GateInv /\ [Gate!Next]_(Gate!vars) => GateInv'
<1>1. Gate!Init => GateInv
  BY DEF Gate!Init, GateInv, GateTyped, Tables, Checks, Row, Tests, Chats, ChatWork, ChecksVerified,
         UsageSoFar, Gate!GateSound, Gate!ReadyMeansVerified, Gate!ChatAccounting, Gate!Default,
         Gate!Policy, Gate!Idle, Gate!ProviderAssumption
<1>2. GateInv /\ [Gate!Next]_(Gate!vars) => GateInv'
  BY ChecksStep, ChatStep, TablesStep DEF GateInv, GateTyped
<1> QED BY <1>1, <1>2

LEMMA GateHolds == ASSUME GateInv PROVE Gate!TypeOK /\ Gate!GateSound
<1>1. ASSUME NEW c \in Chat PROVE usages[c] \in 0..2 /\ chat[c].at \in
        {"idle", "routed", "calling", "skipped", "answered", "fell_back", "error", "done"}
  <2>1. chat[c] \in ChatWork /\ usages[c] \in Nat
    BY DEF GateInv, GateTyped, Tables, Chats
  <2>2. chat[c].at \in
        {"idle", "routed", "calling", "skipped", "answered", "fell_back", "error", "done"}
    BY <2>1 DEF ChatWork, Gate!Idle
  <2> QED BY <2>1, <2>2 DEF GateInv, UsageSoFar, Gate!GateSound, Gate!ChatAccounting
<1>2. ASSUME NEW t \in Test PROVE test[t].at \in {"idle", "calling", "completed", "failed"}
  BY DEF GateInv, GateTyped, Tests, Gate!Idle
<1>3. Gate!TypeOK
  BY <1>1, <1>2 DEF Gate!TypeOK, GateInv, GateTyped, Tables, Checks, Row
<1> QED BY <1>3 DEF GateInv

-----------------------------------------------------------------------------
(* The MQTT subscriber and the status it publishes.                        *)

(* The adapter is connected while the session is open, and an open session *)
(* has all its filters and no error left.                                  *)
MqttInv ==
  /\ Mqtt!TypeOK /\ stored = adapter.accepted
  /\ adapter.connected <=> session = "open"
  /\ adapter.client => config.host /\ ~Mqtt!TlsMissing
  /\ session = "open" => adapter.client /\ subscribed = Mqtt!Filters /\ adapter.lastError = None

LEMMA MqttStep ==
  ASSUME Mqtt!MqttAssumption, MqttInv, [Mqtt!Next]_(Mqtt!vars) PROVE MqttInv'
<1> USE DEF MqttInv, Mqtt!TypeOK, Mqtt!TlsMissing, Mqtt!MqttAssumption, Mqtt!Error
<1>0. CASE UNCHANGED Mqtt!vars
  BY <1>0 DEF Mqtt!vars
<1>1. CASE Mqtt!Start
  BY <1>1 DEF Mqtt!Start
<1>2. CASE Mqtt!Connected
  BY <1>2 DEF Mqtt!Connected
<1>3. CASE Mqtt!ConnectFails
  BY <1>3 DEF Mqtt!ConnectFails
<1>4. CASE Mqtt!Stop
  BY <1>4 DEF Mqtt!Stop
<1>5. CASE Mqtt!StopEnds
  BY <1>5 DEF Mqtt!StopEnds, Mqtt!Stopped
<1>6. CASE Mqtt!OnConnect
  BY <1>6 DEF Mqtt!OnConnect, Mqtt!OnConnected
<1>7. ASSUME NEW exception \in BOOLEAN, Mqtt!OnDisconnect(exception) PROVE MqttInv'
  BY <1>7 DEF Mqtt!OnDisconnect
<1>8. ASSUME NEW m \in Mqtt!Message, NEW outcome \in {"stored", "refused", "failed"},
             Mqtt!OnMessage(m, outcome)
      PROVE  MqttInv'
  <2>1. /\ adapter.accepted + adapter.rejected < MessageMax
        /\ UNCHANGED <<config, call, session, subscribed, devices>>
        /\ \/ UNCHANGED <<adapter, stored>>
           \/ /\ stored' = stored + 1
              /\ adapter' = [adapter EXCEPT !.accepted = @ + 1, !.ingestError = None]
           \/ /\ adapter' = [adapter EXCEPT !.rejected = @ + 1, !.ingestError = Mqtt!Rejected]
              /\ stored' = stored
    BY <1>8 DEF Mqtt!OnMessage
  <2>2. adapter.accepted + 1 \in 0..MessageMax /\ adapter.rejected + 1 \in 0..MessageMax
    <3>1. adapter.accepted \in 0..MessageMax /\ adapter.rejected \in 0..MessageMax
      OBVIOUS
    <3> QED BY <2>1, <3>1
  <2>3. CASE UNCHANGED <<adapter, stored>>
    BY <2>1, <2>3
  <2>4. CASE stored' = stored + 1 /\ adapter' = [adapter EXCEPT !.accepted = @ + 1, !.ingestError = None]
    <3>1. Mqtt!TypeOK'
      BY <2>1, <2>2, <2>4
    <3> QED BY <2>1, <2>4, <3>1
  <2>5. CASE adapter' = [adapter EXCEPT !.rejected = @ + 1, !.ingestError = Mqtt!Rejected] /\ stored' = stored
    <3>1. Mqtt!TypeOK'
      BY <2>1, <2>2, <2>5
    <3> QED BY <2>1, <2>5, <3>1
  <2> QED BY <2>1, <2>3, <2>4, <2>5
<1>9. ASSUME NEW d \in Device, Mqtt!Registered(d) PROVE MqttInv'
  BY <1>9 DEF Mqtt!Registered
<1> QED BY <1>0, <1>1, <1>2, <1>3, <1>4, <1>5, <1>6, <1>7, <1>8, <1>9 DEF Mqtt!Next

LEMMA MqttInit == ASSUME Mqtt!MqttAssumption, Mqtt!Init PROVE MqttInv
BY DEF Mqtt!Init, MqttInv, Mqtt!TypeOK, Mqtt!Error, Mqtt!Filters, Mqtt!MqttAssumption

LEMMA MqttHolds == ASSUME MqttInv PROVE Mqtt!TypeOK /\ Mqtt!BrokerStatusTrue
BY DEF MqttInv, Mqtt!TypeOK, Mqtt!BrokerStatusTrue, Mqtt!Status, Mqtt!RuntimeReady, Mqtt!FieldReady,
       Mqtt!TlsMissing

-----------------------------------------------------------------------------
(* One active scan: its probes, its result and its receipts.               *)

DrainStages == {"draining error", "draining timeout", "draining cancel"}
RunStages == {"scanning"} \cup DrainStages
ScanRequest ==
  [at : {"new"}, status : {"none"}]
  \cup [at : {"authorized"} \cup RunStages, scope : Network, status : {"none"}]
  \cup [at : {"store"}, scope : Network, status : {"completed", "partial_timeout"}]
  \cup [at : {"failed"}, scope : Network, status : {"bad_request", "unavailable", "cancelled"}]
  \cup [at : {"answered"}, scope : Network,
        status : {"completed", "partial_timeout", "bad_request", "unavailable", "forbidden",
                  "cancelled", "error"}]
TaskState == {"waiting", "probing", "cancelling", "open", "closed", "raised", "cancelled"}

(* The tasks of a request are those of its range, and what state they have *)
(* follows from how far the request is.                                    *)
Admitted == Scan!ScopeError(request.scope) = "none" /\ Scan!HostsAdmitted(request.scope)
ScanTyped ==
  /\ request \in ScanRequest /\ task \in [DOMAIN task -> TaskState]
  /\ \A t \in DOMAIN task : task[t] = "open" => t \in open
TaskScope ==
  /\ request.at \in {"authorized", "failed"} => Scan!ScopeError(request.scope) = "none"
  /\ request.at \in RunStages \cup {"store"} => Admitted /\ DOMAIN task = Scan!Checks(request.scope)
  /\ DOMAIN task # {} =>
       request.at \notin {"new", "authorized"} /\ Admitted /\ DOMAIN task = Scan!Checks(request.scope)
TaskStates ==
  /\ request.at = "scanning" => \A t \in DOMAIN task : task[t] \in {"waiting", "probing", "open", "closed"}
  /\ request.at \in DrainStages => \A t \in DOMAIN task : task[t] \notin {"waiting", "probing"}
  /\ request.at \notin RunStages =>
       \A t \in DOMAIN task : task[t] \in {"open", "closed", "raised", "cancelled"}
  /\ request.at \in {"store", "answered"} /\ request.status = "completed" =>
       /\ DOMAIN task = Scan!Checks(request.scope)
       /\ \A t \in DOMAIN task : task[t] \in {"open", "closed"}

LEMMA Arrivals ==
  ASSUME NEW s \in Network, Scan!Refuse(s) \/ Scan!Authorize(s)
  PROVE  /\ request.at = "new" /\ task' = task /\ open' = open /\ request' \in ScanRequest
         /\ request'.at \in {"authorized", "answered"} /\ request'.status # "completed"
         /\ request'.at = "authorized" => Scan!ScopeError(request'.scope) = "none"
<1>1. CASE Scan!Refuse(s)
  BY <1>1 DEF Scan!Refuse, Scan!ScopeError, ScanRequest
<1>2. CASE Scan!Authorize(s)
  <2>1. PICK r \in {[at |-> "authorized", scope |-> s, status |-> "none"],
                    [at |-> "answered", scope |-> s, status |-> "error"]} :
          /\ request.at = "new" /\ task' = task /\ open' = open /\ request' = r
          /\ Scan!ScopeError(s) = "none" /\ r.scope = s
    BY <1>2 DEF Scan!Authorize
  <2> QED BY <2>1 DEF ScanRequest
<1> QED BY <1>1, <1>2

LEMMA Beginning ==
  ASSUME ScanTyped, Scan!BeginScan
  PROVE  /\ request.at = "authorized" /\ open' = open
         /\ request'.scope = request.scope /\ request' \in ScanRequest
         /\ \/ /\ Scan!HostsAdmitted(request.scope) /\ request'.at = "scanning"
               /\ task' = [t \in Scan!Checks(request.scope) |-> "waiting"]
            \/ task' = task /\ request'.at = "failed"
<1>1. request \in [at : {"authorized"}, scope : Network, status : {"none"}]
  BY DEF ScanTyped, ScanRequest, RunStages, DrainStages, Scan!BeginScan
<1>2. CASE Scan!HostsAdmitted(request.scope)
  BY <1>1, <1>2 DEF Scan!BeginScan, Scan!Stage, ScanRequest, RunStages
<1>3. CASE ~Scan!HostsAdmitted(request.scope)
  BY <1>1, <1>3 DEF Scan!BeginScan, ScanRequest
<1> QED BY <1>2, <1>3

LEMMA ScanTypedStep == ASSUME ScanTyped, [Scan!Next]_(Scan!vars) PROVE ScanTyped'
<1> USE DEF ScanTyped, ScanRequest, RunStages, DrainStages, TaskState
<1>0. CASE UNCHANGED Scan!vars
  BY <1>0 DEF Scan!vars
<1>1. ASSUME NEW s \in Network, Scan!Refuse(s) PROVE ScanTyped'
  BY <1>1, Arrivals
<1>2. ASSUME NEW s \in Network, Scan!Authorize(s) PROVE ScanTyped'
  BY <1>2, Arrivals
<1>3. ASSUME Scan!BeginScan PROVE ScanTyped'
  <2>1. CASE task' = [t \in Scan!Checks(request.scope) |-> "waiting"]
    <3>1. PICK D : D = Scan!Checks(request.scope)
      OBVIOUS
    <3>2. task' = [t \in D |-> "waiting"] /\ request' \in ScanRequest
      BY <1>3, <2>1, <3>1, Beginning
    <3> QED BY ONLY <3>2 DEF ScanTyped, TaskState
  <2>2. CASE task' = task
    BY <1>3, <2>2, Beginning
  <2> QED BY <1>3, <2>1, <2>2, Beginning
<1>4. ASSUME NEW t \in DOMAIN task, Scan!Enter(t) PROVE ScanTyped'
  BY <1>4 DEF Scan!Enter
<1>5. ASSUME NEW t \in DOMAIN task, Scan!Connect(t) PROVE ScanTyped'
  BY <1>5 DEF Scan!Connect
<1>6. ASSUME NEW t \in DOMAIN task, Scan!ConnectError(t) PROVE ScanTyped'
  BY <1>6 DEF Scan!ConnectError, Scan!CancelRest, Scan!Stage
<1>7. ASSUME Scan!Deadline PROVE ScanTyped'
  BY <1>7 DEF Scan!Deadline, Scan!CancelRest, Scan!Stage
<1>8. ASSUME Scan!CancelRequest PROVE ScanTyped'
  BY <1>8 DEF Scan!CancelRequest, Scan!CancelRest, Scan!Stage
<1>9. ASSUME NEW t \in DOMAIN task, Scan!Drain(t) PROVE ScanTyped'
  BY <1>9 DEF Scan!Drain
<1>10. ASSUME Scan!EndScan PROVE ScanTyped'
  BY <1>10 DEF Scan!EndScan, Scan!Draining, Scan!Drained, Scan!Unfinished
<1>11. ASSUME Scan!StoreResult PROVE ScanTyped'
  BY <1>11 DEF Scan!StoreResult, Scan!Stage
<1>12. ASSUME Scan!FailReceipt PROVE ScanTyped'
  BY <1>12 DEF Scan!FailReceipt, Scan!Stage
<1>13. ASSUME Scan!NextRequest PROVE ScanTyped'
  BY <1>13 DEF Scan!NextRequest, Scan!NoTask
<1> QED
  BY <1>0, <1>1, <1>2, <1>3, <1>4, <1>5, <1>6, <1>7, <1>8, <1>9, <1>10, <1>11, <1>12, <1>13
  DEF Scan!Next

LEMMA TaskScopeStep ==
  ASSUME ScanTyped, TaskScope, [Scan!Next]_(Scan!vars) PROVE TaskScope'
<1> USE DEF ScanTyped, ScanRequest, TaskScope, RunStages, DrainStages, Admitted
<1>0. CASE UNCHANGED Scan!vars
  BY <1>0 DEF Scan!vars
<1>1. ASSUME NEW s \in Network, Scan!Refuse(s) PROVE TaskScope'
  BY <1>1, Arrivals
<1>2. ASSUME NEW s \in Network, Scan!Authorize(s) PROVE TaskScope'
  BY <1>2, Arrivals
<1>3. ASSUME Scan!BeginScan PROVE TaskScope'
  BY <1>3, Beginning
<1>4. ASSUME NEW t \in DOMAIN task, Scan!Enter(t) PROVE TaskScope'
  BY <1>4 DEF Scan!Enter
<1>5. ASSUME NEW t \in DOMAIN task, Scan!Connect(t) PROVE TaskScope'
  BY <1>5 DEF Scan!Connect
<1>6. ASSUME NEW t \in DOMAIN task, Scan!ConnectError(t) PROVE TaskScope'
  BY <1>6 DEF Scan!ConnectError, Scan!CancelRest, Scan!Stage
<1>7. ASSUME Scan!Deadline PROVE TaskScope'
  BY <1>7 DEF Scan!Deadline, Scan!CancelRest, Scan!Stage
<1>8. ASSUME Scan!CancelRequest PROVE TaskScope'
  BY <1>8 DEF Scan!CancelRequest, Scan!CancelRest, Scan!Stage
<1>9. ASSUME NEW t \in DOMAIN task, Scan!Drain(t) PROVE TaskScope'
  BY <1>9 DEF Scan!Drain
<1>10. ASSUME Scan!EndScan PROVE TaskScope'
  BY <1>10 DEF Scan!EndScan, Scan!Draining, Scan!Drained, Scan!Unfinished
<1>11. ASSUME Scan!StoreResult PROVE TaskScope'
  BY <1>11 DEF Scan!StoreResult, Scan!Stage
<1>12. ASSUME Scan!FailReceipt PROVE TaskScope'
  BY <1>12 DEF Scan!FailReceipt, Scan!Stage
<1>13. ASSUME Scan!NextRequest PROVE TaskScope'
  BY <1>13 DEF Scan!NextRequest, Scan!NoTask
<1> QED
  BY <1>0, <1>1, <1>2, <1>3, <1>4, <1>5, <1>6, <1>7, <1>8, <1>9, <1>10, <1>11, <1>12, <1>13
  DEF Scan!Next

LEMMA TaskStatesStep ==
  ASSUME ScanTyped, TaskScope, TaskStates, [Scan!Next]_(Scan!vars) PROVE TaskStates'
<1> USE DEF ScanTyped, ScanRequest, TaskScope, TaskStates, TaskState, RunStages, DrainStages
<1>0. CASE UNCHANGED Scan!vars
  BY <1>0 DEF Scan!vars
<1>1. ASSUME NEW s \in Network, Scan!Refuse(s) PROVE TaskStates'
  BY <1>1, Arrivals
<1>2. ASSUME NEW s \in Network, Scan!Authorize(s) PROVE TaskStates'
  BY <1>2, Arrivals
<1>3. ASSUME Scan!BeginScan PROVE TaskStates'
  BY <1>3, Beginning
<1>4. ASSUME NEW t \in DOMAIN task, Scan!Enter(t) PROVE TaskStates'
  BY <1>4 DEF Scan!Enter
<1>5. ASSUME NEW t \in DOMAIN task, Scan!Connect(t) PROVE TaskStates'
  BY <1>5 DEF Scan!Connect
<1>6. ASSUME NEW t \in DOMAIN task, Scan!ConnectError(t) PROVE TaskStates'
  BY <1>6 DEF Scan!ConnectError, Scan!CancelRest, Scan!Stage
<1>7. ASSUME Scan!Deadline PROVE TaskStates'
  BY <1>7 DEF Scan!Deadline, Scan!CancelRest, Scan!Stage
<1>8. ASSUME Scan!CancelRequest PROVE TaskStates'
  BY <1>8 DEF Scan!CancelRequest, Scan!CancelRest, Scan!Stage
<1>9. ASSUME NEW t \in DOMAIN task, Scan!Drain(t) PROVE TaskStates'
  BY <1>9 DEF Scan!Drain
<1>10. ASSUME Scan!EndScan PROVE TaskStates'
  BY <1>10 DEF Scan!EndScan, Scan!Draining, Scan!Drained, Scan!Unfinished, Scan!In
<1>11. ASSUME Scan!StoreResult PROVE TaskStates'
  BY <1>11 DEF Scan!StoreResult, Scan!Stage, Scan!In
<1>12. ASSUME Scan!FailReceipt PROVE TaskStates'
  BY <1>12 DEF Scan!FailReceipt, Scan!Stage
<1>13. ASSUME Scan!NextRequest PROVE TaskStates'
  BY <1>13 DEF Scan!NextRequest, Scan!NoTask
<1> QED
  BY <1>0, <1>1, <1>2, <1>3, <1>4, <1>5, <1>6, <1>7, <1>8, <1>9, <1>10, <1>11, <1>12, <1>13
  DEF Scan!Next

(* The receipts of a request follow its stages. *)
Underway == {"authorized", "store", "failed"} \cup RunStages
NoReceipt == <<>>
Begun == <<"authorized">>
Completed == <<"authorized", "completed">>
Failed == <<"authorized", "failed">>
Trail ==
  /\ receipts \in {NoReceipt, Begun, Completed, Failed}
  /\ lost \in BOOLEAN
  /\ \A t \in queued : t \in DOMAIN task /\ task[t] = "open"
  /\ request.at = "new" => receipts = NoReceipt /\ queued = {} /\ ~lost
  /\ request.at \in Underway => receipts = Begun /\ queued = {} /\ ~lost
  /\ request.at = "answered" /\ ~lost =>
       \/ receipts = NoReceipt /\ queued = {} /\ Scan!ScopeError(request.scope) # "none"
       \/ receipts = Completed /\ Scan!ScopeError(request.scope) = "none"
       \/ receipts = Failed /\ queued = {} /\ Scan!ScopeError(request.scope) = "none"
  /\ DOMAIN task # {} => receipts # NoReceipt

LEMMA ReceiptsAppend ==
  /\ Append(NoReceipt, "authorized") = Begun /\ Append(Begun, "completed") = Completed
  /\ Append(Begun, "failed") = Failed
  /\ Begun # NoReceipt /\ Completed # NoReceipt /\ Failed # NoReceipt
<1>1. Append(NoReceipt, "authorized") = Begun
  BY DEF NoReceipt, Begun
<1>2. Append(Begun, "completed") = Completed /\ Append(Begun, "failed") = Failed
  <2>1. PICK Kind : "authorized" \in Kind /\ "completed" \in Kind /\ "failed" \in Kind
    <3> WITNESS {"authorized", "completed", "failed"}
    <3> QED OBVIOUS
  <2>2. /\ Append(<<"authorized">>, "completed") = <<"authorized", "completed">>
        /\ Append(<<"authorized">>, "failed") = <<"authorized", "failed">>
    BY <2>1, AppendPair, Zenon
  <2> QED BY <2>2, Zenon DEF Begun, Completed, Failed
<1>3. Begun # NoReceipt /\ Completed # NoReceipt /\ Failed # NoReceipt
  BY DEF NoReceipt, Begun, Completed, Failed
<1> QED BY <1>1, <1>2, <1>3

LEMMA TrailStep ==
  ASSUME ScanTyped, TaskScope, Trail, [Scan!Next]_(Scan!vars) PROVE Trail'
<1> USE DEF ScanTyped, ScanRequest, TaskScope, Trail, RunStages, DrainStages, Underway, Admitted
<1>0. CASE UNCHANGED Scan!vars
  BY <1>0 DEF Scan!vars
<1>1. ASSUME NEW s \in Network, Scan!Refuse(s) PROVE Trail'
  BY <1>1 DEF Scan!Refuse
<1>2. ASSUME NEW s \in Network, Scan!Authorize(s) PROVE Trail'
  <2>1. receipts = NoReceipt /\ queued' = {} /\ ~lost /\ task' = task /\ DOMAIN task = {}
    BY <1>2 DEF Scan!Authorize
  <2>2. \/ /\ receipts' = Append(receipts, "authorized") /\ lost' = lost
           /\ request' = [at |-> "authorized", scope |-> s, status |-> "none"]
        \/ /\ receipts' = receipts /\ lost' = TRUE
           /\ request' = [at |-> "answered", scope |-> s, status |-> "error"]
    BY <1>2 DEF Scan!Authorize, Scan!Receipt
  <2>3. CASE receipts' = Begun /\ lost' = lost
             /\ request' = [at |-> "authorized", scope |-> s, status |-> "none"]
    BY <2>1, <2>3, ReceiptsAppend
  <2>4. CASE receipts' = receipts /\ lost' = TRUE
             /\ request' = [at |-> "answered", scope |-> s, status |-> "error"]
    BY <2>1, <2>4
  <2> QED BY <2>1, <2>2, <2>3, <2>4, ReceiptsAppend
<1>3. ASSUME Scan!BeginScan PROVE Trail'
  <2>1. request'.at \in {"scanning", "failed"} /\ receipts = Begun /\ queued = {} /\ ~lost
    BY <1>3, Beginning
  <2>2. UNCHANGED <<receipts, queued, lost>>
    BY <1>3 DEF Scan!BeginScan
  <2> HIDE DEF ScanTyped, ScanRequest, TaskScope, Admitted
  <2> QED BY <2>1, <2>2, ReceiptsAppend
<1>4. ASSUME NEW t \in DOMAIN task, Scan!Enter(t) PROVE Trail'
  BY <1>4 DEF Scan!Enter
<1>5. ASSUME NEW t \in DOMAIN task, Scan!Connect(t) PROVE Trail'
  BY <1>5 DEF Scan!Connect
<1>6. ASSUME NEW t \in DOMAIN task, Scan!ConnectError(t) PROVE Trail'
  BY <1>6 DEF Scan!ConnectError, Scan!CancelRest, Scan!Stage
<1>7. ASSUME Scan!Deadline PROVE Trail'
  BY <1>7 DEF Scan!Deadline, Scan!CancelRest, Scan!Stage
<1>8. ASSUME Scan!CancelRequest PROVE Trail'
  BY <1>8 DEF Scan!CancelRequest, Scan!CancelRest, Scan!Stage
<1>9. ASSUME NEW t \in DOMAIN task, Scan!Drain(t) PROVE Trail'
  BY <1>9 DEF Scan!Drain
<1>10. ASSUME Scan!EndScan PROVE Trail'
  BY <1>10 DEF Scan!EndScan, Scan!Draining, Scan!Drained, Scan!Unfinished, Scan!In
<1>11. ASSUME Scan!StoreResult PROVE Trail'
  <2>1. receipts = Begun /\ queued = {} /\ ~lost /\ Scan!ScopeError(request.scope) = "none"
    BY <1>11 DEF Scan!StoreResult
  <2>2. task' = task /\ lost' = lost /\ request'.scope = request.scope
    BY <1>11 DEF Scan!StoreResult, Scan!Stage
  <2>3. CASE receipts' = receipts /\ queued' = queued /\ request'.at = "failed"
    BY <2>1, <2>2, <2>3, ReceiptsAppend
  <2>4. CASE receipts' = Append(receipts, "completed") /\ queued' = Scan!In({"open"}) /\ request'.at = "answered"
    BY <2>1, <2>2, <2>4, ReceiptsAppend DEF Scan!In
  <2> QED BY <1>11, <2>3, <2>4 DEF Scan!StoreResult, Scan!Receipt, Scan!Stage
<1>12. ASSUME Scan!FailReceipt PROVE Trail'
  <2>1. receipts = Begun /\ queued = {} /\ ~lost /\ Scan!ScopeError(request.scope) = "none"
    BY <1>12 DEF Scan!FailReceipt
  <2>2. task' = task /\ queued' = queued /\ request'.scope = request.scope /\ request'.at = "answered"
    BY <1>12 DEF Scan!FailReceipt, Scan!Stage
  <2>3. CASE receipts' = Append(receipts, "failed") /\ lost' = lost
    BY <2>1, <2>2, <2>3, ReceiptsAppend
  <2>4. CASE receipts' = receipts /\ lost' = TRUE
    BY <2>1, <2>2, <2>4, ReceiptsAppend
  <2> QED BY <1>12, <2>3, <2>4 DEF Scan!FailReceipt, Scan!Receipt
<1>13. ASSUME Scan!NextRequest PROVE Trail'
  BY <1>13, ReceiptsAppend DEF Scan!NextRequest, Scan!NoTask, NoReceipt
<1> QED
  BY <1>0, <1>1, <1>2, <1>3, <1>4, <1>5, <1>6, <1>7, <1>8, <1>9, <1>10, <1>11, <1>12, <1>13
  DEF Scan!Next

(* The semaphore bounds the connection attempts under way. *)
Probing == {t \in DOMAIN task : task[t] = "probing"}
ProbeBound == IsFiniteSet(Probing) /\ Cardinality(Probing) <= Concurrency

LEMMA ScanCardinality == ASSUME NEW S PROVE Scan!Cardinality(S) = Cardinality(S)
BY DEF Scan!Cardinality, Cardinality

LEMMA ProbeStep ==
  ASSUME Scan!NetworkAssumption, ScanTyped, ProbeBound, [Scan!Next]_(Scan!vars) PROVE ProbeBound'
<1>1. ASSUME Probing' \subseteq Probing PROVE ProbeBound'
  <2>1. Cardinality(Probing) \in Nat /\ Cardinality(Probing') \in Nat
        /\ Cardinality(Probing') <= Cardinality(Probing) /\ IsFiniteSet(Probing')
    BY <1>1, FS_Subset, FS_CardinalityType DEF ProbeBound
  <2> QED BY <2>1 DEF ProbeBound, Scan!NetworkAssumption
<1>2. ASSUME NEW t \in DOMAIN task, Scan!Enter(t) PROVE ProbeBound'
  <2>1. Scan!In({"probing"}) = Probing
    BY DEF Scan!In, Probing
  <2>2. Cardinality(Probing) < Concurrency /\ t \notin Probing
    BY <1>2, <2>1, ScanCardinality DEF Scan!Enter, Probing
  <2>3. Probing' = Probing \cup {t}
    BY <1>2 DEF Scan!Enter, Probing, ScanTyped
  <2>4. Cardinality(Probing) \in Nat /\ IsFiniteSet(Probing')
        /\ Cardinality(Probing') = Cardinality(Probing) + 1
    BY <2>2, <2>3, FS_AddElement, FS_CardinalityType DEF ProbeBound
  <2> QED BY <2>2, <2>4 DEF ProbeBound, Scan!NetworkAssumption
<1>3. ASSUME NEW t \in DOMAIN task, Scan!Connect(t) \/ Scan!ConnectError(t) \/ Scan!Drain(t)
      PROVE  ProbeBound'
  BY <1>1, <1>3 DEF Scan!Connect, Scan!ConnectError, Scan!Drain, Scan!CancelRest, Probing, ScanTyped
<1>4. CASE Scan!BeginScan \/ Scan!NextRequest
  BY <1>1, <1>4 DEF Scan!BeginScan, Scan!NextRequest, Scan!NoTask, Probing
<1>5. CASE Scan!Deadline \/ Scan!CancelRequest
  BY <1>1, <1>5 DEF Scan!Deadline, Scan!CancelRequest, Scan!CancelRest, Probing
<1>6. ASSUME UNCHANGED task PROVE ProbeBound'
  BY <1>1, <1>6 DEF Probing
<1>7. CASE \/ UNCHANGED Scan!vars \/ \E s \in Network : Scan!Refuse(s) \/ Scan!Authorize(s)
           \/ Scan!EndScan \/ Scan!StoreResult \/ Scan!FailReceipt
  BY <1>6, <1>7 DEF Scan!vars, Scan!Refuse, Scan!Authorize, Scan!EndScan, Scan!StoreResult, Scan!FailReceipt
<1> QED BY <1>2, <1>3, <1>4, <1>5, <1>7 DEF Scan!Next

ScanInv == ScanTyped /\ TaskScope /\ TaskStates /\ Trail /\ ProbeBound

(* What the parts of the invariant say together. *)
LEMMA ScanInvSound == ASSUME Scan!NetworkAssumption, ScanInv PROVE Scan!ScanSound
<1> USE DEF ScanInv
<1>1. Scan!NoStrayProbe
  <2>1. Scan!In({"probing"}) = Probing
    BY DEF Scan!In, Probing
  <2>2. Scan!Cardinality(Scan!In({"probing"})) <= Concurrency
    BY <2>1, ScanCardinality DEF ProbeBound
  <2>3. request.at # "scanning" /\ ~Scan!Draining => Scan!Unfinished = {}
    BY DEF TaskStates, RunStages, DrainStages, Scan!Draining, Scan!Unfinished, Scan!In
  <2> QED BY <2>2, <2>3 DEF Scan!NoStrayProbe
<1>2. Scan!ResultIsTrue
  BY DEF TaskStates, Trail, Scan!ResultIsTrue, Scan!In
<1>3. Scan!ReceiptsTellOutcome
  <2>1. Begun # NoReceipt /\ Completed # NoReceipt /\ Failed # NoReceipt /\ Completed[2] = "completed"
    BY ReceiptsAppend DEF Completed
  <2>2. CASE request.at = "answered" /\ ~lost
    BY <2>1, <2>2 DEF Trail, Scan!ReceiptsTellOutcome, NoReceipt, Completed, Failed
  <2> QED BY <2>2 DEF Scan!ReceiptsTellOutcome
<1>4. Scan!ScopeKept
  <2> SUFFICES ASSUME DOMAIN task # {}
               PROVE  /\ request.scope.valid /\ request.scope.v4 /\ request.scope.allowed
                      /\ request.scope.private
                      /\ Scan!Cardinality(Scan!Hosts(request.scope)) \in 1..MaxHosts
                      /\ "authorized" = receipts[1]
    BY DEF Scan!ScopeKept
  <2>1. PICK s \in Network : s = request.scope
    BY DEF TaskScope, ScanTyped, ScanRequest
  <2>2. Scan!ScopeError(s) = "none" /\ Scan!HostsAdmitted(s) /\ DOMAIN task = Scan!Checks(s)
    BY <2>1 DEF TaskScope, Admitted
  <2>3. s.valid /\ s.v4 /\ s.allowed
    BY <2>2 DEF Scan!ScopeError, Scan!NetworkAssumption
  <2>4. PICK n : n = Scan!Usable(s)
    OBVIOUS
  <2>5. s.private /\ n \in Int /\ n <= MaxHosts /\ Scan!Hosts(s) = 1..n
    BY <2>2, <2>4 DEF Scan!HostsAdmitted, Scan!Hosts, Scan!Usable, Scan!NetworkAssumption
  <2>6. 1 <= n
    BY <2>2, <2>5 DEF Scan!Checks
  <2>7. Scan!Cardinality(Scan!Hosts(s)) = n
    BY <2>5, <2>6, FS_Interval, ScanCardinality
  <2>8. receipts[1] = "authorized"
    BY DEF Trail, Begun, Completed, Failed, NoReceipt
  <2> QED BY <2>1, <2>3, <2>5, <2>6, <2>7, <2>8 DEF Scan!NetworkAssumption
<1> QED BY <1>1, <1>2, <1>3, <1>4 DEF Scan!ScanSound

LEMMA ScanInductive ==
  ASSUME Scan!NetworkAssumption
  PROVE  /\ Scan!Init => ScanInv
         /\ ScanInv /\ [Scan!Next]_(Scan!vars) => ScanInv'
<1>1. Scan!Init => ScanInv
  <2> SUFFICES ASSUME Scan!Init PROVE ScanInv
    OBVIOUS
  <2>1. ScanTyped /\ TaskScope /\ TaskStates
    BY DEF Scan!Init, Scan!NoTask, ScanTyped, TaskScope, TaskStates, ScanRequest, RunStages, DrainStages
  <2>2. Trail
    BY DEF Scan!Init, Scan!NoTask, Trail, NoReceipt, Underway, RunStages, DrainStages
  <2>3. Probing = {}
    BY DEF Scan!Init, Scan!NoTask, Probing
  <2>4. ProbeBound
    BY <2>3, FS_EmptySet DEF ProbeBound, Scan!NetworkAssumption
  <2> QED BY <2>1, <2>2, <2>4 DEF ScanInv
<1>2. ScanInv /\ [Scan!Next]_(Scan!vars) => ScanInv'
  BY ScanTypedStep, TaskScopeStep, TaskStatesStep, TrailStep, ProbeStep DEF ScanInv
<1> QED BY <1>1, <1>2

LEMMA ScanHolds == ASSUME Scan!NetworkAssumption, ScanInv PROVE Scan!TypeOK /\ Scan!ScanSound
<1>1. receipts \in Seq({"authorized", "completed", "failed"})
  <2>1. PICK R : R = {"authorized", "completed", "failed"}
    OBVIOUS
  <2>2. NoReceipt \in Seq(R) /\ Begun \in Seq(R) /\ Completed \in Seq(R) /\ Failed \in Seq(R)
    <3>1. "authorized" \in R /\ "completed" \in R /\ "failed" \in R
      BY <2>1
    <3> QED BY <3>1 DEF NoReceipt, Begun, Completed, Failed
  <2> QED BY <2>1, <2>2 DEF ScanInv, Trail
<1>2. request.at \in {"new", "authorized", "store", "failed", "answered"} \cup RunStages
  BY DEF ScanInv, ScanTyped, ScanRequest
<1>3. queued \subseteq open /\ lost \in BOOLEAN /\ \A t \in DOMAIN task : task[t] \in TaskState
  BY DEF ScanInv, ScanTyped, Trail
<1>4. Scan!TypeOK
  BY <1>1, <1>2, <1>3 DEF Scan!TypeOK, RunStages, DrainStages, TaskState
<1> QED BY <1>4, ScanInvSound

-----------------------------------------------------------------------------
(* The limiter of failed authentication.                                   *)

LEMMA LimiterSets ==
  /\ \A S : Limiter!Cardinality(S) = Cardinality(S)
  /\ \A S : Limiter!IsFiniteSet(S) = IsFiniteSet(S)
BY DEF Limiter!Cardinality, Cardinality, Limiter!IsFiniteSet, IsFiniteSet

(* The entries of a list of failures that are younger than n. *)
Below(f, n) == {i \in DOMAIN f : f[i] < n}

(* A list of finitely many ages has room for another one. *)
LEMMA EntryFresh ==
  ASSUME NEW f, IsFiniteSet(DOMAIN f)
  PROVE  Limiter!Entry(f) \in 1..(Cardinality(DOMAIN f) + 1) \ DOMAIN f
<1> DEFINE n == Cardinality(DOMAIN f)
<1>1. n \in Nat
  BY FS_CardinalityType
<1>2. IsFiniteSet(1..(n + 1)) /\ Cardinality(1..(n + 1)) = n + 1
  BY <1>1, FS_Interval
<1>3. ~(1..(n + 1) \subseteq DOMAIN f)
  BY <1>1, <1>2, FS_Subset
<1> QED BY <1>3, LimiterSets DEF Limiter!Entry

(* An added age is counted once, by every bound above it. *)
LEMMA AddedBelow ==
  ASSUME NEW f, IsFiniteSet(DOMAIN f), f \in [DOMAIN f -> Int], NEW age \in Int, NEW n \in Int, age < n
  PROVE  Cardinality(Below(Limiter!Added(f, age), n)) = Cardinality(Below(f, n)) + 1
<1>1. Below(Limiter!Added(f, age), n) = Below(f, n) \cup {Limiter!Entry(f)}
  BY EntryFresh DEF Below, Limiter!Added
<1>2. IsFiniteSet(Below(f, n)) /\ Limiter!Entry(f) \notin Below(f, n)
  BY EntryFresh, FS_Subset DEF Below
<1> QED BY <1>1, <1>2, FS_AddElement

(* What a transaction keeps, it keeps below the window.                    *)
LEMMA KeptBelow ==
  ASSUME NEW f, f \in [DOMAIN f -> Int], NEW age \in Int, NEW n \in Int, n <= age
  PROVE  Below(Limiter!Kept(f, age), n) = Below(f, n)
BY DEF Below, Limiter!Kept, Limiter!Upto

Slots(k) == IF k \in PasswordKey THEN Limiter!Limit(k) ELSE Limiter!Limit(k) + 1

(* A list of ages that fits into the bucket of k. *)
ListOf(k, f) == f \in [DOMAIN f -> Limiter!Age] /\ DOMAIN f \subseteq 1..Slots(k)

LEMMA ListFinite ==
  ASSUME Limiter!LimitAssumption, NEW k, NEW f, ListOf(k, f)
  PROVE  /\ IsFiniteSet(DOMAIN f) /\ Cardinality(DOMAIN f) \in 0..Slots(k)
         /\ f \in [DOMAIN f -> Int]
<1>1. Slots(k) \in Nat
  BY DEF Slots, Limiter!Limit, Limiter!LimitAssumption
<1>2. IsFiniteSet(1..Slots(k)) /\ Cardinality(1..Slots(k)) = Slots(k)
  BY <1>1, FS_Interval
<1>3. IsFiniteSet(DOMAIN f) /\ Cardinality(DOMAIN f) <= Slots(k)
  BY <1>2, FS_Subset DEF ListOf
<1>4. Cardinality(DOMAIN f) \in Nat
  BY <1>3, FS_CardinalityType
<1> QED BY <1>1, <1>3, <1>4
    DEF ListOf, Limiter!Age, Limiter!Old, Limiter!Retention, Limiter!LimitAssumption

LEMMA AddedFits ==
  ASSUME Limiter!LimitAssumption, NEW k, NEW f, ListOf(k, f), Cardinality(DOMAIN f) < Slots(k),
         NEW age \in Limiter!Age
  PROVE  ListOf(k, Limiter!Added(f, age))
<1>1. Limiter!Entry(f) \in 1..(Cardinality(DOMAIN f) + 1) /\ Cardinality(DOMAIN f) \in 0..Slots(k)
  BY ListFinite, EntryFresh
<1>2. Slots(k) \in Nat
  BY DEF Slots, Limiter!Limit, Limiter!LimitAssumption
<1>3. Limiter!Entry(f) \in 1..Slots(k)
  BY <1>1, <1>2
<1> QED BY <1>3 DEF ListOf, Limiter!Added

LEMMA KeptFits ==
  ASSUME NEW k, NEW f, ListOf(k, f), NEW age PROVE ListOf(k, Limiter!Kept(f, age))
BY DEF ListOf, Limiter!Kept, Limiter!Upto

(* A table of buckets is well formed. *)
Table(t) ==
  /\ DOMAIN t \subseteq Limiter!Key
  /\ \A k \in DOMAIN t : ListOf(k, t[k].stamps) /\ t[k].updated \in Limiter!Age

LEMMA StampsFit ==
  ASSUME NEW t, Table(t), NEW k PROVE ListOf(k, Limiter!Stamps(t, k))
BY DEF Table, Limiter!Stamps, ListOf, Limiter!NoFailures

LEMMA RecordedFits ==
  ASSUME NEW t, Table(t), NEW k \in Limiter!Key, NEW f, ListOf(k, f), NEW a \in Limiter!Age
  PROVE  Table(Limiter!Recorded(t, k, f, a))
BY DEF Table, Limiter!Recorded

LEMMA PrunedFits ==
  ASSUME Table(bucket), NEW a PROVE Table(Limiter!Pruned(a)) /\ DOMAIN Limiter!Pruned(a) \subseteq DOMAIN bucket
BY DEF Table, Limiter!Pruned, Limiter!Expired, Limiter!Keys

(* What is below a bound among the failures of a list is finite. *)
LEMMA BelowFinite ==
  ASSUME NEW f, IsFiniteSet(DOMAIN f), NEW n
  PROVE  /\ IsFiniteSet(Below(f, n)) /\ Cardinality(Below(f, n)) \in Nat
         /\ Cardinality(Below(f, n)) <= Cardinality(DOMAIN f)
BY FS_Subset, FS_CardinalityType DEF Below

(* Every failure of a password that is guarded is in its bucket, with a    *)
(* stamp that is at most LockWait older; none of them outlives the bucket. *)
Accounted(k) ==
  /\ \A n \in 1..Limiter!Guarded :
       Cardinality(Below(failed[k], n)) <= Cardinality(Below(Limiter!Stamps(bucket, k), n + LockWait))
  /\ \A i \in DOMAIN failed[k] : k \in DOMAIN bucket /\ bucket[k].updated <= failed[k][i] + LockWait

LimiterInv ==
  /\ Limiter!TypeOK
  /\ IsFiniteSet(DOMAIN bucket) /\ Cardinality(DOMAIN bucket) <= KeyMax
  /\ \A k \in PasswordKey : Accounted(k)

LEMMA TypeIsTable ==
  Limiter!TypeOK <=>
    /\ Table(bucket)
    /\ request \in [Worker -> {Limiter!Idle} \cup [key : Limiter!Key, right : BOOLEAN, age : 0..LockWait]]
    /\ DOMAIN failed = PasswordKey
    /\ \A k \in PasswordKey :
         /\ failed[k] \in [DOMAIN failed[k] -> 0..(Limiter!Guarded - 1)]
         /\ DOMAIN failed[k] \subseteq Nat /\ IsFiniteSet(DOMAIN failed[k])
BY LimiterSets DEF Limiter!TypeOK, Table, ListOf, Slots, Limiter!Keys

LEMMA TypeNext ==
  ASSUME Table(bucket'), DOMAIN failed' = PasswordKey,
         request' \in [Worker -> {Limiter!Idle} \cup [key : Limiter!Key, right : BOOLEAN, age : 0..LockWait]],
         \A k \in PasswordKey : /\ failed'[k] \in [DOMAIN failed'[k] -> 0..(Limiter!Guarded - 1)]
                                /\ DOMAIN failed'[k] \subseteq Nat /\ IsFiniteSet(DOMAIN failed'[k])
  PROVE  Limiter!TypeOK'
BY LimiterSets DEF Limiter!TypeOK, Table, ListOf, Slots, Limiter!Keys

(* A transaction's pruning drops no bucket that accounts for a failure. *)
LEMMA PrunedAccounts ==
  ASSUME Limiter!LimitAssumption, LimiterInv, NEW a \in 0..LockWait, NEW k \in PasswordKey
  PROVE  /\ \A n \in 1..Limiter!Guarded :
              Cardinality(Below(failed[k], n))
                <= Cardinality(Below(Limiter!Stamps(Limiter!Pruned(a), k), n + LockWait))
         /\ \A i \in DOMAIN failed[k] :
              /\ k \in DOMAIN Limiter!Pruned(a)
              /\ Limiter!Pruned(a)[k].updated <= failed[k][i] + LockWait
<1> DEFINE t == Limiter!Pruned(a)
<1>1. Accounted(k) /\ Table(bucket) /\ failed[k] \in [DOMAIN failed[k] -> 0..(Limiter!Guarded - 1)]
  BY TypeIsTable DEF LimiterInv
<1>2. a \in Int /\ LockWait \in Nat /\ PasswordWindow \in Nat
  BY DEF Limiter!LimitAssumption
<1>3. ASSUME NEW i \in DOMAIN failed[k] PROVE k \in DOMAIN t /\ t[k] = bucket[k]
  <2>1. k \in DOMAIN bucket /\ bucket[k].updated <= failed[k][i] + LockWait
    BY <1>1 DEF Accounted
  <2>2. bucket[k].updated \in Int /\ failed[k][i] \in 0..(Limiter!Guarded - 1)
    BY <1>1, <1>2, <2>1 DEF Table, Limiter!Age, Limiter!Old, Limiter!Retention
  <2>3. ~(bucket[k].updated > Limiter!Retention + a)
    BY <1>2, <2>1, <2>2 DEF Limiter!Guarded, Limiter!Retention
  <2> QED BY <2>1, <2>3 DEF Limiter!Pruned, Limiter!Expired, Limiter!Keys
<1>4. CASE DOMAIN failed[k] = {}
  <2>1. \A n \in Int : Below(failed[k], n) = {}
    BY <1>4 DEF Below
  <2>2. IsFiniteSet(DOMAIN Limiter!Stamps(t, k))
    BY <1>1, PrunedFits, StampsFit, ListFinite
  <2>3. ASSUME NEW n \in 1..Limiter!Guarded
        PROVE  Cardinality(Below(failed[k], n)) <= Cardinality(Below(Limiter!Stamps(t, k), n + LockWait))
    BY <2>1, <2>2, BelowFinite, FS_EmptySet
  <2> QED BY <2>3, <1>4
<1>5. CASE DOMAIN failed[k] # {}
  <2>1. Limiter!Stamps(t, k) = Limiter!Stamps(bucket, k)
    BY <1>3, <1>5, <1>1 DEF Limiter!Stamps, Accounted
  <2> QED BY <2>1, <1>1, <1>3 DEF Accounted
<1> QED BY <1>4, <1>5

LEMMA PrunedBounded ==
  ASSUME LimiterInv, NEW a
  PROVE  IsFiniteSet(DOMAIN Limiter!Pruned(a)) /\ Cardinality(DOMAIN Limiter!Pruned(a)) <= Cardinality(DOMAIN bucket)
BY PrunedFits, FS_Subset, TypeIsTable DEF LimiterInv

(* A bucket that is there, or for which there is capacity, may be written. *)
LEMMA RecordedBounded ==
  ASSUME Limiter!LimitAssumption, NEW t, IsFiniteSet(DOMAIN t), Cardinality(DOMAIN t) <= KeyMax,
         NEW k, NEW f, NEW a, Limiter!Capacity(t, k)
  PROVE  /\ IsFiniteSet(DOMAIN Limiter!Recorded(t, k, f, a))
         /\ Cardinality(DOMAIN Limiter!Recorded(t, k, f, a)) <= KeyMax
<1>1. DOMAIN Limiter!Recorded(t, k, f, a) = DOMAIN t \cup {k}
  BY DEF Limiter!Recorded
<1>2. Cardinality(DOMAIN t) \in Nat /\ KeyMax \in Nat
  BY FS_CardinalityType DEF Limiter!LimitAssumption
<1>3. k \in DOMAIN t \/ Cardinality(DOMAIN t) < KeyMax
  BY LimiterSets DEF Limiter!Capacity
<1>4. CASE k \in DOMAIN t
  <2>1. DOMAIN t \cup {k} = DOMAIN t
    BY <1>4
  <2> QED BY <1>1, <2>1
<1>5. CASE k \notin DOMAIN t
  <2> DEFINE T == DOMAIN t
  <2>1. IsFiniteSet(T) /\ k \notin T /\ Cardinality(T) < KeyMax
    BY <1>3, <1>5
  <2> HIDE DEF T
  <2>2. IsFiniteSet(T \cup {k}) /\ Cardinality(T \cup {k}) = Cardinality(T) + 1
    BY <2>1, FS_AddElement
  <2>3. Cardinality(T) \in Nat
    BY <1>2 DEF T
  <2>4. Cardinality(T \cup {k}) <= KeyMax
    BY <1>2, <2>1, <2>2, <2>3
  <2> QED BY <1>1, <2>2, <2>4 DEF T
<1> QED BY <1>4, <1>5

LEMMA LimiterInit == ASSUME Limiter!LimitAssumption PROVE Limiter!Init => LimiterInv
<1> SUFFICES ASSUME Limiter!Init PROVE LimiterInv
  OBVIOUS
<1>1. DOMAIN bucket = {} /\ DOMAIN failed = PasswordKey /\ KeyMax \in Nat
  BY DEF Limiter!Init, Limiter!LimitAssumption
<1>2. \A k \in PasswordKey : failed[k] = Limiter!NoFailures /\ DOMAIN failed[k] = {}
  BY DEF Limiter!Init, Limiter!NoFailures
<1>3. Limiter!TypeOK
  BY <1>1, <1>2, TypeIsTable, FS_EmptySet DEF Limiter!Init, Table, Limiter!NoFailures
<1>4. ASSUME NEW k \in PasswordKey PROVE Accounted(k)
  <2>1. Limiter!Stamps(bucket, k) = Limiter!NoFailures /\ failed[k] = Limiter!NoFailures
    BY <1>1, <1>2 DEF Limiter!Stamps
  <2>2. \A n : Below(Limiter!NoFailures, n) = {}
    BY DEF Below, Limiter!NoFailures
  <2> QED BY <1>2, <2>1, <2>2, FS_EmptySet DEF Accounted
<1> QED BY <1>1, <1>3, <1>4, FS_EmptySet DEF LimiterInv

(* Requests come and go without touching a bucket. *)
LEMMA RequestStep ==
  ASSUME LimiterInv, UNCHANGED <<bucket, failed>>,
         request' \in [Worker -> {Limiter!Idle} \cup [key : Limiter!Key, right : BOOLEAN, age : 0..LockWait]]
  PROVE  LimiterInv'
BY DEF LimiterInv, Limiter!TypeOK, Accounted, Limiter!Stamps, Below, Limiter!Keys

LEMMA RequestOf ==
  ASSUME Limiter!LimitAssumption, Limiter!TypeOK, NEW w \in Worker, NEW k \in Limiter!Key, request[w].key = k
  PROVE  /\ request[w].age \in 0..LockWait /\ request[w].age \in Limiter!Age
         /\ Limiter!Done(w) =>
              request' \in [Worker -> {Limiter!Idle} \cup [key : Limiter!Key, right : BOOLEAN, age : 0..LockWait]]
<1>1. request[w].age \in 0..LockWait
  BY DEF Limiter!TypeOK, Limiter!LimitAssumption, Limiter!Idle
<1>2. 0..LockWait \subseteq Limiter!Age
  BY DEF Limiter!Age, Limiter!Old, Limiter!Retention, Limiter!LimitAssumption
<1> QED BY <1>1, <1>2 DEF Limiter!Done, Limiter!TypeOK

(* A comparison that fails is counted in its bucket and in the history.    *)
LEMMA CompareStep ==
  ASSUME Limiter!LimitAssumption, LimiterInv, NEW w \in Worker, NEW k \in Limiter!Key,
         Limiter!CompareLogin(w, k)
  PROVE  LimiterInv'
<1> DEFINE a == request[w].age
           t == Limiter!Pruned(a)
           stamps == Limiter!Attempts(t, k, a)
<1> USE DEF Limiter!CompareLogin
<1>1. a \in 0..LockWait /\ a \in Limiter!Age /\ k \in PasswordKey
  BY RequestOf DEF LimiterInv
<1>2. Table(bucket) /\ Table(t)
  BY TypeIsTable, PrunedFits DEF LimiterInv
<1>3. request' \in [Worker -> {Limiter!Idle} \cup [key : Limiter!Key, right : BOOLEAN, age : 0..LockWait]]
  BY RequestOf DEF LimiterInv
<1>4. IsFiniteSet(DOMAIN t) /\ Cardinality(DOMAIN t) <= KeyMax
  <2>1. Cardinality(DOMAIN bucket) \in Nat /\ Cardinality(DOMAIN t) \in Nat /\ KeyMax \in Nat
    BY PrunedBounded, FS_CardinalityType DEF LimiterInv, Limiter!LimitAssumption
  <2> QED BY <2>1, PrunedBounded DEF LimiterInv
<1>5. ListOf(k, Limiter!Stamps(t, k)) /\ ListOf(k, stamps)
  BY <1>2, StampsFit, KeptFits DEF Limiter!Attempts
<1>6. CASE bucket' = t /\ UNCHANGED failed
  <2>1. Limiter!TypeOK'
    BY <1>2, <1>3, <1>6, TypeIsTable, TypeNext DEF LimiterInv
  <2>2. ASSUME NEW e \in PasswordKey PROVE Accounted(e)'
    BY <1>1, <1>6, PrunedAccounts DEF Accounted, Below, Limiter!Stamps
  <2> QED BY <1>4, <1>6, <2>1, <2>2 DEF LimiterInv
<1>7. CASE /\ bucket' = Limiter!Recorded(t, k, Limiter!Added(stamps, a), a)
           /\ failed' = [failed EXCEPT ![k] = Limiter!Added(@, 0)]
  <2>1. ListOf(k, Limiter!Added(stamps, a))
    <3>1. Cardinality(DOMAIN stamps) < Slots(k)
      <4>1. ~(Cardinality(DOMAIN stamps) >= Limiter!Limit(k))
        BY LimiterSets DEF Limiter!Locked, Limiter!Count
      <4>2. Slots(k) = Limiter!Limit(k) /\ Slots(k) \in Nat
        BY <1>1 DEF Slots, Limiter!Limit, Limiter!LimitAssumption
      <4> QED BY <4>1, <4>2, <1>5, ListFinite
    <3> QED BY <1>1, <1>5, <3>1, AddedFits
  <2>2. Table(bucket')
    BY <1>1, <1>2, <1>7, <2>1, RecordedFits
  <2>3. /\ DOMAIN failed = PasswordKey /\ IsFiniteSet(DOMAIN failed[k])
        /\ failed[k] \in [DOMAIN failed[k] -> 0..(Limiter!Guarded - 1)] /\ DOMAIN failed[k] \subseteq Nat
    BY <1>1, TypeIsTable DEF LimiterInv
  <2>4. Limiter!Entry(failed[k]) \in Nat
    BY <2>3, EntryFresh, FS_CardinalityType
  <2>5. 0 \in 0..(Limiter!Guarded - 1) /\ Limiter!Guarded \in Nat /\ LockWait \in Nat
        /\ PasswordWindow \in Nat /\ Limiter!Guarded + LockWait = PasswordWindow
    BY DEF Limiter!Guarded, Limiter!LimitAssumption
  <2>6. /\ DOMAIN Limiter!Added(failed[k], 0) = DOMAIN failed[k] \cup {Limiter!Entry(failed[k])}
        /\ Limiter!Added(failed[k], 0) \in [DOMAIN Limiter!Added(failed[k], 0) -> 0..(Limiter!Guarded - 1)]
    BY <2>3, <2>5 DEF Limiter!Added
  <2>7. IsFiniteSet(DOMAIN Limiter!Added(failed[k], 0)) /\ DOMAIN Limiter!Added(failed[k], 0) \subseteq Nat
    BY <2>3, <2>4, <2>6, FS_AddElement
  <2>8. Limiter!TypeOK'
    <3>1. \A e \in PasswordKey : failed'[e] = IF e = k THEN Limiter!Added(failed[k], 0) ELSE failed[e]
      BY <1>7, <2>3
    <3>2. ASSUME NEW e \in PasswordKey
          PROVE  /\ failed'[e] \in [DOMAIN failed'[e] -> 0..(Limiter!Guarded - 1)]
                 /\ DOMAIN failed'[e] \subseteq Nat /\ IsFiniteSet(DOMAIN failed'[e])
      BY <2>6, <2>7, <3>1, TypeIsTable DEF LimiterInv
    <3> QED BY <1>3, <1>7, <2>2, <2>3, <3>2, TypeNext
  <2>9. IsFiniteSet(DOMAIN bucket') /\ Cardinality(DOMAIN bucket') <= KeyMax
    BY <1>4, <1>7, RecordedBounded
  <2>10. ASSUME NEW e \in PasswordKey, e # k PROVE Accounted(e)'
    <3>1. failed'[e] = failed[e] /\ Limiter!Stamps(bucket', e) = Limiter!Stamps(t, e)
          /\ (e \in DOMAIN t => e \in DOMAIN bucket' /\ bucket'[e] = t[e])
      BY <1>7, <2>3, <2>10 DEF Limiter!Recorded, Limiter!Stamps
    <3> QED BY <1>1, <3>1, PrunedAccounts DEF Accounted, Below, Limiter!Stamps
  <2>11. Accounted(k)'
    <3> DEFINE old == Limiter!Stamps(t, k)
    <3>1. failed'[k] = Limiter!Added(failed[k], 0) /\ Limiter!Stamps(bucket', k) = Limiter!Added(stamps, a)
      BY <1>1, <1>7, <2>3 DEF Limiter!Recorded, Limiter!Stamps
    <3>2. ASSUME NEW n \in 1..Limiter!Guarded
          PROVE  Cardinality(Below(failed'[k], n)) <= Cardinality(Below(Limiter!Stamps(bucket', k), n + LockWait))
      <4>1. n + LockWait \in Int /\ a < n + LockWait /\ n + LockWait <= Limiter!Window(k) + a
            /\ Limiter!Window(k) + a \in Int /\ a \in Int /\ n \in Int /\ 0 < n
        BY <1>1, <2>5 DEF Limiter!Window
      <4>2. Cardinality(Below(Limiter!Added(failed[k], 0), n)) = Cardinality(Below(failed[k], n)) + 1
        BY <2>3, <4>1, AddedBelow DEF Limiter!Guarded
      <4>3. /\ IsFiniteSet(DOMAIN stamps) /\ stamps \in [DOMAIN stamps -> Int]
            /\ IsFiniteSet(DOMAIN old) /\ old \in [DOMAIN old -> Int]
        BY <1>5, ListFinite
      <4>4. Cardinality(Below(Limiter!Added(stamps, a), n + LockWait))
              = Cardinality(Below(stamps, n + LockWait)) + 1
        BY <4>1, <4>3, AddedBelow
      <4>5. Below(stamps, n + LockWait) = Below(old, n + LockWait)
        BY <4>1, <4>3, KeptBelow DEF Limiter!Attempts
      <4>6. Cardinality(Below(failed[k], n)) <= Cardinality(Below(old, n + LockWait))
        BY <1>1, PrunedAccounts
      <4>7. Cardinality(Below(failed[k], n)) \in Nat /\ Cardinality(Below(old, n + LockWait)) \in Nat
        BY <2>3, <4>3, BelowFinite
      <4> QED BY <3>1, <4>2, <4>4, <4>5, <4>6, <4>7
    <3>3. ASSUME NEW i \in DOMAIN failed'[k]
          PROVE  k \in DOMAIN bucket' /\ bucket'[k].updated <= failed'[k][i] + LockWait
      <4>1. k \in DOMAIN bucket' /\ bucket'[k].updated = a
        BY <1>7 DEF Limiter!Recorded
      <4>2. failed'[k][i] \in 0..(Limiter!Guarded - 1)
        BY <3>1, <2>6, <3>3
      <4> QED BY <4>1, <4>2, <1>1, <2>5
    <3> QED BY <3>2, <3>3 DEF Accounted, Below, Limiter!Stamps
  <2> QED BY <2>8, <2>9, <2>10, <2>11 DEF LimiterInv
<1> QED BY <1>6, <1>7

(* A bad token is counted in its bucket, up to one above the limit, and    *)
(* only if there is a place for it.                                        *)
LEMMA TokenStep ==
  ASSUME Limiter!LimitAssumption, LimiterInv, NEW w \in Worker, NEW k \in Limiter!Key,
         Limiter!RecordToken(w, k)
  PROVE  LimiterInv'
<1> DEFINE a == request[w].age
           t == Limiter!Pruned(a)
           stamps == Limiter!Attempts(t, k, a)
           new == Limiter!Appended(k, stamps, a)
<1>0. /\ request[w].key = k /\ k \in TokenKey /\ UNCHANGED failed /\ Limiter!Done(w)
      /\ bucket' = IF Limiter!Capacity(t, k) THEN Limiter!Recorded(t, k, new, a) ELSE t
  BY DEF Limiter!RecordToken
<1>1. a \in 0..LockWait /\ a \in Limiter!Age /\ k \notin PasswordKey
  BY <1>0, RequestOf DEF LimiterInv, Limiter!LimitAssumption
<1>2. Table(bucket) /\ Table(t)
  BY TypeIsTable, PrunedFits DEF LimiterInv
<1>3. request' \in [Worker -> {Limiter!Idle} \cup [key : Limiter!Key, right : BOOLEAN, age : 0..LockWait]]
  BY <1>0, RequestOf DEF LimiterInv
<1>4. IsFiniteSet(DOMAIN t) /\ Cardinality(DOMAIN t) <= KeyMax
  <2>1. Cardinality(DOMAIN bucket) \in Nat /\ Cardinality(DOMAIN t) \in Nat /\ KeyMax \in Nat
    BY PrunedBounded, FS_CardinalityType DEF LimiterInv, Limiter!LimitAssumption
  <2> QED BY <2>1, PrunedBounded DEF LimiterInv
<1>5. ListOf(k, stamps)
  BY <1>2, StampsFit, KeptFits DEF Limiter!Attempts
<1>6. ListOf(k, new)
  <2>1. CASE Limiter!Count(stamps) <= Limiter!Limit(k)
    <3>1. Cardinality(DOMAIN stamps) < Slots(k)
      <4>1. Cardinality(DOMAIN stamps) <= Limiter!Limit(k)
        BY <2>1, LimiterSets DEF Limiter!Count
      <4>2. Slots(k) = Limiter!Limit(k) + 1 /\ Limiter!Limit(k) \in Nat
        BY <1>1 DEF Slots, Limiter!Limit, Limiter!LimitAssumption
      <4> QED BY <4>1, <4>2, <1>5, ListFinite
    <3> QED BY <1>1, <1>5, <2>1, <3>1, AddedFits DEF Limiter!Appended
  <2>2. CASE ~(Limiter!Count(stamps) <= Limiter!Limit(k))
    BY <1>5, <2>2 DEF Limiter!Appended
  <2> QED BY <2>1, <2>2
<1>7. Table(bucket')
  BY <1>0, <1>1, <1>2, <1>6, RecordedFits
<1>8. Limiter!TypeOK'
  BY <1>0, <1>3, <1>7, TypeIsTable, TypeNext DEF LimiterInv
<1>9. IsFiniteSet(DOMAIN bucket') /\ Cardinality(DOMAIN bucket') <= KeyMax
  BY <1>0, <1>4, RecordedBounded
<1>10. ASSUME NEW e \in PasswordKey PROVE Accounted(e)'
  <2>1. /\ Limiter!Stamps(bucket', e) = Limiter!Stamps(t, e)
        /\ (e \in DOMAIN t => e \in DOMAIN bucket' /\ bucket'[e] = t[e])
    BY <1>0, <1>1 DEF Limiter!Recorded, Limiter!Stamps
  <2> QED BY <1>0, <1>1, <2>1, PrunedAccounts DEF Accounted, Below, Limiter!Stamps
<1> QED BY <1>8, <1>9, <1>10 DEF LimiterInv

LEMMA PruneStep ==
  ASSUME Limiter!LimitAssumption, LimiterInv, Limiter!Prune PROVE LimiterInv'
<1>0. bucket' = Limiter!Pruned(0) /\ UNCHANGED <<request, failed>> /\ 0 \in 0..LockWait
  BY DEF Limiter!Prune, Limiter!LimitAssumption
<1>1. Table(bucket')
  BY <1>0, TypeIsTable, PrunedFits DEF LimiterInv
<1>2. Limiter!TypeOK'
  BY <1>0, <1>1, TypeIsTable, TypeNext DEF LimiterInv
<1>3. IsFiniteSet(DOMAIN bucket') /\ Cardinality(DOMAIN bucket') <= KeyMax
  <2>1. Cardinality(DOMAIN bucket) \in Nat /\ Cardinality(DOMAIN bucket') \in Nat /\ KeyMax \in Nat
    BY <1>0, PrunedBounded, FS_CardinalityType DEF LimiterInv, Limiter!LimitAssumption
  <2> QED BY <1>0, <2>1, PrunedBounded DEF LimiterInv
<1>4. ASSUME NEW e \in PasswordKey PROVE Accounted(e)'
  BY <1>0, PrunedAccounts DEF Accounted, Below, Limiter!Stamps
<1> QED BY <1>2, <1>3, <1>4 DEF LimiterInv

(* All ages grow together, and a failure leaves the history before its     *)
(* stamp leaves the window.                                                *)
LEMMA TickStep ==
  ASSUME Limiter!LimitAssumption, LimiterInv, Limiter!Tick PROVE LimiterInv'
<1> USE DEF Limiter!Keys
<1>0. LockWait \in Nat /\ PasswordWindow \in Nat /\ Limiter!Guarded \in Nat
      /\ Limiter!Guarded + LockWait = PasswordWindow /\ Limiter!Old = PasswordWindow + LockWait + 1
  BY DEF Limiter!LimitAssumption, Limiter!Guarded, Limiter!Old, Limiter!Retention
<1>1. /\ DOMAIN bucket' = DOMAIN bucket
      /\ \A k \in DOMAIN bucket :
           /\ bucket'[k].stamps = [i \in DOMAIN bucket[k].stamps |-> Limiter!Older(bucket[k].stamps[i])]
           /\ bucket'[k].updated = Limiter!Older(bucket[k].updated)
  BY DEF Limiter!Tick
<1>2. Table(bucket) /\ DOMAIN failed = PasswordKey
      /\ \A k \in PasswordKey : /\ failed[k] \in [DOMAIN failed[k] -> 0..(Limiter!Guarded - 1)]
                               /\ DOMAIN failed[k] \subseteq Nat /\ IsFiniteSet(DOMAIN failed[k])
  BY TypeIsTable DEF LimiterInv
<1>3. \A n \in Limiter!Age : Limiter!Older(n) \in Limiter!Age
  BY <1>0 DEF Limiter!Age, Limiter!Older
<1>4. Table(bucket')
  <2>1. ASSUME NEW k \in DOMAIN bucket'
        PROVE  ListOf(k, bucket'[k].stamps) /\ bucket'[k].updated \in Limiter!Age
    <3>1. k \in DOMAIN bucket /\ ListOf(k, bucket[k].stamps) /\ bucket[k].updated \in Limiter!Age
      BY <1>1, <1>2 DEF Table
    <3> DEFINE f == bucket[k].stamps
    <3>2. f \in [DOMAIN f -> Limiter!Age] /\ DOMAIN f \subseteq 1..Slots(k)
      BY <3>1 DEF ListOf
    <3>3. bucket'[k].stamps = [i \in DOMAIN f |-> Limiter!Older(f[i])]
          /\ bucket'[k].updated = Limiter!Older(bucket[k].updated)
      BY <1>1, <3>1
    <3> HIDE DEF f
    <3>4. ListOf(k, [i \in DOMAIN f |-> Limiter!Older(f[i])])
      BY <1>3, <3>2 DEF ListOf
    <3> QED BY <1>3, <3>1, <3>3, <3>4
  <2> QED BY <1>1, <1>2, <2>1 DEF Table
<1>5. request' \in [Worker -> {Limiter!Idle} \cup [key : Limiter!Key, right : BOOLEAN, age : 0..LockWait]]
  <2>1. ASSUME NEW w \in Worker, request[w] # Limiter!Idle
        PROVE  [request[w] EXCEPT !.age = @ + 1] \in [key : Limiter!Key, right : BOOLEAN, age : 0..LockWait]
    <3>1. request[w] \in [key : Limiter!Key, right : BOOLEAN, age : 0..LockWait] /\ request[w].age < LockWait
      BY <2>1 DEF Limiter!Tick, LimiterInv, Limiter!TypeOK
    <3>2. request[w].age + 1 \in 0..LockWait
      BY <3>1, <1>0
    <3> QED BY <3>1, <3>2
  <2> QED BY <2>1 DEF Limiter!Tick
<1>6. ASSUME NEW k \in PasswordKey
      PROVE  /\ DOMAIN failed'[k] = {i \in DOMAIN failed[k] : failed[k][i] <= Limiter!Guarded - 2}
             /\ \A i \in DOMAIN failed'[k] : failed'[k][i] = failed[k][i] + 1
             /\ failed'[k] \in [DOMAIN failed'[k] -> 0..(Limiter!Guarded - 1)]
  <2>1. failed'[k] = [i \in Limiter!Upto(failed[k], Limiter!Guarded - 2) |-> failed[k][i] + 1]
    BY DEF Limiter!Tick
  <2> QED BY <2>1, <1>0, <1>2 DEF Limiter!Upto
<1>7. DOMAIN failed' = PasswordKey
      /\ \A k \in PasswordKey : DOMAIN failed'[k] \subseteq Nat /\ IsFiniteSet(DOMAIN failed'[k])
  BY <1>2, <1>6, FS_Subset DEF Limiter!Tick
<1>8. Limiter!TypeOK'
  BY <1>4, <1>5, <1>6, <1>7, TypeNext
<1>9. ASSUME NEW k \in PasswordKey PROVE Accounted(k)'
  <2>0. Accounted(k)
    BY DEF LimiterInv
  <2> DEFINE old == Limiter!Stamps(bucket, k)
  <2>1. old \in [DOMAIN old -> Limiter!Age] /\ IsFiniteSet(DOMAIN old)
    BY <1>2, StampsFit, ListFinite DEF ListOf
  <2>2. Limiter!Stamps(bucket', k) = [i \in DOMAIN old |-> Limiter!Older(old[i])]
    BY <1>1 DEF Limiter!Stamps, Limiter!NoFailures
  <2>3. ASSUME NEW n \in 1..Limiter!Guarded
        PROVE  Cardinality(Below(failed'[k], n)) <= Cardinality(Below(Limiter!Stamps(bucket', k), n + LockWait))
    <3>1. Below(failed'[k], n) = Below(failed[k], n - 1)
      BY <1>0, <1>2, <1>6 DEF Below
    <3>2. Below(Limiter!Stamps(bucket', k), n + LockWait) = Below(old, n - 1 + LockWait)
      BY <1>0, <2>1, <2>2 DEF Below, Limiter!Older, Limiter!Age
    <3>3. CASE n = 1
      <4>1. Below(failed'[k], n) = {}
        BY <1>2, <3>1, <3>3 DEF Below
      <4>2. Cardinality(Below(old, n - 1 + LockWait)) \in Nat
        BY <2>1, BelowFinite
      <4> QED BY <3>2, <4>1, <4>2, FS_EmptySet
    <3>4. CASE n # 1
      BY <1>0, <2>0, <3>1, <3>2, <3>4 DEF Accounted
    <3> QED BY <3>3, <3>4
  <2>4. ASSUME NEW i \in DOMAIN failed'[k]
        PROVE  k \in DOMAIN bucket' /\ bucket'[k].updated <= failed'[k][i] + LockWait
    <3>1. i \in DOMAIN failed[k] /\ failed'[k][i] = failed[k][i] + 1
          /\ failed[k][i] \in 0..(Limiter!Guarded - 1)
      BY <1>2, <1>6, <2>4
    <3>2. k \in DOMAIN bucket /\ bucket[k].updated <= failed[k][i] + LockWait
      BY <2>0, <3>1 DEF Accounted
    <3>3. bucket[k].updated \in 0..Limiter!Old /\ bucket'[k].updated = Limiter!Older(bucket[k].updated)
      BY <1>1, <1>2, <3>2 DEF Table, Limiter!Age
    <3> QED BY <1>0, <1>1, <3>1, <3>2, <3>3 DEF Limiter!Older
  <2> QED BY <2>3, <2>4 DEF Accounted, Below, Limiter!Stamps
<1> QED BY <1>1, <1>8, <1>9 DEF LimiterInv

LEMMA LimiterInductive ==
  ASSUME Limiter!LimitAssumption
  PROVE  /\ Limiter!Init => LimiterInv
         /\ LimiterInv /\ [Limiter!Next]_(Limiter!vars) => LimiterInv'
<1>1. Limiter!Init => LimiterInv
  BY LimiterInit
<1>2. LimiterInv /\ [Limiter!Next]_(Limiter!vars) => LimiterInv'
  <2> SUFFICES ASSUME LimiterInv, [Limiter!Next]_(Limiter!vars) PROVE LimiterInv'
    OBVIOUS
  <2>0. CASE UNCHANGED Limiter!vars
    BY <2>0, RequestStep DEF Limiter!vars, LimiterInv, Limiter!TypeOK
  <2>1. ASSUME NEW w \in Worker, NEW k \in Limiter!Key, NEW right \in BOOLEAN, Limiter!Arrive(w, k, right)
        PROVE  LimiterInv'
    <3>1. [key |-> k, right |-> right, age |-> 0] \in [key : Limiter!Key, right : BOOLEAN, age : 0..LockWait]
      BY DEF Limiter!LimitAssumption
    <3> QED BY <2>1, <3>1, RequestStep DEF Limiter!Arrive, LimiterInv, Limiter!TypeOK
  <2>2. ASSUME NEW w \in Worker, NEW k \in Limiter!Key, Limiter!RefuseLogin(w, k) PROVE LimiterInv'
    BY <2>2, RequestOf, RequestStep DEF Limiter!RefuseLogin, LimiterInv
  <2>3. ASSUME NEW w \in Worker, NEW k \in Limiter!Key, Limiter!CompareLogin(w, k) PROVE LimiterInv'
    BY <2>3, CompareStep
  <2>4. ASSUME NEW w \in Worker, NEW k \in Limiter!Key, Limiter!RecordToken(w, k) PROVE LimiterInv'
    BY <2>4, TokenStep
  <2>5. ASSUME NEW w \in Worker, Limiter!GiveUp(w) PROVE LimiterInv'
    BY <2>5, RequestStep DEF Limiter!GiveUp, Limiter!Done, LimiterInv, Limiter!TypeOK
  <2>6. CASE Limiter!Prune
    BY <2>6, PruneStep
  <2>7. CASE Limiter!Tick
    BY <2>7, TickStep
  <2> QED BY <2>0, <2>1, <2>2, <2>3, <2>4, <2>5, <2>6, <2>7 DEF Limiter!Next, Limiter!Run, Limiter!Key
<1> QED BY <1>1, <1>2

LEMMA LimiterHolds ==
  ASSUME Limiter!LimitAssumption, LimiterInv
  PROVE  Limiter!TypeOK /\ Limiter!FailuresPerWindow /\ Limiter!TableBounded
<1>1. Limiter!FailuresPerWindow
  <2> SUFFICES ASSUME LimiterInv, NEW k \in PasswordKey
               PROVE  Limiter!Count(failed[k]) <= PasswordLimit
    BY DEF Limiter!FailuresPerWindow
  <2>1. Limiter!Guarded \in 1..Limiter!Guarded /\ LockWait \in Nat /\ PasswordLimit \in Nat
    BY DEF Limiter!Guarded, Limiter!LimitAssumption
  <2>2. failed[k] \in [DOMAIN failed[k] -> 0..(Limiter!Guarded - 1)] /\ IsFiniteSet(DOMAIN failed[k])
        /\ Table(bucket)
    BY TypeIsTable DEF LimiterInv
  <2>3. Below(failed[k], Limiter!Guarded) = DOMAIN failed[k]
    BY <2>1, <2>2 DEF Below
  <2> DEFINE s == Limiter!Stamps(bucket, k)
  <2>4. IsFiniteSet(DOMAIN s) /\ Cardinality(DOMAIN s) \in 0..PasswordLimit
    BY <2>2, StampsFit, ListFinite DEF Slots, Limiter!Limit
  <2>5. Cardinality(Below(failed[k], Limiter!Guarded)) <= Cardinality(Below(s, Limiter!Guarded + LockWait))
    BY <2>1 DEF LimiterInv, Accounted
  <2>6. /\ Cardinality(Below(s, Limiter!Guarded + LockWait)) \in Nat
        /\ Cardinality(Below(s, Limiter!Guarded + LockWait)) <= Cardinality(DOMAIN s)
    BY <2>4, BelowFinite
  <2>7. Cardinality(DOMAIN failed[k]) \in Nat
    BY <2>2, FS_CardinalityType
  <2> QED BY <2>1, <2>3, <2>4, <2>5, <2>6, <2>7, LimiterSets DEF Limiter!Count
<1>2. Limiter!TypeOK /\ Limiter!TableBounded
  BY LimiterSets DEF LimiterInv, Limiter!TableBounded, Limiter!Keys
<1> QED BY <1>1, <1>2

-----------------------------------------------------------------------------
(* The middleware that limits the bodies of writes.                        *)

(* The bytes up to the end of a chunk grow from chunk to chunk, the        *)
(* middleware has those of the chunks it took, and the application of a    *)
(* write is called with all of them, or with a disconnection.              *)
Growing(s) ==
  /\ \A i, j \in 1..Len(s) : i <= j => s[i] <= s[j]
  /\ \A i \in 1..Len(s) : s[i] <= (IF i = 1 THEN 0 ELSE s[i - 1]) + ChunkMax
Whole == ended = "done" /\ taken = Len(sent)
Told(i) == received[i].type = "disconnect"

BodyInv ==
  /\ Body!TypeOK
  /\ received \in Seq([type : {"request", "disconnect"}, bytes : Nat])
  /\ Growing(sent)
  /\ body = Body!Upto(taken)
  /\ stage \in {"check", "buffer"} => received = <<>> /\ response = 0
  /\ stage = "check" => body = 0
  /\ stage = "buffer" => scope.write /\ body <= MaxBytes
  /\ stage = "app" => response = 0
  /\ stage = "app" /\ scope.write /\ received = <<>> => Whole /\ body <= MaxBytes
  /\ received # <<>> =>
       /\ scope.write /\ stage \in {"app", "answered"}
       /\ \/ Whole /\ received[1] = [type |-> "request", bytes |-> body] /\ body <= MaxBytes
          \/ ended = "disconnected" /\ Told(1)
  /\ \A i \in 1..Len(received) : i # 1 => Told(i)
  /\ response = 413 => received = <<>> /\ (scope.length > MaxBytes \/ Body!Total > MaxBytes)

(* What the client sends makes the total grow. *)
LEMMA GrowingAppend ==
  ASSUME NEW s \in Seq(Nat), Growing(s), NEW n \in Nat, Len(s) > 0 => s[Len(s)] <= n,
         ChunkMax \in Nat, n <= (IF Len(s) = 0 THEN 0 ELSE s[Len(s)]) + ChunkMax
  PROVE  Growing(Append(s, n)) /\ Append(s, n) \in Seq(Nat)
         /\ Len(Append(s, n)) = Len(s) + 1 /\ Append(s, n)[Len(s) + 1] = n
         /\ \A i \in 1..Len(s) : Append(s, n)[i] = s[i]
<1>1. /\ Append(s, n) \in Seq(Nat) /\ Len(Append(s, n)) = Len(s) + 1 /\ Append(s, n)[Len(s) + 1] = n
      /\ \A i \in 1..Len(s) : Append(s, n)[i] = s[i]
  BY AppendProperties
<1>2. ASSUME NEW i \in 1..Len(s) PROVE s[i] <= n
  <2>1. Len(s) \in Nat /\ Len(s) \in 1..Len(s) /\ s[i] <= s[Len(s)] /\ s[i] \in Nat /\ s[Len(s)] \in Nat
    BY LenProperties DEF Growing
  <2> QED BY <2>1
<1>3. Len(s) \in Nat
  BY LenProperties
<1>4. ASSUME NEW i \in 1..(Len(s) + 1), NEW j \in 1..(Len(s) + 1), i <= j
      PROVE  Append(s, n)[i] <= Append(s, n)[j]
  <2>1. CASE j \in 1..Len(s)
    BY <1>1, <1>3, <1>4, <2>1 DEF Growing
  <2>2. CASE j = Len(s) + 1 /\ i \in 1..Len(s)
    BY <1>1, <1>2, <2>2
  <2>3. CASE j = Len(s) + 1 /\ i = Len(s) + 1
    BY <1>1, <2>3
  <2> QED BY <1>3, <1>4, <2>1, <2>2, <2>3
<1>5. ASSUME NEW i \in 1..(Len(s) + 1)
      PROVE  Append(s, n)[i] <= (IF i = 1 THEN 0 ELSE Append(s, n)[i - 1]) + ChunkMax
  <2>1. CASE i \in 1..Len(s)
    BY <1>1, <1>3, <2>1 DEF Growing
  <2>2. CASE i = Len(s) + 1
    BY <1>1, <1>3, <2>2
  <2> QED BY <1>3, <1>5, <2>1, <2>2
<1> QED BY <1>1, <1>4, <1>5 DEF Growing

LEMMA AppendSecond ==
  ASSUME NEW S, NEW s \in Seq(S), Len(s) = 1, NEW m \in S
  PROVE  /\ Append(s, m) \in Seq(S) /\ Len(Append(s, m)) = 2
         /\ Append(s, m)[1] = s[1] /\ Append(s, m)[2] = m
<1>1. /\ Append(s, m) \in Seq(S) /\ Len(Append(s, m)) = Len(s) + 1
      /\ Append(s, m)[Len(s) + 1] = m /\ \A i \in 1..Len(s) : Append(s, m)[i] = s[i]
  BY AppendProperties
<1> QED BY <1>1

LEMMA UptoTotal ==
  ASSUME sent \in Seq(Nat), Growing(sent), NEW i \in 0..Len(sent)
  PROVE  Body!Upto(i) \in Nat /\ Body!Total \in Nat /\ Body!Upto(i) <= Body!Total
<1>1. Len(sent) \in Nat
  BY LenProperties
<1>2. CASE i = 0
  BY <1>1, <1>2 DEF Body!Upto, Body!Total
<1>3. CASE i # 0
  BY <1>1, <1>3 DEF Body!Upto, Body!Total, Growing
<1> QED BY <1>2, <1>3

LEMMA BodyInductive ==
  ASSUME Body!BodyAssumption
  PROVE  /\ Body!Init => BodyInv
         /\ BodyInv /\ [Body!Next]_(Body!vars) => BodyInv'
<1> USE DEF Body!BodyAssumption, Body!Absent, Body!Invalid
<1>1. Body!Init => BodyInv
  BY DEF Body!Init, BodyInv, Body!TypeOK, Growing, Body!Upto
<1>2. BodyInv /\ [Body!Next]_(Body!vars) => BodyInv'
  <2> SUFFICES ASSUME BodyInv, [Body!Next]_(Body!vars) PROVE BodyInv'
    OBVIOUS
  <2>a. /\ sent \in Seq(Nat) /\ Growing(sent) /\ taken \in 0..Len(sent) /\ Len(sent) \in Nat
        /\ received \in Seq([type : {"request", "disconnect"}, bytes : Nat]) /\ body \in Nat
    BY LenProperties DEF BodyInv, Body!TypeOK
  <2>0. CASE UNCHANGED Body!vars
    BY <2>0 DEF Body!vars, BodyInv, Body!TypeOK, Growing, Body!Upto, Body!Total, Whole, Told
  <2>1. ASSUME NEW n \in 0..ChunkMax, Body!SendChunk(n) PROVE BodyInv'
    <3> DEFINE m == Body!Total + n
    <3>1. /\ Body!Total \in Nat /\ m \in Nat /\ (Len(sent) > 0 => sent[Len(sent)] <= m)
          /\ m <= (IF Len(sent) = 0 THEN 0 ELSE sent[Len(sent)]) + ChunkMax
      BY <2>a, UptoTotal DEF Body!Upto, Body!Total
    <3>2. /\ Growing(sent') /\ sent' \in Seq(Nat) /\ Len(sent') = Len(sent) + 1 /\ sent'[Len(sent) + 1] = m
          /\ \A i \in 1..Len(sent) : sent'[i] = sent[i]
      BY <2>1, <2>a, <3>1, GrowingAppend DEF Body!SendChunk
    <3>3. Body!Total' = m /\ Body!Upto(taken)' = Body!Upto(taken)
      BY <2>1, <2>a, <3>2 DEF Body!SendChunk, Body!Upto, Body!Total
    <3>4. /\ UNCHANGED <<scope, ended, taken, stage, body, received, response>> /\ ended = "open"
          /\ taken \in 0..Len(sent')
      BY <2>1, <2>a, <3>2 DEF Body!SendChunk
    <3>5. received = <<>> /\ ~(stage = "app" /\ scope.write)
      BY <3>4 DEF BodyInv, Whole
    <3>6. Body!TypeOK'
      BY <3>2, <3>4 DEF BodyInv, Body!TypeOK
    <3>7. response = 413 => scope.length > MaxBytes \/ Body!Total' > MaxBytes
      BY <3>1, <3>3 DEF BodyInv
    <3> QED BY <2>a, <3>2, <3>3, <3>4, <3>5, <3>6, <3>7 DEF BodyInv
  <2>2. ASSUME NEW how \in {"done", "disconnected"}, Body!EndBody(how) PROVE BodyInv'
    BY <2>2, <2>a DEF BodyInv, Body!TypeOK, Body!EndBody, Growing, Body!Upto, Body!Total, Whole, Told
  <2>3. CASE Body!CheckLength
    <3>1. /\ UNCHANGED <<scope, sent, ended, taken, body, received>> /\ stage = "check"
          /\ \/ stage' = "app" /\ ~scope.write /\ response' = response
             \/ stage' = "answered" /\ response' = 400
             \/ stage' = "answered" /\ response' = 413 /\ scope.length > MaxBytes
             \/ stage' = "buffer" /\ scope.write /\ response' = response
      BY <2>3 DEF Body!CheckLength, Body!Answer
    <3>2. received = <<>> /\ response = 0 /\ body = Body!Upto(taken) /\ body <= MaxBytes
      BY <3>1 DEF BodyInv
    <3>3. UNCHANGED <<Growing(sent), Body!Upto(taken), Body!Total, Whole>>
      BY <3>1 DEF Growing, Body!Upto, Body!Total, Whole
    <3>4. Body!TypeOK'
      BY <3>1, <3>2 DEF BodyInv, Body!TypeOK
    <3> QED BY <2>a, <3>1, <3>2, <3>3, <3>4 DEF BodyInv, Growing
  <2>4. CASE Body!Buffer
    <3>1. /\ UNCHANGED <<scope, sent, ended, received>> /\ stage = "buffer" /\ taken < Len(sent)
          /\ taken' = taken + 1 /\ body' = body + Body!Chunk(taken + 1)
          /\ \/ body' > MaxBytes /\ stage' = "answered" /\ response' = 413
             \/ body' <= MaxBytes /\ response' = response /\ stage' = "buffer"
             \/ body' <= MaxBytes /\ response' = response /\ stage' = "app"
                /\ taken + 1 = Len(sent) /\ ended = "done"
      <4>1. Body!Chunk(taken + 1) \in Int
        BY <2>4, <2>a DEF Body!Chunk, Body!Upto, Body!Buffer
      <4> QED BY <2>4, <2>a, <4>1 DEF Body!Buffer, Body!Answer, Body!TooLarge, Body!Last, Body!BodyAssumption
    <3>2. received = <<>> /\ response = 0 /\ body = Body!Upto(taken) /\ scope.write /\ body <= MaxBytes
      BY <3>1 DEF BodyInv
    <3>3. taken + 1 \in 0..Len(sent) /\ taken + 1 # 0 /\ taken + 1 - 1 = taken
      BY <2>a, <3>1
    <3>4. body' = Body!Upto(taken + 1) /\ body' \in Nat /\ body' <= Body!Total /\ Body!Total \in Nat
      BY <2>a, <3>1, <3>2, <3>3, UptoTotal DEF Body!Chunk
    <3>5. UNCHANGED <<Growing(sent), Body!Total>> /\ Body!Upto(taken)' = Body!Upto(taken + 1)
      BY <3>1 DEF Growing, Body!Upto, Body!Total
    <3>6. body' <= MaxBytes + ChunkMax
      <4>1. Body!Chunk(taken + 1) <= ChunkMax
        <5>1. sent[taken + 1] <= (IF taken + 1 = 1 THEN 0 ELSE sent[taken + 1 - 1]) + ChunkMax
          BY <2>a, <3>3 DEF Growing
        <5>2. Body!Upto(taken) \in Nat /\ Body!Upto(taken + 1) \in Nat
          BY <2>a, <3>3, UptoTotal
        <5> QED BY <2>a, <3>3, <5>1, <5>2 DEF Body!Chunk, Body!Upto
      <4>2. Body!Chunk(taken + 1) \in Int
        BY <2>a, <3>3, UptoTotal DEF Body!Chunk
      <4> QED BY <2>a, <3>1, <3>2, <3>4, <4>1, <4>2
    <3>7. Body!TypeOK'
      BY <2>a, <3>1, <3>2, <3>3, <3>4, <3>6 DEF BodyInv, Body!TypeOK
    <3>8. stage' = "app" => Whole'
      BY <3>1 DEF Whole
    <3> QED BY <2>a, <3>1, <3>2, <3>4, <3>5, <3>7, <3>8 DEF BodyInv, Growing
  <2>5. CASE Body!BufferEnd
    BY <2>5, <2>a DEF BodyInv, Body!TypeOK, Body!BufferEnd, Growing, Body!Upto, Body!Total, Whole, Told
  <2>6. CASE Body!BufferDisconnect
    BY <2>6, <2>a DEF BodyInv, Body!TypeOK, Body!BufferDisconnect, Growing, Body!Upto, Body!Total, Whole, Told
  <2>7. CASE Body!AppReceive
    BY <2>7, <2>a DEF BodyInv, Body!TypeOK, Body!AppReceive, Growing, Body!Upto, Body!Total, Whole, Told
  <2>8. CASE Body!AppReceiveNext
    <3> DEFINE m == [type |-> "disconnect", bytes |-> 0]
    <3>1. /\ UNCHANGED <<scope, sent, ended, taken, stage, body, response>> /\ stage = "app" /\ scope.write
          /\ received' = Append(received, m) /\ Len(received) = 1 /\ received # <<>>
      BY <2>8, <2>a DEF Body!AppReceiveNext
    <3>2. /\ received' \in Seq([type : {"request", "disconnect"}, bytes : Nat]) /\ Len(received') = 2
          /\ received'[1] = received[1] /\ received'[2] = m
      <4> DEFINE Message == [type : {"request", "disconnect"}, bytes : Nat]
      <4>1. m \in Message /\ received \in Seq(Message) /\ Len(received) = 1 /\ received' = Append(received, m)
        BY <2>a, <3>1
      <4> HIDE DEF m, Message
      <4>2. received' \in Seq(Message) /\ Len(received') = 2 /\ received'[1] = received[1] /\ received'[2] = m
        BY <4>1, AppendSecond
      <4> QED BY <4>2 DEF Message
    <3>7. received' # <<>>
      BY <3>2
    <3>3. UNCHANGED <<Growing(sent), Body!Upto(taken), Body!Total, Whole>> /\ (Told(1) => Told(1)') /\ Told(2)'
      BY <3>1, <3>2 DEF Growing, Body!Upto, Body!Total, Whole, Told
    <3>4. Body!TypeOK'
      BY <3>1 DEF BodyInv, Body!TypeOK
    <3>5. response # 413
      BY <3>1 DEF BodyInv
    <3>6. \A i \in 1..Len(received') : i # 1 => Told(i)'
      BY <3>2, <3>3
    <3> QED BY <2>a, <3>1, <3>2, <3>3, <3>4, <3>5, <3>6, <3>7 DEF BodyInv, Growing
  <2>9. CASE Body!AppAnswer
    BY <2>9, <2>a DEF BodyInv, Body!TypeOK, Body!AppAnswer, Body!Answer, Growing, Body!Upto, Body!Total, Whole, Told
  <2> QED BY <2>0, <2>1, <2>2, <2>3, <2>4, <2>5, <2>6, <2>7, <2>8, <2>9 DEF Body!Next
<1> QED BY <1>1, <1>2

LEMMA BodyHolds == ASSUME BodyInv PROVE Body!TypeOK /\ Body!BodyWholeAndBounded
<1>1. Body!BodyWholeAndBounded
  <2>1. ASSUME NEW i \in 1..Len(received), received[i].type = "request"
        PROVE  i = 1 /\ received[i].bytes <= MaxBytes /\ (ended = "done" => received[i].bytes = Body!Total)
    BY <2>1 DEF BodyInv, Told, Whole, Body!Total, Body!TypeOK
  <2> QED BY <2>1 DEF BodyInv, Body!BodyWholeAndBounded
<1> QED BY <1>1 DEF BodyInv

-----------------------------------------------------------------------------
(* The health check of agents and models.                                  *)

(* A receipt of an undisturbed check was measured with the settings that   *)
(* its fingerprint names.                                                  *)
HealthInv ==
  /\ Health!TypeOK /\ clock \in Nat /\ DOMAIN check = HealthCheck
  /\ latest # None /\ latest.state = "completed" /\ latest.receipt.quiet =>
       /\ latest.receipt.measured = latest.receipt.fingerprint.settings
       /\ Health!Named(latest.receipt.agents) = latest.receipt.fingerprint.agents

LEMMA HealthInductive ==
  ASSUME Health!HealthAssumption
  PROVE  /\ Health!Init => HealthInv
         /\ HealthInv /\ [Health!Next]_(Health!vars) => HealthInv'
<1> USE DEF Health!HealthAssumption, HealthInv, Health!TypeOK
<1>1. Health!Init => HealthInv
  BY DEF Health!Init, Health!Idle
<1>2. HealthInv /\ [Health!Next]_(Health!vars) => HealthInv'
  <2> SUFFICES ASSUME HealthInv, [Health!Next]_(Health!vars) PROVE HealthInv'
    OBVIOUS
  <2>0. CASE UNCHANGED Health!vars
    BY <2>0 DEF Health!vars, Health!Named
  <2>1. ASSUME NEW e \in Endpoint, NEW m \in HealthModel, Health!ChangeSettings(e, m) PROVE HealthInv'
    BY <2>1 DEF Health!ChangeSettings, Health!Named
  <2>2. ASSUME NEW a \in HealthAgent, Health!ChangeAgent(a) PROVE HealthInv'
    BY <2>2 DEF Health!ChangeAgent, Health!Named
  <2>3. ASSUME NEW c \in HealthCheck, Health!Start(c) PROVE HealthInv'
    BY <2>3 DEF Health!Start, Health!Row
  <2>4. ASSUME NEW c \in HealthCheck, Health!ReadSettings(c) PROVE HealthInv'
    BY <2>4 DEF Health!ReadSettings, Health!Named
  <2>5. ASSUME NEW c \in HealthCheck, Health!ReadAgents(c) PROVE HealthInv'
    BY <2>5 DEF Health!ReadAgents, Health!Named
  <2>6. ASSUME NEW c \in HealthCheck, Health!Complete(c) PROVE HealthInv'
    <3> DEFINE new == [fingerprint |-> Health!Fingerprint(check[c].settings.model), llm |-> check[c].llm,
                       agents |-> check[c].agents, measured |-> check[c].settings,
                       quiet |-> check[c].settings = settings /\ Health!Named(check[c].agents) = enabled]
    <3>1. /\ latest' = [state |-> "completed", receipt |-> new, at |-> clock]
          /\ check' = [check EXCEPT ![c] = Health!Idle]
          /\ UNCHANGED <<settings, enabled, changes, clock>>
      BY <2>6 DEF Health!Complete, Health!Row
    <3>2. new.quiet => new.measured = new.fingerprint.settings
                       /\ Health!Named(new.agents) = new.fingerprint.agents
      <4>1. new.quiet = (check[c].settings = settings /\ Health!Named(check[c].agents) = enabled)
        OBVIOUS
      <4>2. new.measured = check[c].settings /\ new.agents = check[c].agents
            /\ new.fingerprint.settings = settings /\ new.fingerprint.agents = enabled
        BY DEF Health!Fingerprint
      <4> HIDE DEF new
      <4> QED BY <4>1, <4>2
    <3> HIDE DEF new
    <3>4. latest'.receipt = new /\ latest'.state = "completed" /\ latest'.at = clock
      BY <3>1
    <3>5. Health!TypeOK'
      BY <3>1, <3>4 DEF Health!Idle
    <3> QED BY <3>1, <3>2, <3>4, <3>5 DEF Health!Named
  <2>7. ASSUME NEW c \in HealthCheck, Health!Fail(c) PROVE HealthInv'
    BY <2>7 DEF Health!Fail, Health!Row, Health!Idle
  <2>8. ASSUME NEW c \in HealthCheck, NEW e \in Endpoint \cup {Secondary}, NEW s, Health!Probe(c, e, s)
        PROVE  HealthInv'
    BY <2>8 DEF Health!Probe, Health!Named
  <2>9. CASE Health!Restart
    BY <2>9 DEF Health!Restart, Health!Idle, Health!Named
  <2>10. CASE Health!Tick
    BY <2>10 DEF Health!Tick, Health!Named
  <2> QED BY <2>0, <2>1, <2>2, <2>3, <2>4, <2>5, <2>6, <2>7, <2>8, <2>9, <2>10 DEF Health!Next
<1> QED BY <1>1, <1>2

LEMMA HealthHolds == ASSUME HealthInv PROVE Health!TypeOK /\ Health!QuietReceiptTrue
BY DEF HealthInv, Health!QuietReceiptTrue, Health!Evidence, Health!Fingerprint, Health!TypeOK

-----------------------------------------------------------------------------
(* The history of managed instructions.                                    *)

(* What an edit under way holds. *)
Editing(a) ==
  \/ edit[a] = Prompts!Idle
  \/ edit[a] \in [at : {"write", "reread", "number"}, before : Prompts!Content,
                  target : 0..VersionMax, after : Prompts!Content]
  \/ edit[a] \in [at : {"append"}, version : 1..VersionMax,
                  row : [snapshot : Prompts!Content, target : 0..VersionMax]]

(* A content that is in the history, whose writer is known to have failed, *)
(* or whose writer will append or drop it.                                 *)
Pending(a, x) ==
  \/ /\ edit[a].at = "reread" /\ edit[a].after = x
     /\ x # edit[a].before \/ (kind = "artifact" /\ edit[a].target # 0)
  \/ edit[a].at = "number" /\ edit[a].after = x
  \/ edit[a].at = "append" /\ edit[a].row.snapshot = x
Covered(x) == x \in Prompts!Snapshots \cup dropped \/ \E a \in Editor : Pending(a, x)

(* A row that restores a version has its snapshot, and is younger. *)
Restores(row) ==
  kind = "artifact" /\ row.target # 0 =>
    row.target \in 1..Len(history) /\ row.snapshot = history[row.target].snapshot

PromptInv ==
  /\ kind \in {"artifact", "contract"} /\ content \in Prompts!Content
  /\ history \in Seq([snapshot : Prompts!Content, target : 0..VersionMax])
  /\ Len(history) \in 1..VersionMax
  /\ dropped \subseteq Prompts!Content
  /\ DOMAIN edit = Editor /\ \A a \in Editor : Editing(a)
  /\ Covered(content)
  /\ \A a \in Editor : edit[a].at \in {"write", "reread"} => Covered(edit[a].before)
  /\ \A a \in Editor : edit[a].at \in {"write", "reread", "number"} =>
       Restores([snapshot |-> edit[a].after, target |-> edit[a].target])
  /\ \A a \in Editor : edit[a].at = "append" =>
       /\ Restores(edit[a].row) /\ edit[a].version \in 1..(Len(history) + 1)
       /\ kind = "artifact" => edit[a].row.target < edit[a].version
  /\ \A v \in 2..Len(history) : Restores(history[v]) /\ (kind = "artifact" => history[v].target < v)

LEMMA FunctionIsSeq ==
  ASSUME NEW S, NEW n \in Nat, NEW f \in [1..n -> S] PROVE f \in Seq(S) /\ Len(f) = n
<1>1. f \in Seq(S)
  BY SeqDef
<1>2. DOMAIN f = 1..n /\ DOMAIN f = 1..Len(f) /\ Len(f) \in Nat
  BY <1>1, LenProperties
<1> QED BY <1>1, <1>2

LEMMA ExtendedSeq ==
  ASSUME NEW R, NEW s \in Seq(R), NEW e \in R, NEW t,
         t = [v \in 1..(Len(s) + 1) |-> IF v = Len(s) + 1 THEN e ELSE s[v]]
  PROVE  /\ t \in Seq(R) /\ Len(t) = Len(s) + 1 /\ t[Len(s) + 1] = e
         /\ \A v \in 1..Len(s) : t[v] = s[v]
<1>1. Len(s) \in Nat /\ \A v \in 1..Len(s) : s[v] \in R
  BY LenProperties, ElementOfSeq
<1>2. Len(s) + 1 \in Nat
  BY <1>1
<1>3. t \in [1..(Len(s) + 1) -> R]
  BY <1>1
<1>4. t \in Seq(R) /\ Len(t) = Len(s) + 1
  BY <1>2, <1>3, FunctionIsSeq
<1> QED BY <1>1, <1>4

LEMMA PromptStep ==
  ASSUME [Prompts!Next]_(Prompts!vars), ~UNCHANGED Prompts!vars
  PROVE  \E a \in Editor :
           \/ \E patch, target : (target = 0 \/ (target \in 1..Len(history) /\ patch = history[target].snapshot))
                /\ (target = 0 => \E F \in SUBSET Field : patch \in [F -> Text])
                /\ Prompts!Read(a, patch, target)
           \/ Prompts!Write(a) \/ Prompts!Audit(a) \/ Prompts!Number(a) \/ Prompts!Append_(a) \/ Prompts!Abort(a)
BY DEF Prompts!Next, Prompts!Update, Prompts!Rollback, Prompts!RestoredFields, Prompts!Latest

(* The history only grows, one version at a time. *)
LEMMA PromptsGrow ==
  ASSUME PromptInv, [Prompts!Next]_(Prompts!vars)
  PROVE  /\ Len(history') \in {Len(history), Len(history) + 1}
         /\ \A v \in 1..Len(history) : history'[v] = history[v]
         /\ history' \in Seq([snapshot : Prompts!Content, target : 0..VersionMax])
         /\ Len(history') \in 1..VersionMax
         /\ Prompts!Snapshots \subseteq Prompts!Snapshots' /\ dropped \subseteq dropped'
<1>0. Len(history) \in Nat /\ Len(history) \in 1..VersionMax
      /\ history \in Seq([snapshot : Prompts!Content, target : 0..VersionMax])
  BY LenProperties DEF PromptInv
<1>1. CASE history' = history /\ dropped \subseteq dropped'
  BY <1>0, <1>1 DEF Prompts!Snapshots, Prompts!Latest
<1>2. ASSUME NEW a \in Editor, Prompts!Append_(a), edit[a].version \notin 1..Len(history)
      PROVE  /\ Len(history') = Len(history) + 1 /\ Len(history') \in 1..VersionMax
             /\ \A v \in 1..Len(history) : history'[v] = history[v]
             /\ history' \in Seq([snapshot : Prompts!Content, target : 0..VersionMax])
  <2>1. edit[a].at = "append" /\ edit[a].version = Len(history) + 1
        /\ edit[a].version \in 1..VersionMax /\ edit[a].row \in [snapshot : Prompts!Content, target : 0..VersionMax]
    BY <1>0, <1>2 DEF Prompts!Append_, PromptInv, Editing, Prompts!Idle
  <2>2. history' = [v \in 1..(Len(history) + 1) |->
                     IF v = Len(history) + 1 THEN edit[a].row ELSE history[v]]
    BY <1>2, <2>1 DEF Prompts!Append_, Prompts!Latest
  <2> DEFINE R == [snapshot : Prompts!Content, target : 0..VersionMax]
  <2>3. history \in Seq(R) /\ edit[a].row \in R
    BY <1>0, <2>1
  <2> HIDE DEF R
  <2>4. history' \in Seq(R) /\ Len(history') = Len(history) + 1
        /\ \A v \in 1..Len(history) : history'[v] = history[v]
    BY <2>2, <2>3, ExtendedSeq
  <2>5. history' \in Seq([snapshot : Prompts!Content, target : 0..VersionMax])
    BY <2>4 DEF R
  <2>6. Len(history') \in 1..VersionMax
    BY <1>0, <2>1, <2>4
  <2> QED BY <2>4, <2>5, <2>6
<1>3. ASSUME NEW a \in Editor, Prompts!Append_(a), edit[a].version \notin 1..Len(history)
      PROVE  dropped' = dropped
  BY <1>3 DEF Prompts!Append_, Prompts!Latest
<1>4. ASSUME NEW a \in Editor, Prompts!Append_(a), edit[a].version \notin 1..Len(history)
      PROVE  Prompts!Snapshots \subseteq Prompts!Snapshots'
  BY <1>0, <1>2, <1>4 DEF Prompts!Snapshots, Prompts!Latest
<1>5. \/ history' = history /\ dropped \subseteq dropped'
      \/ \E a \in Editor : Prompts!Append_(a) /\ edit[a].version \notin 1..Len(history)
  <2>1. CASE UNCHANGED Prompts!vars
    BY <2>1 DEF Prompts!vars
  <2>2. ASSUME NEW a \in Editor, Prompts!Append_(a) PROVE <1>5!1 \/ <1>5!2
    BY <2>2 DEF Prompts!Append_, Prompts!Latest
  <2>3. ASSUME NEW a \in Editor, NEW patch, NEW target, Prompts!Read(a, patch, target) PROVE <1>5!1
    BY <2>3 DEF Prompts!Read
  <2>4. ASSUME NEW a \in Editor, Prompts!Write(a) \/ Prompts!Audit(a) \/ Prompts!Number(a) PROVE <1>5!1
    BY <2>4 DEF Prompts!Write, Prompts!Audit, Prompts!Number
  <2>5. ASSUME NEW a \in Editor, Prompts!Abort(a) PROVE <1>5!1
    BY <2>5 DEF Prompts!Abort
  <2> QED BY <2>1, <2>2, <2>3, <2>4, <2>5, PromptStep
<1> QED BY <1>0, <1>1, <1>2, <1>3, <1>4, <1>5

(* A covered content stays covered: its writer goes on, appends it or      *)
(* drops it.                                                               *)
LEMMA CoverStays ==
  ASSUME PromptInv, [Prompts!Next]_(Prompts!vars), NEW x, Covered(x)
  PROVE  Covered(x)'
<1>0. Prompts!Snapshots \subseteq Prompts!Snapshots' /\ dropped \subseteq dropped'
  BY PromptsGrow
<1>1. CASE x \in Prompts!Snapshots \cup dropped
  BY <1>0, <1>1 DEF Covered
<1>2. ASSUME NEW b \in Editor, Pending(b, x) PROVE Covered(x)'
  <2>0. DOMAIN edit = Editor
    BY DEF PromptInv
  <2>1. CASE UNCHANGED Prompts!vars
    BY <1>2, <2>1 DEF Prompts!vars, Covered, Pending
  <2>2. ASSUME NEW a \in Editor, a # b, edit'[b] = edit[b], kind' = kind PROVE Covered(x)'
    BY <1>2, <2>2 DEF Covered, Pending
  <2>3. ASSUME NEW patch, NEW target, Prompts!Read(b, patch, target) PROVE FALSE
    BY <1>2, <2>3 DEF Prompts!Read, Prompts!Idle, Pending
  <2>4. ASSUME Prompts!Write(b) PROVE FALSE
    BY <1>2, <2>4 DEF Prompts!Write, Pending
  <2>5. ASSUME Prompts!Audit(b) PROVE Covered(x)'
    <3>1. edit[b].at = "reread" /\ edit[b].after = x
          /\ (x # edit[b].before \/ (kind = "artifact" /\ edit[b].target # 0))
      BY <1>2, <2>5 DEF Prompts!Audit, Pending
    <3>2. CASE Prompts!Recorded(b) # x
      BY <2>5, <3>1, <3>2 DEF Prompts!Audit, Covered
    <3>3. CASE Prompts!Recorded(b) = x
      <4>1. edit' = [edit EXCEPT ![b] = [edit[b] EXCEPT !.at = "number", !.after = x]]
        BY <2>5, <3>1, <3>3 DEF Prompts!Audit, Prompts!Goto
      <4>2. edit'[b].at = "number" /\ edit'[b].after = x
        BY <4>1, <3>1 DEF PromptInv, Editing, Prompts!Idle
      <4> QED BY <4>2 DEF Covered, Pending
    <3> QED BY <3>2, <3>3
  <2>6. ASSUME Prompts!Number(b) PROVE Covered(x)'
    <3>1. edit'[b].at = "append" /\ edit'[b].row.snapshot = x
      BY <1>2, <2>6 DEF Prompts!Number, Prompts!Goto, Pending, PromptInv
    <3> QED BY <3>1 DEF Covered, Pending
  <2>7. ASSUME Prompts!Append_(b) PROVE Covered(x)'
    <3>1. edit[b].at = "append" /\ edit[b].row.snapshot = x
      BY <1>2, <2>7 DEF Prompts!Append_, Pending
    <3>2. CASE edit[b].version \in 1..Len(history)
      BY <2>7, <3>1, <3>2 DEF Prompts!Append_, Prompts!Latest, Covered
    <3>3. CASE edit[b].version \notin 1..Len(history)
      <4>1. edit[b].version = Len(history) + 1 /\ Len(history) \in Nat
        BY <3>1, <3>3, LenProperties DEF PromptInv
      <4>2. edit[b].row \in [snapshot : Prompts!Content, target : 0..VersionMax]
        BY <3>1 DEF PromptInv, Editing, Prompts!Idle
      <4>3. history'[Len(history) + 1] = edit[b].row /\ Len(history') = Len(history) + 1
        <5>1. history' = [v \in 1..(Len(history) + 1) |->
                           IF v = Len(history) + 1 THEN edit[b].row ELSE history[v]]
          BY <2>7, <3>3, <4>1 DEF Prompts!Append_, Prompts!Latest
        <5>2. history \in Seq([snapshot : Prompts!Content, target : 0..VersionMax])
          BY DEF PromptInv
        <5> QED BY <4>2, <5>1, <5>2, ExtendedSeq
      <4>4. x \in Prompts!Snapshots'
        BY <3>1, <4>1, <4>3 DEF Prompts!Snapshots, Prompts!Latest
      <4> QED BY <4>4 DEF Covered
    <3> QED BY <3>2, <3>3
  <2>8. ASSUME Prompts!Abort(b) PROVE Covered(x)'
    BY <1>2, <2>8 DEF Prompts!Abort, Pending, Covered
  <2>9. ASSUME NEW a \in Editor, a # b, \E patch, target : Prompts!Read(a, patch, target) PROVE Covered(x)'
    <3>1. edit'[b] = edit[b] /\ kind' = kind
      BY <2>0, <2>9 DEF Prompts!Read, Prompts!Goto
    <3> QED BY <2>2, <2>9, <3>1
  <2>10. ASSUME NEW a \in Editor, a # b,
                Prompts!Write(a) \/ Prompts!Audit(a) \/ Prompts!Number(a) \/ Prompts!Append_(a) \/ Prompts!Abort(a)
         PROVE  Covered(x)'
    <3>1. kind' = kind /\ \E e : Prompts!Goto(a, e)
      BY <2>10 DEF Prompts!Write, Prompts!Audit, Prompts!Number, Prompts!Append_, Prompts!Abort
    <3>2. edit'[b] = edit[b]
      BY <2>0, <2>10, <3>1 DEF Prompts!Goto
    <3> QED BY <2>2, <2>10, <3>1, <3>2
  <2> QED BY <2>1, <2>3, <2>4, <2>5, <2>6, <2>7, <2>8, <2>9, <2>10, PromptStep
<1> QED BY <1>1, <1>2 DEF Covered

(* What a row restores, it still restores when the history has grown. *)
LEMMA RestoresStays ==
  ASSUME PromptInv, [Prompts!Next]_(Prompts!vars), NEW row, Restores(row)
  PROVE  Restores(row)'
<1>1. kind' = kind
  <2>1. ASSUME NEW a \in Editor, \E patch, target : Prompts!Read(a, patch, target) PROVE kind' = kind
    BY <2>1 DEF Prompts!Read
  <2>2. ASSUME NEW a \in Editor, Prompts!Write(a) \/ Prompts!Audit(a) \/ Prompts!Number(a)
                                 \/ Prompts!Append_(a) \/ Prompts!Abort(a)
        PROVE  kind' = kind
    BY <2>2 DEF Prompts!Write, Prompts!Audit, Prompts!Number, Prompts!Append_, Prompts!Abort
  <2> QED BY <2>1, <2>2, PromptStep DEF Prompts!vars
<1>2. Len(history) \in Nat
  BY LenProperties DEF PromptInv
<1> QED BY <1>1, <1>2, PromptsGrow DEF Restores

(* An admin's edit after a step of this admin, in its parts.               *)
EditSound(a) ==
  /\ Editing(a)
  /\ edit[a].at \in {"write", "reread"} => Covered(edit[a].before)
  /\ edit[a].at \in {"write", "reread", "number"} =>
       Restores([snapshot |-> edit[a].after, target |-> edit[a].target])
  /\ edit[a].at = "append" =>
       /\ Restores(edit[a].row) /\ edit[a].version \in 1..(Len(history) + 1)
       /\ kind = "artifact" => edit[a].row.target < edit[a].version

LEMMA IdleSound == ASSUME NEW a, edit[a] = Prompts!Idle PROVE EditSound(a)
BY DEF EditSound, Editing, Prompts!Idle

(* The edits of the others stay sound. *)
LEMMA OthersSound ==
  ASSUME PromptInv, [Prompts!Next]_(Prompts!vars), NEW a \in Editor, edit'[a] = edit[a], kind' = kind
  PROVE  EditSound(a)'
<1>1. EditSound(a)
  BY DEF PromptInv, EditSound
<1>2. edit[a].at \in {"write", "reread"} => Covered(edit[a].before)'
  <2>1. ASSUME NEW x, x = edit[a].before, Covered(x) PROVE Covered(edit[a].before)'
    <3>1. Covered(x)'
      BY <2>1, CoverStays
    <3>2. edit'[a].before = x
      BY <2>1
    <3> QED BY <3>1, <3>2 DEF Covered, Pending
  <2> QED BY <1>1, <2>1 DEF EditSound
<1>3. edit[a].at \in {"write", "reread", "number"} =>
        Restores([snapshot |-> edit[a].after, target |-> edit[a].target])'
  <2>1. ASSUME NEW row, row = [snapshot |-> edit[a].after, target |-> edit[a].target], Restores(row)
        PROVE  Restores([snapshot |-> edit[a].after, target |-> edit[a].target])'
    <3>1. Restores(row)'
      BY <2>1, RestoresStays
    <3> QED BY <2>1, <3>1 DEF Restores
  <2> QED BY <1>1, <2>1 DEF EditSound
<1>4. edit[a].at = "append" => Restores(edit[a].row)'
  <2>1. ASSUME NEW row, row = edit[a].row, Restores(row) PROVE Restores(edit[a].row)'
    <3>1. Restores(row)'
      BY <2>1, RestoresStays
    <3> QED BY <2>1, <3>1 DEF Restores
  <2> QED BY <1>1, <2>1 DEF EditSound
<1>5. Len(history) \in Nat /\ Len(history') \in Nat /\ Len(history) <= Len(history')
  BY PromptsGrow, LenProperties DEF PromptInv
<1>6. Editing(a)'
  BY <1>1 DEF EditSound, Editing, Prompts!Content
<1> QED BY <1>1, <1>2, <1>3, <1>4, <1>5, <1>6 DEF EditSound

(* What an administrator's own step leaves of the edit is sound. *)
LEMMA ReadSound ==
  ASSUME PromptInv, [Prompts!Next]_(Prompts!vars), NEW a \in Editor, NEW patch, NEW target,
         target = 0 \/ (target \in 1..Len(history) /\ patch = history[target].snapshot),
         target = 0 => \E F \in SUBSET Field : patch \in [F -> Text],
         Prompts!Read(a, patch, target), Prompts!PromptAssumption
  PROVE  EditSound(a)'
<1>1. /\ content \in Prompts!Content /\ Len(history) \in 1..VersionMax /\ Covered(content) /\ DOMAIN edit = Editor
      /\ history \in Seq([snapshot : Prompts!Content, target : 0..VersionMax])
  BY DEF PromptInv
<1> DEFINE after == [f \in Field |-> IF f \in DOMAIN patch THEN patch[f] ELSE content[f]]
<1>2. edit'[a] = [at |-> "write", before |-> content, target |-> target, after |-> after]
  BY <1>1 DEF Prompts!Read, Prompts!Goto
<1>3. target # 0 => patch \in Prompts!Content
  <2>1. ASSUME target # 0 PROVE history[target] \in [snapshot : Prompts!Content, target : 0..VersionMax]
    BY <1>1, <2>1, ElementOfSeq
  <2> QED BY <2>1
<1>4. after \in Prompts!Content
  <2>1. \E F \in SUBSET Field : patch \in [F -> Text]
    BY <1>3 DEF Prompts!Content
  <2> QED BY <1>1, <2>1 DEF Prompts!Content
<1>5. target # 0 => after = history[target].snapshot
  <2>1. ASSUME target # 0 PROVE after = patch
    BY <1>3, <2>1 DEF Prompts!Content
  <2> QED BY <2>1
<1> HIDE DEF after
<1>6. target \in 0..VersionMax
  <2>1. Len(history) \in Nat /\ VersionMax \in Nat
    BY <1>1 DEF Prompts!PromptAssumption
  <2> QED BY <1>1, <2>1
<1>7. Covered(content)'
  <2>1. content' = content
    BY DEF Prompts!Read
  <2>2. ASSUME NEW x, x = content, Covered(x) PROVE Covered(x)'
    BY <2>2, CoverStays
  <2>3. PICK x : x = content
    OBVIOUS
  <2>4. Covered(x)'
    BY <1>1, <2>2, <2>3
  <2> QED BY <2>1, <2>3, <2>4 DEF Covered, Pending
<1>8. Editing(a)'
  BY <1>1, <1>2, <1>4, <1>6 DEF Editing, Prompts!Content
<1>9. Covered(edit[a].before)'
  <2>1. edit'[a].before = content /\ content' = content
    BY <1>2 DEF Prompts!Read
  <2> QED BY <1>7, <2>1 DEF Covered, Pending
<1>10. Restores([snapshot |-> edit[a].after, target |-> edit[a].target])'
  BY <1>2, <1>5 DEF Restores, Prompts!Read
<1>11. edit'[a].at = "write"
  BY <1>2
<1> QED BY <1>8, <1>9, <1>10, <1>11 DEF EditSound

LEMMA WriteSound ==
  ASSUME PromptInv, [Prompts!Next]_(Prompts!vars), NEW a \in Editor, Prompts!Write(a)
  PROVE  EditSound(a)' /\ Covered(content)'
<1>1. /\ DOMAIN edit = Editor /\ edit[a].at = "write" /\ Editing(a)
      /\ Covered(edit[a].before)
      /\ Restores([snapshot |-> edit[a].after, target |-> edit[a].target])
  BY DEF PromptInv, Prompts!Write
<1>2. edit[a] \in [at : {"write", "reread", "number"}, before : Prompts!Content,
                  target : 0..VersionMax, after : Prompts!Content]
  BY <1>1 DEF Editing, Prompts!Idle
<1>3. edit'[a] = [edit[a] EXCEPT !.at = "reread"] /\ kind' = kind /\ history' = history /\ content' = edit[a].after
  BY <1>1 DEF Prompts!Write, Prompts!Goto
<1>4. edit'[a].at = "reread" /\ edit'[a].before = edit[a].before /\ edit'[a].after = edit[a].after
      /\ edit'[a].target = edit[a].target
  BY <1>2, <1>3
<1>5. PICK x : x = edit[a].before
  OBVIOUS
<1>6. Covered(x)'
  BY <1>1, <1>5, CoverStays
<1>7. Covered(edit[a].before)'
  BY <1>4, <1>5, <1>6 DEF Covered, Pending
<1>8. Restores([snapshot |-> edit[a].after, target |-> edit[a].target])'
  BY <1>1, <1>3, <1>4 DEF Restores
<1>9. edit'[a] \in [at : {"write", "reread", "number"}, before : Prompts!Content,
                  target : 0..VersionMax, after : Prompts!Content]
  BY <1>2, <1>3
<1>10. EditSound(a)'
  BY <1>4, <1>7, <1>8, <1>9 DEF EditSound, Editing, Prompts!Content
<1>11. Covered(content)'
  <2>1. CASE edit[a].after # edit[a].before
    BY <1>3, <1>4, <2>1 DEF Covered, Pending
  <2>2. CASE edit[a].after = edit[a].before
    BY <1>3, <1>5, <1>6, <2>2 DEF Covered, Pending
  <2> QED BY <2>1, <2>2
<1> QED BY <1>10, <1>11

LEMMA AuditSound ==
  ASSUME PromptInv, [Prompts!Next]_(Prompts!vars), NEW a \in Editor, Prompts!Audit(a)
  PROVE  EditSound(a)'
<1>1. /\ DOMAIN edit = Editor /\ edit[a].at = "reread" /\ Editing(a)
      /\ Restores([snapshot |-> edit[a].after, target |-> edit[a].target])
      /\ content \in Prompts!Content /\ kind \in {"artifact", "contract"}
  BY DEF PromptInv, Prompts!Audit
<1>2. edit[a] \in [at : {"write", "reread", "number"}, before : Prompts!Content,
                  target : 0..VersionMax, after : Prompts!Content]
  BY <1>1 DEF Editing, Prompts!Idle
<1>3. kind' = kind /\ history' = history
      /\ edit'[a] \in {Prompts!Idle, [edit[a] EXCEPT !.at = "number", !.after = Prompts!Recorded(a)]}
  BY <1>1 DEF Prompts!Audit, Prompts!Goto
<1>4. CASE edit'[a] = Prompts!Idle
  BY <1>4, IdleSound DEF EditSound, Editing, Prompts!Idle, Prompts!Content
<1>5. CASE edit'[a] = [edit[a] EXCEPT !.at = "number", !.after = Prompts!Recorded(a)]
  <2>1. Prompts!Recorded(a) \in Prompts!Content /\ (kind = "artifact" => Prompts!Recorded(a) = edit[a].after)
    BY <1>1, <1>2 DEF Prompts!Recorded
  <2>2. edit'[a].at = "number" /\ edit'[a].target = edit[a].target /\ edit'[a].after = Prompts!Recorded(a)
    BY <1>2, <1>5
  <2>3. Restores([snapshot |-> edit[a].after, target |-> edit[a].target])'
    BY <1>1, <1>3, <2>1, <2>2 DEF Restores
  <2>4. edit'[a] \in [at : {"write", "reread", "number"}, before : Prompts!Content,
                  target : 0..VersionMax, after : Prompts!Content]
    BY <1>2, <1>5, <2>1
  <2> QED BY <2>2, <2>3, <2>4 DEF EditSound, Editing, Prompts!Content
<1> QED BY <1>3, <1>4, <1>5

LEMMA NumberSound ==
  ASSUME PromptInv, [Prompts!Next]_(Prompts!vars), NEW a \in Editor, Prompts!Number(a),
         Prompts!PromptAssumption
  PROVE  EditSound(a)'
<1>1. /\ DOMAIN edit = Editor /\ edit[a].at = "number" /\ Editing(a)
      /\ Restores([snapshot |-> edit[a].after, target |-> edit[a].target])
      /\ Len(history) \in 1..VersionMax /\ Len(history) < VersionMax
  BY DEF PromptInv, Prompts!Number, Prompts!Latest
<1>2. edit[a] \in [at : {"write", "reread", "number"}, before : Prompts!Content,
                  target : 0..VersionMax, after : Prompts!Content]
  BY <1>1 DEF Editing, Prompts!Idle
<1> DEFINE row == [snapshot |-> edit[a].after, target |-> edit[a].target]
<1>3. kind' = kind /\ history' = history
      /\ edit'[a] = [at |-> "append", version |-> Len(history) + 1, row |-> row]
  BY <1>1 DEF Prompts!Number, Prompts!Goto, Prompts!NextVersion, Prompts!Latest
<1>4. row \in [snapshot : Prompts!Content, target : 0..VersionMax]
  BY <1>2
<1>5. Restores(row) /\ (kind = "artifact" => row.target < Len(history) + 1)
  BY <1>1, <1>2 DEF Restores
<1> HIDE DEF row
<1>6. edit'[a].at = "append" /\ edit'[a].row = row /\ edit'[a].version = Len(history) + 1
  BY <1>3
<1>7. Len(history) + 1 \in 1..VersionMax /\ VersionMax \in Nat
  BY <1>1 DEF Prompts!PromptAssumption
<1>8. Editing(a)'
  BY <1>3, <1>4, <1>7 DEF Editing, Prompts!Content
<1>9. Restores(edit[a].row)'
  BY <1>3, <1>5, <1>6 DEF Restores
<1>10. edit'[a].version \in 1..(Len(history') + 1)
  BY <1>1, <1>3, <1>6, <1>7
<1> QED BY <1>3, <1>5, <1>6, <1>8, <1>9, <1>10 DEF EditSound

(* A step is sound for its administrator, for the others and for the row   *)
(* that it appends.                                                        *)
LEMMA EditsSound ==
  ASSUME PromptInv, [Prompts!Next]_(Prompts!vars), Prompts!PromptAssumption
  PROVE  /\ \A a \in Editor : EditSound(a)'
         /\ DOMAIN edit' = Editor /\ kind' = kind
         /\ content' \in Prompts!Content /\ dropped' \subseteq Prompts!Content
         /\ Covered(content)'
<1>0. /\ DOMAIN edit = Editor /\ \A a \in Editor : Editing(a) /\ EditSound(a)
      /\ content \in Prompts!Content /\ dropped \subseteq Prompts!Content /\ Covered(content)
  BY DEF PromptInv, EditSound
<1>c. ASSUME content' = content PROVE Covered(content)'
  <2>1. PICK x : x = content
    OBVIOUS
  <2>2. Covered(x)'
    BY <1>0, <2>1, CoverStays
  <2> QED BY <1>c, <2>1, <2>2 DEF Covered, Pending
<1>o. ASSUME NEW a \in Editor, kind' = kind, EditSound(a)', \E e : Prompts!Goto(a, e)
      PROVE  (\A b \in Editor : EditSound(b)') /\ DOMAIN edit' = Editor
  <2>1. DOMAIN edit' = Editor /\ \A b \in Editor : b # a => edit'[b] = edit[b]
    BY <1>0, <1>o DEF Prompts!Goto
  <2> QED BY <1>o, <2>1, OthersSound
<1>1. CASE UNCHANGED Prompts!vars
  <2>1. kind' = kind /\ content' = content /\ edit' = edit /\ dropped' = dropped
    BY <1>1 DEF Prompts!vars
  <2>2. \A a \in Editor : EditSound(a)'
    BY <2>1, OthersSound
  <2> QED BY <1>0, <1>c, <2>1, <2>2 DEF Prompts!Content
<1>2. ASSUME NEW a \in Editor, NEW patch, NEW target,
             target = 0 \/ (target \in 1..Len(history) /\ patch = history[target].snapshot),
             target = 0 => \E F \in SUBSET Field : patch \in [F -> Text],
             Prompts!Read(a, patch, target)
      PROVE  /\ \A b \in Editor : EditSound(b)'
             /\ DOMAIN edit' = Editor /\ kind' = kind /\ content' = content /\ dropped' = dropped
  <2>1. EditSound(a)'
    BY <1>2, ReadSound
  <2>2. kind' = kind /\ content' = content /\ dropped' = dropped /\ \E e : Prompts!Goto(a, e)
    BY <1>2 DEF Prompts!Read
  <2> QED BY <1>o, <2>1, <2>2
<1>3. ASSUME NEW a \in Editor, Prompts!Write(a)
      PROVE  /\ \A b \in Editor : EditSound(b)'
             /\ DOMAIN edit' = Editor /\ kind' = kind /\ content' = edit[a].after /\ dropped' = dropped
             /\ content' \in Prompts!Content /\ Covered(content)'
  <2>1. EditSound(a)' /\ Covered(content)'
    BY <1>3, WriteSound
  <2>2. kind' = kind /\ content' = edit[a].after /\ dropped' = dropped /\ \E e : Prompts!Goto(a, e)
    BY <1>3 DEF Prompts!Write
  <2>3. edit[a].after \in Prompts!Content
    BY <1>0, <1>3 DEF Prompts!Write, Editing, Prompts!Idle
  <2> QED BY <1>o, <2>1, <2>2, <2>3
<1>4. ASSUME NEW a \in Editor, Prompts!Audit(a)
      PROVE  /\ \A b \in Editor : EditSound(b)'
             /\ DOMAIN edit' = Editor /\ kind' = kind /\ content' = content
             /\ dropped' \subseteq Prompts!Content
  <2>1. EditSound(a)'
    BY <1>4, AuditSound
  <2>2. kind' = kind /\ content' = content /\ (\E e : Prompts!Goto(a, e))
        /\ dropped' \in {dropped, dropped \cup {edit[a].after}}
    BY <1>4 DEF Prompts!Audit
  <2>3. edit[a].after \in Prompts!Content
    BY <1>0, <1>4 DEF Prompts!Audit, Editing, Prompts!Idle
  <2> QED BY <1>0, <1>o, <2>1, <2>2, <2>3
<1>5. ASSUME NEW a \in Editor, Prompts!Number(a)
      PROVE  /\ \A b \in Editor : EditSound(b)'
             /\ DOMAIN edit' = Editor /\ kind' = kind /\ content' = content /\ dropped' = dropped
  <2>1. EditSound(a)'
    BY <1>5, NumberSound
  <2>2. kind' = kind /\ content' = content /\ dropped' = dropped /\ \E e : Prompts!Goto(a, e)
    BY <1>5 DEF Prompts!Number
  <2> QED BY <1>o, <2>1, <2>2
<1>6. ASSUME NEW a \in Editor, Prompts!Append_(a)
      PROVE  /\ \A b \in Editor : EditSound(b)'
             /\ DOMAIN edit' = Editor /\ kind' = kind /\ content' = content
             /\ dropped' \subseteq Prompts!Content
  <2>1. kind' = kind /\ content' = content /\ Prompts!Goto(a, Prompts!Idle)
        /\ dropped' \in {dropped, dropped \cup {edit[a].row.snapshot}}
    BY <1>6 DEF Prompts!Append_
  <2>2. edit'[a] = Prompts!Idle
    BY <1>0, <2>1 DEF Prompts!Goto
  <2>3. EditSound(a)'
    BY <2>2 DEF EditSound, Editing, Prompts!Idle
  <2>4. edit[a].row.snapshot \in Prompts!Content
    BY <1>0, <1>6 DEF Prompts!Append_, Editing, Prompts!Idle
  <2> QED BY <1>0, <1>o, <2>1, <2>3, <2>4
<1>7. ASSUME NEW a \in Editor, Prompts!Abort(a)
      PROVE  /\ \A b \in Editor : EditSound(b)'
             /\ DOMAIN edit' = Editor /\ kind' = kind /\ content' = content
             /\ dropped' \subseteq Prompts!Content
  <2>1. kind' = kind /\ content' = content /\ Prompts!Goto(a, Prompts!Idle)
    BY <1>7 DEF Prompts!Abort
  <2>2. edit'[a] = Prompts!Idle
    BY <1>0, <2>1 DEF Prompts!Goto
  <2>3. EditSound(a)'
    BY <2>2 DEF EditSound, Editing, Prompts!Idle
  <2>4. CASE edit[a] \in [at : {"write", "reread", "number"}, before : Prompts!Content,
                          target : 0..VersionMax, after : Prompts!Content]
    <3>1. edit[a].at \in {"write", "reread", "number"} /\ edit[a].after \in Prompts!Content
      BY <2>4
    <3>2. dropped' \in {dropped, dropped \cup {edit[a].after}}
      BY <1>7, <3>1 DEF Prompts!Abort
    <3> QED BY <1>0, <1>o, <2>1, <2>3, <3>1, <3>2
  <2>5. CASE edit[a] \in [at : {"append"}, version : 1..VersionMax,
                row : [snapshot : Prompts!Content, target : 0..VersionMax]]
    <3>1. edit[a].at = "append" /\ edit[a].row.snapshot \in Prompts!Content
      BY <2>5
    <3>2. dropped' = dropped \cup {edit[a].row.snapshot}
      BY <1>7, <3>1 DEF Prompts!Abort
    <3> QED BY <1>0, <1>o, <2>1, <2>3, <3>1, <3>2
  <2> QED BY <1>0, <1>7, <2>4, <2>5 DEF Prompts!Abort, Editing
<1>8. dropped' = dropped => dropped' \subseteq Prompts!Content'
  BY <1>0 DEF Prompts!Content
<1> QED BY <1>0, <1>c, <1>1, <1>2, <1>3, <1>4, <1>5, <1>6, <1>7, PromptStep

LEMMA RowsSound ==
  ASSUME PromptInv, [Prompts!Next]_(Prompts!vars), Prompts!PromptAssumption, NEW v \in 2..Len(history')
  PROVE  Restores(history[v])' /\ (kind' = "artifact" => history'[v].target < v)
<1>1. /\ Len(history) \in 1..VersionMax /\ Len(history) \in Nat
      /\ Len(history') \in {Len(history), Len(history) + 1}
      /\ \A w \in 1..Len(history) : history'[w] = history[w]
  BY PromptsGrow, LenProperties DEF PromptInv
<1>2. kind' = kind /\ kind \in {"artifact", "contract"}
  BY EditsSound DEF PromptInv
<1>r. ASSUME NEW row, row = history'[v], Restores(row) PROVE Restores(history[v])'
  <2>1. Restores(row)'
    BY <1>r, RestoresStays
  <2> QED BY <1>r, <2>1 DEF Restores
<1>3. CASE v \in 2..Len(history)
  <2>1. history'[v] = history[v] /\ Restores(history[v]) /\ (kind = "artifact" => history[v].target < v)
    BY <1>1, <1>3 DEF PromptInv
  <2>2. PICK row : row = history[v]
    OBVIOUS
  <2>3. Restores(row)
    BY <2>1, <2>2
  <2>4. Restores(history[v])'
    BY <1>r, <2>1, <2>2, <2>3
  <2> QED BY <1>2, <2>1, <2>4
<1>4. CASE v \notin 2..Len(history)
  <2>1. v = Len(history) + 1 /\ Len(history') = Len(history) + 1
    BY <1>1, <1>4
  <2>2. PICK a \in Editor : Prompts!Append_(a) /\ edit[a].version \notin 1..Len(history)
    <3>1. history' # history
      BY <1>1, <2>1
    <3>2. ASSUME NEW a \in Editor, Prompts!Append_(a) PROVE edit[a].version \notin 1..Len(history)
      BY <3>1, <3>2 DEF Prompts!Append_, Prompts!Latest
    <3>3. ~UNCHANGED Prompts!vars
      BY <3>1 DEF Prompts!vars
    <3>4. ASSUME NEW a \in Editor PROVE /\ \A patch, target : ~Prompts!Read(a, patch, target)
                                       /\ ~Prompts!Write(a) /\ ~Prompts!Audit(a)
                                       /\ ~Prompts!Number(a) /\ ~Prompts!Abort(a)
      BY <3>1 DEF Prompts!Read, Prompts!Write, Prompts!Audit, Prompts!Number, Prompts!Abort
    <3> QED BY <3>2, <3>3, <3>4, PromptStep
  <2>3. edit[a].at = "append" /\ edit[a].version \in 1..(Len(history) + 1) /\ edit[a].version \in Nat
        /\ Restores(edit[a].row) /\ (kind = "artifact" => edit[a].row.target < edit[a].version)
        /\ edit[a].row \in [snapshot : Prompts!Content, target : 0..VersionMax]
    BY <1>1, <2>2 DEF Prompts!Append_, PromptInv, Editing, Prompts!Idle
  <2>4. edit[a].version = v
    BY <1>1, <2>1, <2>2, <2>3
  <2>5. history'[v] = edit[a].row
    <3>1. history' = [w \in 1..(Len(history) + 1) |->
                       IF w = Len(history) + 1 THEN edit[a].row ELSE history[w]]
      BY <2>1, <2>2, <2>4 DEF Prompts!Append_, Prompts!Latest
    <3> QED BY <2>1, <3>1, <1>1
  <2>6. PICK row : row = edit[a].row
    OBVIOUS
  <2>7. Restores(history[v])'
    BY <1>r, <2>3, <2>5, <2>6
  <2> QED BY <1>2, <2>3, <2>4, <2>5, <2>7
<1> QED BY <1>3, <1>4

LEMMA PromptInit ==
  ASSUME Prompts!Init, Prompts!PromptAssumption PROVE PromptInv
<1>1. content \in Prompts!Content /\ kind \in {"artifact", "contract"} /\ dropped = {}
  BY DEF Prompts!Init, Prompts!Content
<1> DEFINE row == [snapshot |-> content, target |-> 1]
<1> DEFINE R == [snapshot : Prompts!Content, target : 0..VersionMax]
<1>2. row \in R /\ history = <<row>> /\ row.snapshot = content
  BY <1>1 DEF Prompts!Init, Prompts!PromptAssumption
<1> HIDE DEF row, R
<1>3. history \in Seq(R) /\ Len(history) = 1 /\ history[1] = row
  BY <1>2
<1>4. history \in Seq([snapshot : Prompts!Content, target : 0..VersionMax])
  BY <1>3 DEF R
<1>5. Covered(content)
  BY <1>2, <1>3 DEF Covered, Prompts!Snapshots, Prompts!Latest
<1>6. DOMAIN edit = Editor /\ \A a \in Editor : edit[a] = Prompts!Idle
  BY DEF Prompts!Init
<1>7. \A a \in Editor : EditSound(a)
  BY <1>6, IdleSound
<1>8. Len(history) \in 1..VersionMax /\ 2..Len(history) = {}
  BY <1>3 DEF Prompts!PromptAssumption
<1> QED BY <1>1, <1>4, <1>5, <1>6, <1>7, <1>8 DEF PromptInv, EditSound

LEMMA PromptInductive ==
  ASSUME Prompts!PromptAssumption
  PROVE  /\ Prompts!Init => PromptInv
         /\ PromptInv /\ [Prompts!Next]_(Prompts!vars) => PromptInv'
<1>1. Prompts!Init => PromptInv
  BY PromptInit
<1>2. PromptInv /\ [Prompts!Next]_(Prompts!vars) => PromptInv'
  <2> SUFFICES ASSUME PromptInv, [Prompts!Next]_(Prompts!vars) PROVE PromptInv'
    OBVIOUS
  <2>1. /\ \A a \in Editor : EditSound(a)'
        /\ DOMAIN edit' = Editor /\ kind' = kind
        /\ content' \in Prompts!Content /\ dropped' \subseteq Prompts!Content
        /\ Covered(content)'
    BY EditsSound
  <2>2. /\ history' \in Seq([snapshot : Prompts!Content, target : 0..VersionMax])
        /\ Len(history') \in 1..VersionMax
    BY PromptsGrow
  <2>3. \A v \in 2..Len(history') : Restores(history[v])' /\ (kind' = "artifact" => history'[v].target < v)
    BY RowsSound
  <2>4. kind \in {"artifact", "contract"}
    BY DEF PromptInv
  <2> QED BY <2>1, <2>2, <2>3, <2>4 DEF PromptInv, EditSound, Prompts!Content
<1> QED BY <1>1, <1>2

LEMMA PromptsHold == ASSUME PromptInv PROVE Prompts!TypeOK /\ Prompts!PromptHistorySound
<1>1. Prompts!TypeOK
  BY DEF PromptInv, Prompts!TypeOK
<1>2. Prompts!InForceIsVersioned
  BY DEF PromptInv, Covered, Pending, Prompts!InForceIsVersioned, Prompts!InFlight
<1>3. Prompts!RollbackRestores
  BY DEF PromptInv, Restores, Prompts!RollbackRestores, Prompts!Latest
<1> QED BY <1>1, <1>2, <1>3 DEF Prompts!PromptHistorySound

(* Versions keep their numbers and contents. *)
LEMMA HistoryGrows ==
  ASSUME Prompts!PromptAssumption, PromptInv, [Prompts!Next]_(Prompts!vars)
  PROVE  Prompts!HistoryOnlyGrowsStep
BY PromptsGrow DEF Prompts!HistoryOnlyGrowsStep, Prompts!Latest

-----------------------------------------------------------------------------
(* The release mission.                                                    *)

Verdict == {"completed", "review_required"}
LaneRow(id, l, outcome) == [source |-> "lane", id |-> id, lane |-> l, outcome |-> outcome]
FindingRow ==
  [source : {"suite"}, id : Nat]
  \cup [source : {"lane"}, id : Nat, lane : Lane, outcome : {"ready", "review_required"}]
  \cup [source : {"release"}, id : Nat, version : Version, outcome : Verdict]
Stages ==
  {"baseline", "qa", "challenge", "baseline finding", "qa finding", "challenge finding",
   "autopilot", "lanes", "record", "close", "done"}
Working(n) ==
  [at : Stages, kind : Release!Part \cup {"mission"}, id : 1..n,
   result : [baseline : BOOLEAN, qa : BOOLEAN, lanes : SUBSET Lane], todo : SUBSET Lane]

ReleaseTyped ==
  /\ version \in Version /\ health \in HealthChoice
  /\ suites \in Seq([label : {"baseline", "qa", "challenge"}, ok : BOOLEAN])
  /\ findings \in Seq(FindingRow)
  /\ started \in 0..WorkMax
  /\ work \in [Operator -> {Release!Idle} \cup Working(started)]

(* An autopilot mission belongs to a request that is past it. *)
Before == {o \in Operator : work[o].at \in {"baseline", "qa", "challenge", "baseline finding",
                                            "qa finding", "challenge finding", "autopilot"}}
RunsCounted == IsFiniteSet(Before) /\ agentRuns \in Nat /\ agentRuns + Cardinality(Before) <= started

(* What a request has recorded of its lanes. *)
Recorded(o) ==
  /\ work[o].at \in {"record", "close"} =>
       \A l \in Lane \ work[o].todo : \E j \in DOMAIN findings :
         findings[j] = LaneRow(work[o].id, l, Release!LaneOutcome(o, l))
  /\ work[o].at = "close" => work[o].todo = {}

ReleaseInv ==
  /\ ReleaseTyped /\ RunsCounted
  /\ \A o \in Operator : Recorded(o)
  /\ Release!CompletedIsRecorded

(* A request does one step, and the others wait. *)
LEMMA WorkStep ==
  ASSUME ReleaseTyped, NEW o \in Operator, NEW w, work' = [work EXCEPT ![o] = w],
         w \in {Release!Idle} \cup Working(started'), started \in Nat, started' \in Nat, started <= started'
  PROVE  /\ work' \in [Operator -> {Release!Idle} \cup Working(started')]
         /\ work'[o] = w /\ \A p \in Operator \ {o} : work'[p] = work[p]
<1>1. Working(started) \subseteq Working(started')
  BY DEF Working
<1>2. work \in [Operator -> {Release!Idle} \cup Working(started')]
  BY <1>1 DEF ReleaseTyped
<1> QED BY <1>2

LEMMA IdleWaits ==
  /\ Release!Idle.at = "idle"
  /\ \A n : \A w \in Working(n) : w.at # "idle"
BY DEF Release!Idle, Working, Stages

LEMMA ReleaseTypedStep ==
  ASSUME Release!ReleaseAssumption, ReleaseTyped, [Release!Next]_(Release!vars)
  PROVE  ReleaseTyped'
<1> DEFINE Typed == work' \in [Operator -> {Release!Idle} \cup Working(started')]
<1>0. /\ version \in Version /\ health \in HealthChoice /\ started \in 0..WorkMax /\ started \in Nat
      /\ WorkMax \in Nat
      /\ health \in [baseline : BOOLEAN, qa : BOOLEAN, challenge : BOOLEAN, calm : BOOLEAN, lanes : SUBSET Lane]
      /\ suites \in Seq([label : {"baseline", "qa", "challenge"}, ok : BOOLEAN])
      /\ findings \in Seq(FindingRow)
      /\ \A o \in Operator : work[o] \in {Release!Idle} \cup Working(started)
      /\ \A o \in Operator : work[o].at # "idle" => work[o] \in Working(started)
      /\ work \in [Operator -> {Release!Idle} \cup Working(started)]
  BY IdleWaits DEF ReleaseTyped, Release!ReleaseAssumption
<1>1. ASSUME NEW o \in Operator, NEW kind_ \in Release!Part \cup {"mission"}, Release!Start(o, kind_)
      PROVE  Typed /\ started' \in 0..WorkMax /\ UNCHANGED <<version, health, suites, agentRuns, findings>>
  <2> DEFINE w == [at |-> IF kind_ = "mission" THEN "baseline" ELSE kind_, kind |-> kind_,
                   id |-> started + 1, result |-> [baseline |-> FALSE, qa |-> FALSE, lanes |-> {}],
                   todo |-> {}]
  <2>1. work' = [work EXCEPT ![o] = w] /\ started' = started + 1
    BY <1>1 DEF Release!Start
  <2>2. w \in Working(started')
    <3>1. started + 1 \in 1..started'
      BY <1>0, <2>1
    <3>2. (IF kind_ = "mission" THEN "baseline" ELSE kind_) \in Stages
      BY DEF Stages, Release!Part
    <3> QED BY <3>1, <3>2 DEF Working
  <2> HIDE DEF w
  <2>3. started' \in 0..WorkMax /\ started' \in Nat /\ started <= started'
    BY <1>0, <1>1, <2>1 DEF Release!Start
  <2>4. Typed
    BY <2>1, <2>2, <2>3, <1>0, WorkStep
  <2> QED BY <1>1, <2>3, <2>4 DEF Release!Start
<1>2. ASSUME NEW o \in Operator, Release!RunSuite(o)
      PROVE  Typed /\ UNCHANGED <<version, health, agentRuns, findings, started>>
             /\ suites' \in Seq([label : {"baseline", "qa", "challenge"}, ok : BOOLEAN])
  <2>1. work[o].at \in {"baseline", "qa", "challenge"} /\ work[o] \in Working(started)
    BY <1>0, <1>2 DEF Release!RunSuite
  <2>2. PICK b \in BOOLEAN : b = health[work[o].at]
    BY <1>0, <2>1
  <2>3. suites' = Append(suites, [label |-> work[o].at, ok |-> b])
    BY <1>2, <2>2 DEF Release!RunSuite
  <2>4. PICK f \in Stages : f = Release!FindingOf(work[o].at)
    BY <2>1 DEF Release!FindingOf, Stages
  <2>5. PICK r \in [baseline : BOOLEAN, qa : BOOLEAN, lanes : SUBSET Lane] :
          r = IF work[o].at = "challenge" THEN work[o].result
              ELSE [work[o].result EXCEPT ![work[o].at] = b]
    <3>1. work[o].result \in [baseline : BOOLEAN, qa : BOOLEAN, lanes : SUBSET Lane]
      BY <2>1 DEF Working
    <3> QED BY <2>1, <2>2, <3>1
  <2>6. work' = [work EXCEPT ![o] = [work[o] EXCEPT !.at = f, !.result = r]]
    BY <1>0, <1>2, <2>1, <2>2, <2>4, <2>5 DEF Release!RunSuite
  <2>7. [work[o] EXCEPT !.at = f, !.result = r] \in Working(started)
    BY <2>1 DEF Working
  <2>8. started' = started
    BY <1>2 DEF Release!RunSuite
  <2>9. Typed
    BY <1>0, <2>6, <2>7, <2>8, WorkStep
  <2>10. suites' \in Seq([label : {"baseline", "qa", "challenge"}, ok : BOOLEAN])
    BY <1>0, <2>1, <2>2, <2>3, AppendProperties
  <2> QED BY <1>2, <2>9, <2>10 DEF Release!RunSuite
<1>3. ASSUME NEW o \in Operator, Release!FindSuite(o)
      PROVE  Typed /\ UNCHANGED <<version, health, suites, agentRuns, started>>
             /\ findings' \in Seq(FindingRow)
  <2>1. work[o] \in Working(started) /\ work[o].id \in Nat
    <3>1. work[o].at # "idle"
      BY <1>3 DEF Release!FindSuite
    <3>2. work[o] \in Working(started)
      BY <1>0, <3>1
    <3> QED BY <1>0, <3>2 DEF Working
  <2>2. PICK f \in Stages : work' = [work EXCEPT ![o] = [work[o] EXCEPT !.at = f]]
    BY <1>3, <1>0 DEF Release!FindSuite, Release!After, Stages
  <2>3. [work[o] EXCEPT !.at = f] \in Working(started)
    BY <2>1 DEF Working
  <2>4. [source |-> "suite", id |-> work[o].id] \in FindingRow
    BY <2>1 DEF FindingRow
  <2>5. findings' = Append(findings, [source |-> "suite", id |-> work[o].id]) /\ started' = started
    BY <1>3 DEF Release!FindSuite, Release!Found
  <2>6. findings' \in Seq(FindingRow)
    BY <1>0, <2>4, <2>5, AppendProperties
  <2>7. Typed
    BY <1>0, <2>2, <2>3, <2>5, WorkStep
  <2> QED BY <1>3, <2>6, <2>7 DEF Release!FindSuite
<1>4. ASSUME NEW o \in Operator, Release!Autopilot(o) \/ Release!PlanLanes(o) \/ Release!LanesDone(o)
      PROVE  Typed /\ UNCHANGED <<version, health, suites, findings, started>>
  <2>1. work[o] \in Working(started)
    BY <1>0, <1>4 DEF Release!Autopilot, Release!PlanLanes, Release!LanesDone
  <2>2. /\ work[o].result \in [baseline : BOOLEAN, qa : BOOLEAN, lanes : SUBSET Lane]
        /\ work[o].todo \in SUBSET Lane
    BY <2>1 DEF Working
  <2>3. PICK f \in Stages, t \in SUBSET Lane, r \in [baseline : BOOLEAN, qa : BOOLEAN, lanes : SUBSET Lane] :
          work' = [work EXCEPT ![o] = [work[o] EXCEPT !.at = f, !.todo = t, !.result = r]]
    <3>1. CASE Release!Autopilot(o) \/ Release!LanesDone(o)
      <4>1. PICK f \in Stages : work' = [work EXCEPT ![o].at = f]
        BY <3>1 DEF Release!Autopilot, Release!LanesDone, Release!After, Stages
      <4>2. [work[o] EXCEPT !.at = f]
            = [work[o] EXCEPT !.at = f, !.todo = work[o].todo, !.result = work[o].result]
        BY <2>1 DEF Working
      <4> QED BY <2>2, <4>1, <4>2
    <3>2. CASE Release!PlanLanes(o)
      <4>1. [work[o].result EXCEPT !.lanes = health.lanes]
            \in [baseline : BOOLEAN, qa : BOOLEAN, lanes : SUBSET Lane]
        BY <1>0, <2>2
      <4>2. work' = [work EXCEPT ![o] = [work[o] EXCEPT !.at = "record", !.todo = Lane,
                                   !.result = [work[o].result EXCEPT !.lanes = health.lanes]]]
        <5>1. work' = [work EXCEPT ![o].at = "record", ![o].todo = Lane, ![o].result.lanes = health.lanes]
          BY <3>2 DEF Release!PlanLanes
        <5> QED BY <5>1, <1>0
      <4> QED BY <4>1, <4>2 DEF Stages
    <3> QED BY <1>4, <3>1, <3>2
  <2>4. [work[o] EXCEPT !.at = f, !.todo = t, !.result = r] \in Working(started)
    BY <2>1 DEF Working
  <2>5. UNCHANGED <<version, health, suites, findings, started>>
    BY <1>4 DEF Release!Autopilot, Release!PlanLanes, Release!LanesDone
  <2> QED BY <1>0, <2>3, <2>4, <2>5, WorkStep
<1>5. ASSUME NEW o \in Operator, Release!RecordLane(o)
      PROVE  Typed /\ UNCHANGED <<version, health, suites, agentRuns, started>>
             /\ findings' \in Seq(FindingRow)
  <2>1. work[o] \in Working(started) /\ work[o].id \in Nat /\ work[o].todo \in SUBSET Lane
    <3>1. work[o].at # "idle"
      BY <1>5 DEF Release!RecordLane
    <3>2. work[o] \in Working(started)
      BY <1>0, <3>1
    <3> QED BY <1>0, <3>2 DEF Working
  <2>2. PICK l \in work[o].todo :
          /\ findings' = Append(findings, LaneRow(work[o].id, l, Release!LaneOutcome(o, l)))
          /\ work' = [work EXCEPT ![o].todo = @ \ {l}]
    BY <1>5 DEF Release!RecordLane, Release!Found, LaneRow
  <2>3. LaneRow(work[o].id, l, Release!LaneOutcome(o, l)) \in FindingRow
    BY <2>1 DEF LaneRow, FindingRow, Release!LaneOutcome
  <2>4. work' = [work EXCEPT ![o] = [work[o] EXCEPT !.todo = work[o].todo \ {l}]]
    BY <2>2, <1>0
  <2>5. [work[o] EXCEPT !.todo = work[o].todo \ {l}] \in Working(started)
    BY <2>1 DEF Working
  <2>6. findings' \in Seq(FindingRow)
    BY <1>0, <2>2, <2>3, AppendProperties
  <2>7. UNCHANGED <<version, health, suites, agentRuns, started>>
    BY <1>5 DEF Release!RecordLane
  <2> QED BY <1>0, <2>4, <2>5, <2>6, <2>7, WorkStep
<1>6. ASSUME NEW o \in Operator, Release!Close(o)
      PROVE  Typed /\ UNCHANGED <<version, health, suites, agentRuns, started>>
             /\ findings' \in Seq(FindingRow)
  <2>1. work[o] \in Working(started) /\ work[o].id \in Nat
    <3>1. work[o].at # "idle"
      BY <1>6 DEF Release!Close
    <3>2. work[o] \in Working(started)
      BY <1>0, <3>1
    <3> QED BY <1>0, <3>2 DEF Working
  <2>2. PICK v \in Verdict :
          findings' = Append(findings, [source |-> "release", id |-> work[o].id, version |-> version, outcome |-> v])
    BY <1>6 DEF Release!Close, Release!Found, Verdict
  <2>3. [source |-> "release", id |-> work[o].id, version |-> version, outcome |-> v] \in FindingRow
    BY <1>0, <2>1 DEF FindingRow
  <2>4. work' = [work EXCEPT ![o] = [work[o] EXCEPT !.at = "done"]]
    BY <1>6, <1>0 DEF Release!Close
  <2>5. [work[o] EXCEPT !.at = "done"] \in Working(started)
    BY <2>1 DEF Working, Stages
  <2>6. findings' \in Seq(FindingRow)
    BY <1>0, <2>2, <2>3, AppendProperties
  <2>7. UNCHANGED <<version, health, suites, agentRuns, started>>
    BY <1>6 DEF Release!Close
  <2> QED BY <1>0, <2>4, <2>5, <2>6, <2>7, WorkStep
<1>7. ASSUME NEW o \in Operator, Release!Finish(o) \/ Release!Abort(o)
      PROVE  Typed /\ UNCHANGED <<version, health, suites, agentRuns, findings, started>>
  <2>1. work' = [work EXCEPT ![o] = Release!Idle] /\ UNCHANGED <<version, health, suites, agentRuns, findings, started>>
    BY <1>7 DEF Release!Finish, Release!Abort
  <2> QED BY <1>0, <2>1, WorkStep
<1>8. ASSUME Release!Restart
      PROVE  Typed /\ version' \in Version /\ UNCHANGED <<health, suites, agentRuns, findings, started>>
  BY <1>0, <1>8 DEF Release!Restart
<1>9. ASSUME Release!Change
      PROVE  Typed /\ health' \in HealthChoice /\ UNCHANGED <<version, suites, agentRuns, findings, started>>
  BY <1>0, <1>9 DEF Release!Change
<1>10. ASSUME UNCHANGED Release!vars
       PROVE  Typed /\ UNCHANGED <<version, health, suites, agentRuns, findings, started>>
  BY <1>0, <1>10 DEF Release!vars
<1> QED BY <1>0, <1>1, <1>2, <1>3, <1>4, <1>5, <1>6, <1>7, <1>8, <1>9, <1>10 DEF Release!Next, ReleaseTyped

LEMMA AtWork ==
  ASSUME ReleaseTyped, NEW o \in Operator, work[o].at # "idle" PROVE work[o] \in Working(started)
BY IdleWaits DEF ReleaseTyped

(* An autopilot run is counted when its request passes the stage. *)
LEMMA RunsStep ==
  ASSUME Release!ReleaseAssumption, ReleaseTyped, RunsCounted, [Release!Next]_(Release!vars)
  PROVE  RunsCounted'
<1>0. /\ started \in Nat /\ agentRuns \in Nat /\ DOMAIN work = Operator
      /\ IsFiniteSet(Before) /\ agentRuns + Cardinality(Before) <= started
      /\ Cardinality(Before) \in Nat
  BY FS_CardinalityType DEF ReleaseTyped, RunsCounted
<1> DEFINE Kept == UNCHANGED <<agentRuns, started>> /\ Before' \subseteq Before
<1>1. ASSUME NEW o \in Operator, NEW kind_, Release!Start(o, kind_) PROVE RunsCounted'
  <2>1. agentRuns' = agentRuns /\ started' = started + 1 /\ \A p \in Operator \ {o} : work'[p] = work[p]
    BY <1>0, <1>1 DEF Release!Start
  <2>2. Before' \subseteq Before \cup {o}
    BY <2>1 DEF Before
  <2>3. IsFiniteSet(Before \cup {o}) /\ Cardinality(Before \cup {o}) \in Nat
        /\ Cardinality(Before \cup {o}) <= Cardinality(Before) + 1
    <3>1. IsFiniteSet(Before \cup {o})
          /\ Cardinality(Before \cup {o}) \in {Cardinality(Before), Cardinality(Before) + 1}
      BY <1>0, FS_AddElement
    <3> QED BY <1>0, <3>1, FS_CardinalityType
  <2>4. IsFiniteSet(Before') /\ Cardinality(Before') \in Nat
        /\ Cardinality(Before') <= Cardinality(Before \cup {o})
    BY <2>2, <2>3, FS_Subset, FS_CardinalityType
  <2>5. agentRuns' + Cardinality(Before') <= started'
    BY <1>0, <2>1, <2>3, <2>4
  <2> QED BY <1>0, <2>1, <2>4, <2>5 DEF RunsCounted
<1>2. ASSUME NEW o \in Operator, Release!Autopilot(o) PROVE RunsCounted'
  <2>1. /\ agentRuns' = agentRuns + 1 /\ started' = started
        /\ \A p \in Operator \ {o} : work'[p] = work[p]
        /\ work[o].at = "autopilot" /\ work'[o].at \in {"lanes", "done"}
    BY <1>0, <1>2 DEF Release!Autopilot, Release!After
  <2>2. o \in Before /\ Before' \subseteq Before \ {o}
    BY <2>1 DEF Before
  <2>3. IsFiniteSet(Before \ {o}) /\ Cardinality(Before \ {o}) = Cardinality(Before) - 1
    BY <1>0, <2>2, FS_RemoveElement
  <2>4. IsFiniteSet(Before') /\ Cardinality(Before') \in Nat
        /\ Cardinality(Before') <= Cardinality(Before) - 1
    BY <2>2, <2>3, FS_Subset, FS_CardinalityType
  <2>5. agentRuns' + Cardinality(Before') <= started'
    BY <1>0, <2>1, <2>4
  <2> QED BY <1>0, <2>1, <2>4, <2>5 DEF RunsCounted
<1>3. ASSUME NEW o \in Operator,
             Release!RunSuite(o) \/ Release!FindSuite(o)
      PROVE  Kept
  <2>1. UNCHANGED <<agentRuns, started>> /\ (\A p \in Operator \ {o} : work'[p] = work[p])
        /\ work[o].at \in {"baseline", "qa", "challenge", "baseline finding", "qa finding", "challenge finding"}
    BY <1>0, <1>3 DEF Release!RunSuite, Release!FindSuite
  <2> QED BY <2>1 DEF Before
<1>4. ASSUME NEW o \in Operator,
             Release!PlanLanes(o) \/ Release!RecordLane(o) \/ Release!LanesDone(o)
             \/ Release!Close(o) \/ Release!Finish(o) \/ Release!Abort(o)
      PROVE  Kept
  <2>1. UNCHANGED <<agentRuns, started>> /\ (\A p \in Operator \ {o} : work'[p] = work[p])
    BY <1>0, <1>4 DEF Release!PlanLanes, Release!RecordLane, Release!LanesDone, Release!Close,
                      Release!Finish, Release!Abort
  <2>2. work'[o].at \in {"record", "close", "done", "idle"}
    <3>1. CASE Release!Finish(o) \/ Release!Abort(o)
      BY <1>0, <3>1 DEF Release!Finish, Release!Abort, Release!Idle
    <3>2. CASE Release!PlanLanes(o) \/ Release!RecordLane(o) \/ Release!LanesDone(o) \/ Release!Close(o)
      <4>1. work[o] \in Working(started)
        BY <3>2, AtWork DEF Release!PlanLanes, Release!RecordLane, Release!LanesDone, Release!Close
      <4>2. DOMAIN work[o] = {"at", "kind", "id", "result", "todo"}
        BY <4>1 DEF Working
      <4> QED BY <1>0, <3>2, <4>2
           DEF Release!PlanLanes, Release!RecordLane, Release!LanesDone, Release!Close, Release!After
    <3> QED BY <1>4, <3>1, <3>2
  <2> QED BY <2>1, <2>2 DEF Before
<1>5. ASSUME Release!Restart \/ Release!Change \/ UNCHANGED Release!vars PROVE Kept
  <2>1. CASE Release!Restart
    BY <2>1 DEF Release!Restart, Before, Release!Idle
  <2>2. CASE Release!Change \/ UNCHANGED Release!vars
    <3>1. work' = work /\ UNCHANGED <<agentRuns, started>>
      BY <2>2 DEF Release!Change, Release!vars
    <3> QED BY <3>1 DEF Before
  <2> QED BY <1>5, <2>1, <2>2
<1>6. Kept => RunsCounted'
  <2> SUFFICES ASSUME Kept PROVE RunsCounted'
    OBVIOUS
  <2>1. IsFiniteSet(Before') /\ Cardinality(Before') \in Nat /\ Cardinality(Before') <= Cardinality(Before)
    BY <1>0, FS_Subset, FS_CardinalityType
  <2> QED BY <1>0, <2>1 DEF RunsCounted
<1> QED BY <1>1, <1>2, <1>3, <1>4, <1>5, <1>6 DEF Release!Next

(* Findings are only appended. *)
LEMMA FindingsGrow ==
  ASSUME ReleaseTyped, NEW f, findings' \in {findings, Append(findings, f)}
  PROVE  /\ \A j \in DOMAIN findings : j \in DOMAIN findings' /\ findings'[j] = findings[j]
         /\ DOMAIN findings = 1..Len(findings) /\ Len(findings) \in Nat
         /\ findings' = findings \/
              (DOMAIN findings' = 1..(Len(findings) + 1) /\ findings'[Len(findings) + 1] = f)
<1>1. findings \in Seq(FindingRow \cup {f})
  BY SeqMonotonic DEF ReleaseTyped
<1>2. DOMAIN findings = 1..Len(findings) /\ Len(findings) \in Nat
  BY <1>1, LenProperties
<1>3. CASE findings' = findings
  BY <1>2, <1>3
<1>4. CASE findings' = Append(findings, f)
  <2>1. /\ Len(findings') = Len(findings) + 1 /\ findings'[Len(findings) + 1] = f
        /\ \A j \in 1..Len(findings) : findings'[j] = findings[j]
        /\ findings' \in Seq(FindingRow \cup {f})
    BY <1>1, <1>4, AppendProperties
  <2>2. DOMAIN findings' = 1..(Len(findings) + 1)
    BY <2>1, LenProperties
  <2> QED BY <1>2, <2>1, <2>2
<1> QED BY <1>3, <1>4

(* What a request that waits has recorded stays recorded. *)
LEMMA RecordedStays ==
  ASSUME ReleaseTyped, NEW p \in Operator, Recorded(p), work'[p] = work[p],
         NEW f, findings' \in {findings, Append(findings, f)}
  PROVE  Recorded(p)'
<1>1. \A j \in DOMAIN findings : j \in DOMAIN findings' /\ findings'[j] = findings[j]
  BY FindingsGrow
<1> QED BY <1>1 DEF Recorded, LaneRow, Release!LaneOutcome

LEMMA RecordedStep ==
  ASSUME ReleaseTyped, \A o \in Operator : Recorded(o), [Release!Next]_(Release!vars), NEW p \in Operator
  PROVE  Recorded(p)'
<1>0. DOMAIN work = Operator
  BY DEF ReleaseTyped
<1>i. work'[p] = Release!Idle => Recorded(p)'
  BY DEF Recorded, Release!Idle
<1>o. ASSUME work'[p].at \notin {"record", "close"} PROVE Recorded(p)'
  BY <1>o DEF Recorded
<1>1. ASSUME NEW o \in Operator, NEW kind_ \in Release!Part \cup {"mission"}, Release!Start(o, kind_)
      PROVE  Recorded(p)'
  <2>1. findings' = findings /\ (p # o => work'[p] = work[p])
        /\ (p = o => work'[p].at \in Release!Part \cup {"baseline"})
    BY <1>0, <1>1 DEF Release!Start
  <2> QED BY <1>o, <2>1, RecordedStays DEF Release!Part
<1>2. ASSUME NEW o \in Operator, Release!RunSuite(o) \/ Release!Autopilot(o) PROVE Recorded(p)'
  <2>1. findings' = findings /\ (p # o => work'[p] = work[p])
    BY <1>0, <1>2 DEF Release!RunSuite, Release!Autopilot
  <2>0. DOMAIN work[o] = {"at", "kind", "id", "result", "todo"}
    BY <1>2, AtWork DEF Working, Release!RunSuite, Release!Autopilot
  <2>2. p = o => work'[p].at \notin {"record", "close"}
    BY <1>0, <1>2, <2>0 DEF Release!RunSuite, Release!Autopilot, Release!FindingOf, Release!After
  <2> QED BY <1>o, <2>1, <2>2, RecordedStays
<1>3. ASSUME NEW o \in Operator, Release!FindSuite(o) \/ Release!Close(o) PROVE Recorded(p)'
  <2>1. PICK f : findings' = Append(findings, f)
    BY <1>3 DEF Release!FindSuite, Release!Close, Release!Found
  <2>2. p # o => work'[p] = work[p]
    BY <1>0, <1>3 DEF Release!FindSuite, Release!Close
  <2>0. DOMAIN work[o] = {"at", "kind", "id", "result", "todo"}
    BY <1>3, AtWork DEF Working, Release!FindSuite, Release!Close
  <2>3. p = o => work'[p].at \notin {"record", "close"}
    BY <1>0, <1>3, <2>0 DEF Release!FindSuite, Release!Close, Release!After
  <2> QED BY <1>o, <2>1, <2>2, <2>3, RecordedStays
<1>4. ASSUME NEW o \in Operator, Release!PlanLanes(o) PROVE Recorded(p)'
  <2>1. findings' = findings /\ (p # o => work'[p] = work[p])
        /\ (p = o => work'[p].at = "record" /\ work'[p].todo = Lane)
    BY <1>0, <1>4 DEF Release!PlanLanes
  <2> QED BY <2>1, RecordedStays DEF Recorded
<1>5. ASSUME NEW o \in Operator, Release!RecordLane(o) PROVE Recorded(p)'
  <2>1. PICK l \in work[o].todo :
          /\ findings' = Append(findings, LaneRow(work[o].id, l, Release!LaneOutcome(o, l)))
          /\ work' = [work EXCEPT ![o].todo = @ \ {l}]
    BY <1>5 DEF Release!RecordLane, Release!Found, LaneRow
  <2>2. CASE p # o
    BY <1>0, <2>1, <2>2, RecordedStays
  <2>3. CASE p = o
    <3>1. work[p].at = "record" /\ work'[p] = [work[p] EXCEPT !.todo = @ \ {l}]
      BY <1>0, <1>5, <2>1, <2>3 DEF Release!RecordLane
    <3>2. work[p] \in Working(started)
      BY <3>1, IdleWaits DEF ReleaseTyped
    <3>3. /\ work'[p].at = "record" /\ work'[p].todo = work[p].todo \ {l}
          /\ work'[p].id = work[p].id /\ work'[p].result = work[p].result
      BY <3>1, <3>2 DEF Working
    <3>4. \A k \in Lane : Release!LaneOutcome(p, k)' = Release!LaneOutcome(p, k)
      BY <3>3 DEF Release!LaneOutcome
    <3>5. ASSUME NEW k \in Lane \ work'[p].todo
          PROVE  \E j \in DOMAIN findings' :
                   findings'[j] = LaneRow(work[p].id, k, Release!LaneOutcome(p, k))
      <4>1. CASE k = l
        BY <4>1, <2>1, <2>3, FindingsGrow
      <4>2. CASE k # l
        <5>1. k \in Lane \ work[p].todo
          BY <3>3, <4>2
        <5>2. PICK j \in DOMAIN findings :
                findings[j] = LaneRow(work[p].id, k, Release!LaneOutcome(p, k))
          BY <3>1, <5>1 DEF Recorded
        <5> QED BY <2>1, <5>2, FindingsGrow
      <4> QED BY <4>1, <4>2
    <3>6. \A k \in Lane \ work'[p].todo : \E j \in DOMAIN findings' :
            findings'[j] = LaneRow(work'[p].id, k, Release!LaneOutcome(p, k)')
      BY <3>3, <3>4, <3>5
    <3> QED BY <3>3, <3>6 DEF Recorded, LaneRow
  <2> QED BY <2>2, <2>3
<1>6. ASSUME NEW o \in Operator, Release!LanesDone(o) PROVE Recorded(p)'
  <2>1. findings' = findings /\ (p # o => work'[p] = work[p])
    BY <1>0, <1>6 DEF Release!LanesDone
  <2>2. ASSUME p = o PROVE Recorded(p)'
    <3>1. work[p].at = "record" /\ work[p].todo = {} /\ \E f : work' = [work EXCEPT ![p].at = f]
      BY <1>6, <2>2 DEF Release!LanesDone
    <3>2. work[p] \in Working(started)
      BY <3>1, IdleWaits DEF ReleaseTyped
    <3>3. work'[p].todo = {} /\ work'[p].id = work[p].id /\ work'[p].result = work[p].result
      BY <1>0, <3>1, <3>2 DEF Working
    <3>4. \A k \in Lane : Release!LaneOutcome(p, k)' = Release!LaneOutcome(p, k)
      BY <3>3 DEF Release!LaneOutcome
    <3>5. \A k \in Lane \ work'[p].todo : \E j \in DOMAIN findings' :
            findings'[j] = LaneRow(work'[p].id, k, Release!LaneOutcome(p, k)')
      BY <2>1, <3>1, <3>3, <3>4 DEF Recorded
    <3> QED BY <3>3, <3>5 DEF Recorded, LaneRow
  <2> QED BY <2>1, <2>2, RecordedStays
<1>7. ASSUME NEW o \in Operator, Release!Finish(o) \/ Release!Abort(o) PROVE Recorded(p)'
  <2>1. findings' = findings /\ (p # o => work'[p] = work[p]) /\ (p = o => work'[p] = Release!Idle)
    BY <1>0, <1>7 DEF Release!Finish, Release!Abort
  <2> QED BY <1>i, <2>1, RecordedStays
<1>8. ASSUME Release!Restart PROVE Recorded(p)'
  BY <1>i, <1>8 DEF Release!Restart
<1>9. ASSUME Release!Change \/ UNCHANGED Release!vars PROVE Recorded(p)'
  <2>1. findings' = findings /\ work'[p] = work[p]
    BY <1>9 DEF Release!Change, Release!vars
  <2> QED BY <2>1, RecordedStays
<1> QED BY <1>1, <1>2, <1>3, <1>4, <1>5, <1>6, <1>7, <1>8, <1>9 DEF Release!Next

(* With fewer than two hundred lanes the coverage is 100 only if all of    *)
(* them are ready.                                                         *)
LEMMA RoundedPercent ==
  ASSUME NEW k \in Nat, NEW n \in 1..199, k <= n
  PROVE  /\ (200 * k + n) \div (2 * n) \in 0..100
         /\ (200 * k + n) \div (2 * n) = 100 => k = n
<1> DEFINE a == 200 * k + n
           b == 2 * n
           q == a \div b
<1>1. a \in Nat /\ b \in Nat /\ b > 0
  OBVIOUS
<1>2. q \in Nat /\ b * q <= a /\ a < b * (q + 1)
  <2> HIDE DEF a, b
  <2> QED BY <1>1 DEF q
<1>3. n * (2 * q) <= 201 * n
  BY <1>1, <1>2
<1>4. q <= 100
  <2>1. ASSUME q >= 101 PROVE FALSE
    <3> HIDE DEF q
    <3>1. PICK e \in Nat : q = 101 + e
      BY <1>2, <2>1
    <3>2. n * (2 * (101 + e)) = 202 * n + 2 * (n * e) /\ n * e \in Nat
      OBVIOUS
    <3> QED BY <1>3, <3>1, <3>2
  <2> QED BY <1>2, <2>1
<1>5. ASSUME q = 100 PROVE k = n
  <2>1. 200 * n <= 200 * k + n
    BY <1>2, <1>5
  <2> QED BY <2>1
<1> QED BY <1>2, <1>4, <1>5

LEMMA ReleaseCardinality == ASSUME NEW S PROVE Release!Cardinality(S) = Cardinality(S)
BY DEF Release!Cardinality, Cardinality

LEMMA FullCoverage ==
  ASSUME Release!ReleaseAssumption, NEW r \in SUBSET Lane
  PROVE  Release!Coverage(r) \in 0..100 /\ (Release!Coverage(r) = 100 => r = Lane)
<1>1. IsFiniteSet(Lane) /\ Lane # {} /\ Cardinality(Lane) < 200
  BY ReleaseCardinality DEF Release!ReleaseAssumption, Release!IsFiniteSet, IsFiniteSet
<1>2. Cardinality(Lane) \in Nat /\ Cardinality(Lane) # 0
  BY <1>1, FS_CardinalityType, FS_EmptySet
<1>3. Cardinality(r) \in Nat /\ Cardinality(r) <= Cardinality(Lane)
      /\ (r # Lane => Cardinality(r) < Cardinality(Lane))
  BY <1>1, FS_Subset, FS_CardinalityType
<1>4. Release!Coverage(r) = (200 * Cardinality(r) + Cardinality(Lane)) \div (2 * Cardinality(Lane))
  BY ReleaseCardinality DEF Release!Coverage
<1>5. PICK k \in Nat, n \in 1..199 : k = Cardinality(r) /\ n = Cardinality(Lane)
  BY <1>1, <1>2, <1>3
<1>6. Release!Coverage(r) \in 0..100 /\ (Release!Coverage(r) = 100 => k = n)
  BY <1>3, <1>4, <1>5, RoundedPercent
<1> QED BY <1>3, <1>5, <1>6

(* The mean of the four scores meets the target only if each is full. *)
LEMMA FullScores ==
  ASSUME NEW a \in 0..100, NEW b \in 0..100, NEW c \in 0..100, NEW d \in 0..100,
         Release!SlaMet(Release!Kpi(a, b, c, d))
  PROVE  a = 100 /\ b = 100 /\ c = 100
BY DEF Release!SlaMet, Release!Kpi

LEMMA ScoreOf ==
  ASSUME Release!ReleaseAssumption, ReleaseTyped
  PROVE  /\ \A ok \in BOOLEAN : Release!Score(ok) \in 0..100 /\ (Release!Score(ok) = 100 => ok)
         /\ \A ready : Release!DecisionScore(ready) \in 0..100
BY DEF Release!ReleaseAssumption, Release!Score, Release!DecisionScore

(* A mission that is reported as completed has recorded all lanes as ready. *)
LEMMA CompletedStep ==
  ASSUME Release!ReleaseAssumption, ReleaseTyped, \A o \in Operator : Recorded(o),
         Release!CompletedIsRecorded, [Release!Next]_(Release!vars)
  PROVE  Release!CompletedIsRecorded'
<1> DEFINE Backed(i) ==
      findings[i].source = "release" /\ findings[i].outcome = "completed" =>
        \A l \in Lane : \E j \in 1..(i - 1) : findings[j] = LaneRow(findings[i].id, l, "ready")
<1>0. \A i \in DOMAIN findings : Backed(i)
  BY DEF Release!CompletedIsRecorded, LaneRow
<1>1. ASSUME NEW f, findings' = Append(findings, f),
             f.source = "release" /\ f.outcome = "completed" =>
               \A l \in Lane : \E j \in DOMAIN findings : findings[j] = LaneRow(f.id, l, "ready")
      PROVE  Release!CompletedIsRecorded'
  <2>1. /\ \A j \in DOMAIN findings : j \in DOMAIN findings' /\ findings'[j] = findings[j]
        /\ DOMAIN findings = 1..Len(findings) /\ Len(findings) \in Nat
        /\ DOMAIN findings' = 1..(Len(findings) + 1) /\ findings'[Len(findings) + 1] = f
    <3>1. findings' # findings
      BY <1>1, AppendProperties, SeqMonotonic, LenProperties DEF ReleaseTyped
    <3> QED BY <1>1, <3>1, FindingsGrow
  <2>2. ASSUME NEW i \in DOMAIN findings', findings'[i].source = "release", findings'[i].outcome = "completed",
               NEW l \in Lane
        PROVE  \E j \in 1..(i - 1) : findings'[j] = LaneRow(findings'[i].id, l, "ready")
    <3>1. CASE i \in DOMAIN findings
      <4>1. PICK j \in 1..(i - 1) : findings[j] = LaneRow(findings[i].id, l, "ready")
        BY <1>0, <2>1, <2>2, <3>1
      <4>2. j \in DOMAIN findings
        BY <2>1, <3>1
      <4> QED BY <2>1, <3>1, <4>1, <4>2
    <3>2. CASE i \notin DOMAIN findings
      <4>1. i = Len(findings) + 1 /\ findings'[i] = f
        BY <2>1, <3>2
      <4>2. PICK j \in DOMAIN findings : findings[j] = LaneRow(f.id, l, "ready")
        BY <1>1, <2>2, <4>1
      <4>3. j \in 1..(i - 1)
        BY <2>1, <4>1
      <4> QED BY <2>1, <4>1, <4>2, <4>3
    <3> QED BY <3>1, <3>2
  <2> QED BY <2>2 DEF Release!CompletedIsRecorded, LaneRow
<1>2. ASSUME findings' = findings PROVE Release!CompletedIsRecorded'
  BY <1>2 DEF Release!CompletedIsRecorded
<1>3. ASSUME NEW o \in Operator, Release!FindSuite(o) PROVE Release!CompletedIsRecorded'
  BY <1>1, <1>3 DEF Release!FindSuite, Release!Found
<1>4. ASSUME NEW o \in Operator, Release!RecordLane(o) PROVE Release!CompletedIsRecorded'
  <2>1. PICK l : findings' = Append(findings, LaneRow(work[o].id, l, Release!LaneOutcome(o, l)))
    BY <1>4 DEF Release!RecordLane, Release!Found, LaneRow
  <2>2. PICK f : f = LaneRow(work[o].id, l, Release!LaneOutcome(o, l))
    OBVIOUS
  <2>3. findings' = Append(findings, f) /\ f.source = "lane"
    BY <2>1, <2>2 DEF LaneRow
  <2> QED BY <1>1, <2>3
<1>5. ASSUME NEW o \in Operator, Release!Close(o) PROVE Release!CompletedIsRecorded'
  <2>1. work[o].at = "close" /\ work[o] \in Working(started)
    BY <1>5, AtWork DEF Release!Close
  <2>2. PICK r \in [baseline : BOOLEAN, qa : BOOLEAN, lanes : SUBSET Lane] : r = work[o].result
    BY <2>1 DEF Working
  <2>3. PICK f :
          /\ findings' = Append(findings, f) /\ f.id = work[o].id
          /\ f.outcome = "completed" => Release!SlaMet(Release!OwnKpi(r))
    BY <1>5, <2>2 DEF Release!Close, Release!Found
  <2>4. ASSUME f.outcome = "completed" PROVE r.lanes = Lane
    <3>1. /\ Release!Score(r.baseline) \in 0..100 /\ Release!Score(r.qa) \in 0..100
          /\ Release!DecisionScore(Release!OwnGates(r)) \in 0..100
      BY <2>2, ScoreOf
    <3>2. Release!Coverage(r.lanes) \in 0..100 /\ (Release!Coverage(r.lanes) = 100 => r.lanes = Lane)
      BY <2>2, FullCoverage
    <3>3. PICK a \in 0..100, b \in 0..100, c \in 0..100, d \in 0..100 :
            /\ a = Release!Score(r.baseline) /\ b = Release!Score(r.qa)
            /\ c = Release!Coverage(r.lanes) /\ d = Release!DecisionScore(Release!OwnGates(r))
      BY <3>1, <3>2
    <3>4. Release!SlaMet(Release!Kpi(a, b, c, d))
      BY <2>3, <2>4, <3>3 DEF Release!OwnKpi
    <3>5. Release!Coverage(r.lanes) = 100
      BY <3>3, <3>4, FullScores
    <3> QED BY <3>2, <3>5
  <2>5. ASSUME f.outcome = "completed", NEW l \in Lane
        PROVE  \E j \in DOMAIN findings : findings[j] = LaneRow(f.id, l, "ready")
    <3>1. Release!LaneOutcome(o, l) = "ready"
      BY <2>2, <2>4, <2>5 DEF Release!LaneOutcome
    <3> QED BY <2>1, <2>3, <3>1 DEF Recorded
  <2> QED BY <1>1, <2>3, <2>5
<1>6. ASSUME NEW o \in Operator,
             \/ \E kind_ \in Release!Part \cup {"mission"} : Release!Start(o, kind_)
             \/ Release!RunSuite(o) \/ Release!Autopilot(o) \/ Release!PlanLanes(o)
             \/ Release!LanesDone(o) \/ Release!Finish(o) \/ Release!Abort(o)
      PROVE  findings' = findings
  BY <1>6 DEF Release!Start, Release!RunSuite, Release!Autopilot, Release!PlanLanes,
              Release!LanesDone, Release!Finish, Release!Abort
<1>7. Release!Restart \/ Release!Change \/ UNCHANGED Release!vars => findings' = findings
  BY DEF Release!Restart, Release!Change, Release!vars
<1> QED BY <1>2, <1>3, <1>4, <1>5, <1>6, <1>7 DEF Release!Next

LEMMA ReleaseInit ==
  ASSUME Release!ReleaseAssumption, Release!Init PROVE ReleaseInv
<1>1. ReleaseTyped
  BY DEF ReleaseTyped, Release!Init, Release!ReleaseAssumption
<1>2. RunsCounted
  <2>1. Before = {}
    BY DEF Before, Release!Init, Release!Idle
  <2> QED BY <2>1, FS_EmptySet DEF RunsCounted, Release!Init
<1>3. \A o \in Operator : Recorded(o)
  BY DEF Recorded, Release!Init, Release!Idle
<1>4. Release!CompletedIsRecorded
  BY DEF Release!CompletedIsRecorded, Release!Init
<1> QED BY <1>1, <1>2, <1>3, <1>4 DEF ReleaseInv

LEMMA ReleaseInductive ==
  ASSUME Release!ReleaseAssumption
  PROVE  /\ Release!Init => ReleaseInv
         /\ ReleaseInv /\ [Release!Next]_(Release!vars) => ReleaseInv'
BY ReleaseInit, ReleaseTypedStep, RunsStep, RecordedStep, CompletedStep DEF ReleaseInv

LEMMA SuiteRan ==
  ASSUME ReleaseTyped, NEW label
  PROVE  LET I == {i \in DOMAIN suites : suites[i].label = label}
         IN  /\ I # {} => Release!Ran(label) \in I /\ \A j \in I : j <= Release!Ran(label)
             /\ I = {} => Release!Ran(label) = 0
             /\ Release!Ran(label) # 0 => suites[Release!Ran(label)].ok \in BOOLEAN
<1>1. PICK n \in Nat : n = Len(suites) /\ DOMAIN suites = 1..n
  BY LenProperties DEF ReleaseTyped
<1>2. PICK I : I = {i \in DOMAIN suites : suites[i].label = label}
  OBVIOUS
<1>3. Release!Ran(label) = IF I = {} THEN 0 ELSE CHOOSE i \in I : \A j \in I : j <= i
  BY <1>2 DEF Release!Ran, Release!LastOf
<1>4. I \in SUBSET (1..n)
  BY <1>1, <1>2
<1>5. /\ I # {} => Release!Ran(label) \in I /\ \A j \in I : j <= Release!Ran(label)
      /\ I = {} => Release!Ran(label) = 0
  <2>1. PICK m : m = Release!Ran(label)
    OBVIOUS
  <2>2. m = IF I = {} THEN 0 ELSE CHOOSE k \in I : \A j \in I : j <= k
    BY <1>3, <2>1
  <2>3. (I # {} => m \in I /\ \A j \in I : j <= m) /\ (I = {} => m = 0)
    <3>1. I # {} => \E i_ \in I : \A j \in I : j <= i_
      BY <1>4, GreatestExists
    <3> QED BY <2>2, <3>1
  <2> QED BY <1>4, <2>1, <2>3
<1>6. \A i \in 1..n : suites[i] \in [label : {"baseline", "qa", "challenge"}, ok : BOOLEAN]
  BY <1>1, ElementOfSeq DEF ReleaseTyped
<1>7. Release!Ran(label) # 0 => suites[Release!Ran(label)].ok \in BOOLEAN
  BY <1>4, <1>5, <1>6
<1> QED BY <1>2, <1>5, <1>7

LEMMA LaneMissionRan ==
  ASSUME ReleaseTyped, NEW i \in DOMAIN findings, findings[i].source = "lane"
  PROVE  Release!LaneMission # 0
<1>1. PICK n \in Nat : n = Len(findings) /\ DOMAIN findings = 1..n
  BY LenProperties DEF ReleaseTyped
<1>2. PICK I : I = {j \in DOMAIN findings : findings[j].source = "lane"}
  OBVIOUS
<1>3. Release!LaneMission = IF I = {} THEN 0 ELSE CHOOSE k \in I : \A j \in I : j <= k
  BY <1>2 DEF Release!LaneMission, Release!LaneFinding, Release!LastOf
<1>4. I \in SUBSET (1..n) /\ i \in I
  BY <1>1, <1>2
<1>5. Release!LaneMission \in I
  <2>1. PICK m : m = Release!LaneMission
    OBVIOUS
  <2>2. m = IF I = {} THEN 0 ELSE CHOOSE k \in I : \A j \in I : j <= k
    BY <1>3, <2>1
  <2>3. (I # {} => m \in I /\ \A j \in I : j <= m) /\ (I = {} => m = 0)
    <3>1. I # {} => \E i_ \in I : \A j \in I : j <= i_
      BY <1>4, GreatestExists
    <3> QED BY <2>2, <3>1
  <2> QED BY <1>4, <2>1, <2>3
<1> QED BY <1>4, <1>5

LEMMA LatestReleaseIs ==
  ASSUME ReleaseTyped, Release!LatestRelease # 0
  PROVE  Release!LatestRelease \in DOMAIN findings /\ findings[Release!LatestRelease].source = "release"
<1>1. PICK n \in Nat : n = Len(findings) /\ DOMAIN findings = 1..n
  BY LenProperties DEF ReleaseTyped
<1>2. PICK I : I = {j \in DOMAIN findings : findings[j].source = "release"}
  OBVIOUS
<1>3. Release!LatestRelease = IF I = {} THEN 0 ELSE CHOOSE k \in I : \A j \in I : j <= k
  BY <1>2 DEF Release!LatestRelease, Release!ReleaseFinding, Release!LastOf
<1>4. I \in SUBSET (1..n)
  BY <1>1, <1>2
<1>5. ASSUME Release!LatestRelease # 0 PROVE Release!LatestRelease \in I
  <2>1. PICK m : m = Release!LatestRelease
    OBVIOUS
  <2>2. m = IF I = {} THEN 0 ELSE CHOOSE k \in I : \A j \in I : j <= k
    BY <1>3, <2>1
  <2>3. (I # {} => m \in I /\ \A j \in I : j <= m) /\ (I = {} => m = 0)
    <3>1. I # {} => \E i_ \in I : \A j \in I : j <= i_
      BY <1>4, GreatestExists
    <3> QED BY <2>2, <3>1
  <2> QED BY <1>4, <2>1, <2>3
<1> QED BY <1>2, <1>5

(* What a reader who is shown a completed release may conclude. *)
LEMMA CompletedMeans ==
  ASSUME Release!ReleaseAssumption, ReleaseTyped, Release!MissionStatus = "completed"
  PROVE  /\ Release!LatestRelease \in DOMAIN findings
         /\ findings[Release!LatestRelease].source = "release"
         /\ findings[Release!LatestRelease].outcome = "completed"
         /\ findings[Release!LatestRelease].version = version
         /\ \A label \in {"baseline", "qa"} :
              Release!Ran(label) # 0 /\ suites[Release!Ran(label)].ok
         /\ health.lanes = Lane
<1>1. PICK m : m = Release!LatestRelease
  OBVIOUS
<1>2. PICK r : r = findings[m]
  OBVIOUS
<1>3. PICK met \in BOOLEAN : met <=> Release!SlaMet(Release!CurrentKpi)
  OBVIOUS
<1>4. m # 0 /\ r.version = version /\ r.outcome = "completed" /\ met
  <2>1. m # 0
    BY <1>1 DEF Release!MissionStatus
  <2>2. "completed" = CASE r.version # version -> "stale_evidence"
                         [] r.outcome = "completed" /\ ~met -> "review_required"
                         [] OTHER -> r.outcome
    BY <1>1, <1>2, <1>3, <2>1 DEF Release!MissionStatus
  <2>3. r.version = version
    BY <2>2
  <2>4. ~(r.outcome = "completed" /\ ~met)
    BY <2>2, <2>3
  <2>5. r.outcome = "completed"
    BY <2>2, <2>3, <2>4
  <2> QED BY <2>1, <2>3, <2>4, <2>5
<1>5. m \in DOMAIN findings /\ r.source = "release"
  BY <1>1, <1>2, <1>4, LatestReleaseIs
<1>6. \A label : Release!LatestScore(label) \in 0..100
                 /\ (Release!LatestScore(label) = 100 => Release!Ran(label) # 0 /\ suites[Release!Ran(label)].ok)
  BY SuiteRan, ScoreOf DEF Release!LatestScore
<1>7. health.lanes \in SUBSET Lane
  BY DEF ReleaseTyped, Release!ReleaseAssumption
<1>8. Release!Coverage(health.lanes) \in 0..100 /\ (Release!Coverage(health.lanes) = 100 => health.lanes = Lane)
  BY <1>7, FullCoverage
<1>9. PICK a \in 0..100, b \in 0..100, c \in 0..100, d \in 0..100 :
        /\ a = Release!LatestScore("baseline") /\ b = Release!LatestScore("qa")
        /\ c = Release!Coverage(health.lanes) /\ d = Release!DecisionScore(Release!GatesReady)
  BY <1>6, <1>8, ScoreOf
<1>10. Release!SlaMet(Release!Kpi(a, b, c, d))
  BY <1>3, <1>4, <1>9 DEF Release!CurrentKpi
<1>11. a = 100 /\ b = 100 /\ c = 100
  BY <1>10, FullScores
<1> QED BY <1>1, <1>2, <1>4, <1>5, <1>6, <1>8, <1>9, <1>11

LEMMA ReleaseHolds ==
  ASSUME Release!ReleaseAssumption, ReleaseInv PROVE Release!TypeOK /\ Release!ReleaseSound
<1>0. ReleaseTyped /\ RunsCounted /\ Release!CompletedIsRecorded
  BY DEF ReleaseInv
<1>1. Release!TypeOK
  <2>1. Cardinality(Before) \in Nat /\ started \in 0..WorkMax /\ WorkMax \in Nat
    BY <1>0, FS_CardinalityType DEF RunsCounted, ReleaseTyped, Release!ReleaseAssumption
  <2>2. agentRuns \in 0..WorkMax
    BY <1>0, <2>1 DEF RunsCounted
  <2>3. \A o \in Operator : work[o] # Release!Idle => work[o].id \in 1..started
    BY <1>0 DEF ReleaseTyped, Working
  <2> QED BY <1>0, <2>2, <2>3 DEF Release!TypeOK, ReleaseTyped
<1>2. Release!CompletedStillHolds
  <2> SUFFICES ASSUME Release!MissionStatus = "completed" PROVE Release!CompletedStillHolds
    BY DEF Release!CompletedStillHolds
  <2>1. ASSUME NEW label \in {"baseline", "qa"}
        PROVE  LET I == {i \in DOMAIN suites : suites[i].label = label}
               IN  I # {} /\ \E i \in I : suites[i].ok /\ \A j \in I : j <= i
    <3>1. PICK I : I = {i \in DOMAIN suites : suites[i].label = label}
      OBVIOUS
    <3>2. /\ I # {} => Release!Ran(label) \in I /\ \A j \in I : j <= Release!Ran(label)
          /\ I = {} => Release!Ran(label) = 0
      BY <1>0, <3>1, SuiteRan
    <3>3. Release!Ran(label) # 0 /\ suites[Release!Ran(label)].ok
      BY <1>0, CompletedMeans
    <3>4. I # {} /\ \E i \in I : suites[i].ok /\ \A j \in I : j <= i
      BY <3>2, <3>3
    <3> QED BY <3>1, <3>4
  <2>2. findings[Release!LatestRelease].version = version /\ health.lanes = Lane
    BY <1>0, CompletedMeans
  <2> QED BY <2>1, <2>2 DEF Release!CompletedStillHolds
<1>3. Release!ReportsAgree
  <2> SUFFICES ASSUME Release!MissionStatus = "completed", Release!Passed("challenge")
               PROVE  Release!QaReportReady
    BY DEF Release!ReportsAgree
  <2>1. PICK m : m = Release!LatestRelease
    OBVIOUS
  <2>2. m \in DOMAIN findings /\ findings[m].source = "release" /\ findings[m].outcome = "completed"
        /\ health.lanes = Lane /\ Release!Ran("qa") # 0 /\ suites[Release!Ran("qa")].ok
    BY <1>0, <2>1, CompletedMeans
  <2>3. PICK l : l \in Lane
    BY DEF Release!ReleaseAssumption
  <2>4. PICK j \in 1..(m - 1) : findings[j] = LaneRow(findings[m].id, l, "ready")
    BY <1>0, <2>2, <2>3 DEF Release!CompletedIsRecorded, LaneRow
  <2>5. j \in DOMAIN findings
    BY <1>0, <2>2, LenProperties DEF ReleaseTyped
  <2>6. findings[j].source = "lane"
    BY <2>4 DEF LaneRow
  <2>7. Release!LaneMission # 0
    BY <1>0, <2>5, <2>6, LaneMissionRan
  <2> QED BY <2>2, <2>7 DEF Release!QaReportReady, Release!Passed
<1> QED BY <1>0, <1>1, <1>2, <1>3 DEF Release!ReleaseSound

-----------------------------------------------------------------------------
(* The go-live reports.                                                    *)

Ctl(c) == [type |-> "control", id |-> c]
Dec(d) == [type |-> "decision", id |-> d]
Backups == {"customer_action_required", "ready", "restore_review_required"}
AuditRow ==
  [type : {"other", "feedback", "failed"}]
    \cup [type : {"completed"}, at : Nat, profile : {d.profile : d \in Deployment}]

GoLiveTyped ==
  /\ deployment \in Deployment
  /\ clock \in Nat
  /\ audit \in Seq(AuditRow)
  /\ control \in [Control -> ControlState \cup {None}]
  /\ decision \in [Decision -> DecisionState \cup {None}]
  /\ verifier \in [Verifier -> {"idle", "completed", "failed"}]
  /\ verified \in Reports!Verdict \cup {None}

(* The newest restore test of the trail is the one that was recorded last. *)
LastTestKept ==
  \A i \in Reports!Tests : (\A j \in Reports!Tests : j <= i) =>
    /\ verified # None
    /\ verified.ok <=> audit[i].type = "completed"
    /\ verified.ok => audit[i].at = verified.at /\ audit[i].profile = verified.profile

(* Which reads a brief has behind it, and what it holds of them.           *)
Planning == {"controls", "feedback", "backup", "decisions"}
Gating == {"gateFeedback", "gateBackup", "gateDecisions"}
WithBackup == {"controls", "decisions", "gateDecisions"}
BriefShape ==
  /\ report.at \in {"idle", "done"} \cup Planning \cup Gating
  /\ report.at # "idle" => {"at", "settled"} \subseteq DOMAIN report /\ report.settled \subseteq Reports!Item
  /\ report.at \in Planning \cup Gating => "actions" \in DOMAIN report
  /\ report.at \in WithBackup => "backup" \in DOMAIN report /\ report.backup \in Backups
  /\ report.at \in {"backup", "gateBackup", "decisions", "gateDecisions"} =>
       "feedback" \in DOMAIN report
  /\ report.at = "done" => {"packets", "gate"} \subseteq DOMAIN report

(* An action asks about an item. *)
Names(actions, i) == \E a \in actions : [type |-> a.type, id |-> a.id] = i

(* What a brief has read of the settled items is what holds of them still. *)
ControlsRead ==
  /\ report.at = "controls" => \A c \in Control : Ctl(c) \in report.settled /\ control[c] = None =>
       (Reports!BaseControl(c, report.backup) # "ready" <=> Reports!Open(Ctl(c)))
  /\ report.at \in (Planning \ {"controls"}) \cup Gating =>
       \A c \in Control : Ctl(c) \in report.settled =>
         (Names(report.actions, Ctl(c)) <=> Reports!Open(Ctl(c)))
DecisionsRead ==
  /\ report.at \in Planning => \A a \in report.actions : a.type = "control"
  /\ report.at \in {"decisions", "gateDecisions"} =>
       \A d \in Decision : Dec(d) \in report.settled /\ decision[d] = None =>
         (Reports!BaseDecision(d, report.backup, report.feedback) # "ready" <=> Reports!Open(Dec(d)))
  /\ report.at \in Gating =>
       \A d \in Decision : Dec(d) \in report.settled =>
         (Names(report.actions, Dec(d)) <=> Reports!Open(Dec(d)))

GoLiveInv ==
  /\ GoLiveTyped /\ LastTestKept
  /\ BriefShape /\ ControlsRead /\ DecisionsRead /\ Reports!BriefIsTrue

(* The backup state as a function of what it is computed from.             *)
TestsOf(trail) == {i \in DOMAIN trail : trail[i].type \in {"completed", "failed"}}
RestoreOf(trail, setup, now) ==
  IF TestsOf(trail) = {} THEN "not_recorded"
  ELSE LET row == trail[CHOOSE i \in TestsOf(trail) : \A j \in TestsOf(trail) : j <= i]
       IN CASE row.type = "failed"            -> "failed"
            [] row.profile # setup.profile -> "profile_mismatch"
            [] row.at > now + Tolerance       -> "invalid_timestamp"
            [] now - row.at > Cadence         -> "stale"
            [] OTHER                          -> "recorded"
BackupOf(trail, setup, facts, now) ==
  CASE ~setup.policy -> "customer_action_required"
    [] RestoreOf(trail, setup, now) = "recorded" /\ facts.offhost # "missing" -> "ready"
    [] OTHER -> "restore_review_required"

LEMMA BackupOfState ==
  /\ Reports!BackupState = BackupOf(audit, deployment, signals, clock)
  /\ (Reports!BackupState)' = BackupOf(audit', deployment', signals', clock')
<1>1. Reports!RestoreState = RestoreOf(audit, deployment, clock)
  BY DEF Reports!RestoreState, Reports!LatestTest, Reports!Tests, TestsOf, RestoreOf
<1>2. (Reports!RestoreState)' = RestoreOf(audit', deployment', clock')
  BY DEF Reports!RestoreState, Reports!LatestTest, Reports!Tests, TestsOf, RestoreOf
<1> HIDE DEF RestoreOf
<1> QED BY <1>1, <1>2 DEF Reports!BackupState, Reports!Restored, BackupOf

LEMMA BackupStates == Reports!BackupState \in Backups
BY DEF Reports!BackupState, Backups

(* What an item is, and when one is open: a decision's base state does not *)
(* depend on whether there was feedback as far as being ready goes.        *)
LEMMA ItemKinds ==
  /\ \A i \in Reports!Item : (\E c \in Control : i = Ctl(c)) \/ (\E d \in Decision : i = Dec(d))
  /\ \A c \in Control : Ctl(c) \in Reports!Item /\ Ctl(c).type = "control" /\ Ctl(c).id = c
  /\ \A d \in Decision : Dec(d) \in Reports!Item /\ Dec(d).type = "decision" /\ Dec(d).id = d
BY DEF Reports!Item, Ctl, Dec

LEMMA DecisionBase ==
  ASSUME NEW d, NEW b \in Backups, NEW f, NEW g
  PROVE  /\ Reports!BaseDecision(d, b, f) # "ready" <=> Reports!BaseDecision(d, b, g) # "ready"
         /\ Reports!BaseDecision(d, b, f) # "approved"
BY DEF Reports!BaseDecision, Backups, Reports!Either

LEMMA OpenMeans ==
  /\ \A c \in Control : Reports!Open(Ctl(c)) <=>
       IF control[c] = None THEN Reports!BaseControl(c, Reports!BackupState) # "ready"
       ELSE control[c] # "ready"
  /\ \A d \in Decision : Reports!Open(Dec(d)) <=>
       IF decision[d] = None THEN Reports!BaseDecision(d, Reports!BackupState, TRUE) # "ready"
       ELSE decision[d] # "approved"
<1>1. \A c \in Control : Reports!Open(Ctl(c)) <=>
       IF control[c] = None THEN Reports!BaseControl(c, Reports!BackupState) # "ready"
       ELSE control[c] # "ready"
  BY ItemKinds DEF Reports!Open
<1>2. ASSUME NEW d \in Decision
      PROVE Reports!Open(Dec(d)) <=>
       IF decision[d] = None THEN Reports!BaseDecision(d, Reports!BackupState, TRUE) # "ready"
       ELSE decision[d] # "approved"
  <2>1. Reports!Open(Dec(d)) <=>
       IF decision[d] = None
       THEN Reports!BaseDecision(d, Reports!BackupState, Reports!FeedbackSeen) # "ready"
       ELSE decision[d] # "approved"
    BY ItemKinds DEF Reports!Open
  <2> QED BY <2>1, BackupStates, DecisionBase
<1> QED BY <1>1, <1>2

(* With nothing moved no item opens or closes.                             *)
LEMMA NothingMoves ==
  ASSUME UNCHANGED <<deployment, signals, audit, control, decision, clock>>
  PROVE  \A i \in Reports!Item : Reports!Open(i)' <=> Reports!Open(i)
<1>1. (Reports!BackupState)' = Reports!BackupState
  BY BackupOfState
<1>2. (Reports!FeedbackSeen)' <=> Reports!FeedbackSeen
  BY DEF Reports!FeedbackSeen
<1>3. ASSUME NEW i \in Reports!Item, i.type = "control"
      PROVE  Reports!Open(i)' <=> Reports!Open(i)
  <2>1. Reports!BaseControl(i.id, Reports!BackupState)' = Reports!BaseControl(i.id, Reports!BackupState)
    BY <1>1 DEF Reports!BaseControl, Reports!TlsState, Reports!Either
  <2> QED BY <1>3, <2>1 DEF Reports!Open
<1>4. ASSUME NEW i \in Reports!Item, i.type # "control"
      PROVE  Reports!Open(i)' <=> Reports!Open(i)
  <2>1. (Reports!BaseDecision(i.id, Reports!BackupState, Reports!FeedbackSeen) # "ready")'
          <=> Reports!BaseDecision(i.id, Reports!BackupState, Reports!FeedbackSeen) # "ready"
    BY <1>1, <1>2 DEF Reports!BaseDecision, Reports!Either
  <2> QED BY <1>4, <2>1 DEF Reports!Open
<1> QED BY <1>3, <1>4

-----------------------------------------------------------------------------
(* The trail of restore tests.                                             *)

LEMMA TestRows ==
  ASSUME GoLiveTyped
  PROVE  /\ Len(audit) \in Nat /\ DOMAIN audit = 1..Len(audit)
         /\ \A i \in DOMAIN audit : audit[i] \in AuditRow
         /\ Reports!Tests \in SUBSET (1..Len(audit))
         /\ \A i \in Reports!Tests : audit[i].type \in {"completed", "failed"}
         /\ \A i \in Reports!Tests : audit[i].type = "completed" => audit[i].at \in Nat
BY DEF GoLiveTyped, AuditRow, Reports!Tests

(* A ready backup rests on the last test that was recorded.                *)
LEMMA ReadyMeansRestored ==
  ASSUME Reports!GoLiveAssumption, GoLiveTyped, LastTestKept PROVE Reports!ReadyMeansRestored
<1> SUFFICES ASSUME Reports!BackupState = "ready"
             PROVE  /\ verified # None /\ verified.ok
                    /\ verified.profile = deployment.profile
                    /\ clock - verified.at <= Cadence
  BY DEF Reports!ReadyMeansRestored
<1>1. Reports!RestoreState = "recorded"
  BY DEF Reports!BackupState, Reports!Restored
<1>2. Reports!Tests # {}
  BY <1>1 DEF Reports!RestoreState, Reports!LatestTest
<1> DEFINE newest == CHOOSE i \in Reports!Tests : \A j \in Reports!Tests : j <= i
<1>3. newest \in Reports!Tests /\ \A j \in Reports!Tests : j <= newest
  <2>1. \E i \in Reports!Tests : \A j \in Reports!Tests : j <= i
    BY <1>2, TestRows, GreatestExists
  <2> QED BY <2>1
<1>4. /\ audit[newest].type # "failed"
      /\ audit[newest].profile = deployment.profile
      /\ ~(clock - audit[newest].at > Cadence)
  BY <1>1, <1>2 DEF Reports!RestoreState, Reports!LatestTest
<1> HIDE DEF newest
<1>5. audit[newest].type = "completed" /\ audit[newest].at \in Nat
  BY <1>3, <1>4, TestRows
<1>6. verified # None /\ verified.ok /\ audit[newest].at = verified.at
      /\ audit[newest].profile = verified.profile
  BY <1>3, <1>5 DEF LastTestKept
<1>7. clock \in Nat /\ Cadence \in Nat
  BY DEF GoLiveTyped, Reports!GoLiveAssumption
<1> QED BY <1>4, <1>5, <1>6, <1>7

(* A row that is no test leaves the tests as they were.                    *)
LEMMA OtherRowKeeps ==
  ASSUME GoLiveTyped, LastTestKept, UNCHANGED verified, NEW row \in AuditRow,
         row.type \in {"other", "feedback"}, audit' = Append(audit, row)
  PROVE  audit' \in Seq(AuditRow) /\ LastTestKept'
<1>1. /\ audit' \in Seq(AuditRow) /\ Len(audit') = Len(audit) + 1
      /\ \A i \in 1..Len(audit) : audit'[i] = audit[i]
      /\ audit'[Len(audit) + 1] = row
  <2>1. audit \in Seq(AuditRow)
    BY DEF GoLiveTyped
  <2>2. PICK s : s = Append(audit, row)
    OBVIOUS
  <2>3. /\ s \in Seq(AuditRow) /\ Len(s) = Len(audit) + 1
        /\ \A i \in 1..Len(audit) : s[i] = audit[i]
        /\ s[Len(audit) + 1] = row
    BY <2>1, <2>2, AppendProperties
  <2> QED BY <2>2, <2>3
<1>2. DOMAIN audit' = 1..(Len(audit) + 1)
  BY <1>1
<1>3. (Reports!Tests)' = Reports!Tests
  BY <1>1, <1>2, TestRows DEF Reports!Tests
<1>4. \A i \in Reports!Tests : audit'[i] = audit[i]
  BY <1>1, TestRows
<1> QED BY <1>1, <1>3, <1>4 DEF LastTestKept

LEMMA NoRowKeeps ==
  ASSUME LastTestKept, UNCHANGED <<verified, audit>> PROVE LastTestKept'
BY DEF LastTestKept, Reports!Tests

LEMMA RecordedTestIsLast ==
  ASSUME Reports!GoLiveAssumption, GoLiveTyped, NEW v \in Verifier, Reports!RecordTest(v)
  PROVE  audit' \in Seq(AuditRow) /\ verified' \in Reports!Verdict /\ LastTestKept'
<1>1. PICK row : row = IF verifier[v] = "failed" THEN [type |-> "failed"]
                       ELSE [type |-> "completed", at |-> clock, profile |-> deployment.profile]
  OBVIOUS
<1>2. audit' = Append(audit, row)
  BY <1>1 DEF Reports!RecordTest, Reports!Audited, Reports!Row
<1>3. verifier[v] \in {"completed", "failed"}
  BY DEF Reports!RecordTest, GoLiveTyped
<1>4. row \in AuditRow
  <2>1. deployment.profile \in {d.profile : d \in Deployment} /\ clock \in Nat
    BY DEF GoLiveTyped
  <2> QED BY <1>1, <2>1 DEF AuditRow
<1>5. /\ audit' \in Seq(AuditRow) /\ Len(audit') = Len(audit) + 1
      /\ audit'[Len(audit) + 1] = row
  <2>1. audit \in Seq(AuditRow)
    BY DEF GoLiveTyped
  <2>2. PICK s : s = Append(audit, row)
    OBVIOUS
  <2>3. /\ s \in Seq(AuditRow) /\ Len(s) = Len(audit) + 1
        /\ s[Len(audit) + 1] = row
    BY <1>4, <2>1, <2>2, AppendProperties
  <2> QED BY <1>2, <2>2, <2>3
<1>6. verified' = [ok |-> verifier[v] = "completed", at |-> clock, profile |-> deployment.profile]
  BY DEF Reports!RecordTest
<1>7. verified' \in Reports!Verdict /\ verified' # None
  <2>1. deployment.profile \in {d.profile : d \in Deployment} /\ clock \in Nat
    BY DEF GoLiveTyped
  <2>2. verified' \in Reports!Verdict
    BY <1>6, <2>1 DEF Reports!Verdict
  <2> QED BY <2>2 DEF Reports!GoLiveAssumption
<1>8. ASSUME NEW i \in (Reports!Tests)', \A j \in (Reports!Tests)' : j <= i
      PROVE  i = Len(audit) + 1
  <2>1. DOMAIN audit' = 1..(Len(audit) + 1) /\ Len(audit) \in Nat
    BY <1>5, TestRows
  <2>2. audit'[Len(audit) + 1].type \in {"completed", "failed"}
    BY <1>1, <1>3, <1>5
  <2>3. Len(audit) + 1 \in (Reports!Tests)' /\ i \in 1..(Len(audit) + 1)
    BY <2>1, <2>2 DEF Reports!Tests
  <2>4. Len(audit) + 1 <= i
    BY <1>8, <2>3
  <2> QED BY <2>1, <2>3, <2>4
<1>9. /\ verified'.ok <=> row.type = "completed"
      /\ verified'.ok => row.at = verified'.at /\ row.profile = verified'.profile
  BY <1>1, <1>3, <1>6
<1> QED BY <1>5, <1>7, <1>8, <1>9 DEF LastTestKept

LEMMA RotationKeeps ==
  ASSUME GoLiveTyped, LastTestKept, UNCHANGED verified, audit # <<>>, audit' = Tail(audit)
  PROVE  audit' \in Seq(AuditRow) /\ LastTestKept'
<1>1. /\ audit' \in Seq(AuditRow) /\ Len(audit') = Len(audit) - 1
      /\ \A i \in 1..Len(audit') : audit'[i] = audit[i + 1]
  <2>1. audit \in Seq(AuditRow)
    BY DEF GoLiveTyped
  <2>2. PICK s : s = Tail(audit)
    OBVIOUS
  <2>3. /\ s \in Seq(AuditRow) /\ Len(s) = Len(audit) - 1
        /\ \A i \in 1..Len(s) : s[i] = audit[i + 1]
    BY <2>1, <2>2, HeadTailProperties
  <2> QED BY <2>2, <2>3
<1>2. DOMAIN audit' = 1..(Len(audit) - 1) /\ Len(audit) \in Nat /\ DOMAIN audit = 1..Len(audit)
  BY <1>1, TestRows
<1>3. \A i \in (Reports!Tests)' : i \in 1..(Len(audit) - 1) /\ i + 1 \in Reports!Tests
                                  /\ audit'[i] = audit[i + 1]
  BY <1>1, <1>2 DEF Reports!Tests
<1>4. ASSUME NEW j \in Reports!Tests, j > 1 PROVE j - 1 \in (Reports!Tests)'
  <2>1. j \in 1..Len(audit) /\ j - 1 \in 1..(Len(audit) - 1) /\ j - 1 + 1 = j
    BY <1>2, <1>4, TestRows
  <2>2. audit'[j - 1] = audit[j]
    BY <1>1, <1>2, <2>1
  <2> QED BY <1>2, <1>4, <2>1, <2>2 DEF Reports!Tests
<1>5. ASSUME NEW i \in (Reports!Tests)', \A j \in (Reports!Tests)' : j <= i,
             NEW j \in Reports!Tests
      PROVE  j <= i + 1
  <2>1. i \in Nat /\ j \in Nat /\ i >= 1
    BY <1>3, TestRows
  <2>2. CASE j > 1
    <3>1. j - 1 <= i
      BY <1>4, <1>5, <2>2
    <3> QED BY <2>1, <3>1
  <2> QED BY <2>1, <2>2
<1>6. ASSUME NEW i \in (Reports!Tests)', \A j \in (Reports!Tests)' : j <= i
      PROVE  /\ verified # None
             /\ verified.ok <=> audit'[i].type = "completed"
             /\ verified.ok => audit'[i].at = verified.at /\ audit'[i].profile = verified.profile
  <2>1. i + 1 \in Reports!Tests /\ audit'[i] = audit[i + 1]
    BY <1>3
  <2>2. \A j \in Reports!Tests : j <= i + 1
    BY <1>5, <1>6
  <2> QED BY <2>1, <2>2 DEF LastTestKept
<1> QED BY <1>1, <1>6 DEF LastTestKept

LEMMA TestsStep ==
  ASSUME Reports!GoLiveAssumption, GoLiveTyped, LastTestKept, [Reports!Next]_(Reports!vars)
  PROVE  GoLiveTyped' /\ LastTestKept'
<1> DEFINE Rest == /\ deployment' \in Deployment /\ clock' \in Nat
                   /\ control' \in [Control -> ControlState \cup {None}]
                   /\ decision' \in [Decision -> DecisionState \cup {None}]
                   /\ verifier' \in [Verifier -> {"idle", "completed", "failed"}]
           Moved == /\ audit' \in Seq(AuditRow) /\ verified' \in Reports!Verdict \cup {None}
                    /\ LastTestKept'
<1>1. Rest
  <2>1. CASE UNCHANGED Reports!vars
    BY <2>1 DEF Reports!vars, GoLiveTyped
  <2>2. CASE Reports!BeginBrief \/ Reports!ReadControls \/ Reports!ReadFeedback
             \/ Reports!ReadBackup \/ Reports!ReadDecisions \/ Reports!Answer
    BY <2>2 DEF Reports!BeginBrief, Reports!ReadControls, Reports!ReadFeedback, Reports!ReadBackup,
                Reports!ReadDecisions, Reports!Answer, Reports!Undisturbed, GoLiveTyped
  <2>3. CASE \E c \in Control, s \in ControlState : Reports!UpdateControl(c, s)
    BY <2>3 DEF Reports!UpdateControl, GoLiveTyped
  <2>4. CASE \E d \in Decision, s \in DecisionState : Reports!UpdateDecision(d, s)
    BY <2>4 DEF Reports!UpdateDecision, GoLiveTyped
  <2>5. CASE \E v \in Verifier : Reports!CopyDatabase(v) \/ Reports!RecordTest(v)
    BY <2>5 DEF Reports!CopyDatabase, Reports!RecordTest, GoLiveTyped
  <2>6. CASE Reports!AddFeedback \/ Reports!Rotate \/ Reports!DemoReset \/ Reports!Signal
    BY <2>6 DEF Reports!AddFeedback, Reports!Rotate, Reports!DemoReset, Reports!Signal, GoLiveTyped
  <2>7. CASE Reports!Restart \/ Reports!Tick
    BY <2>7 DEF Reports!Restart, Reports!Tick, GoLiveTyped
  <2> QED BY <2>1, <2>2, <2>3, <2>4, <2>5, <2>6, <2>7 DEF Reports!Next
<1>2. ASSUME UNCHANGED <<audit, verified>> PROVE Moved
  BY <1>2, NoRowKeeps DEF GoLiveTyped
<1>3. ASSUME NEW row, row \in [type : {"other", "feedback"}], audit' = Append(audit, row),
             UNCHANGED verified
      PROVE  Moved
  <2>1. row \in AuditRow /\ row.type \in {"other", "feedback"}
    BY <1>3 DEF AuditRow
  <2> QED BY <1>3, <2>1, OtherRowKeeps DEF GoLiveTyped
<1>4. Moved
  <2>1. CASE UNCHANGED Reports!vars
    BY <2>1, <1>2 DEF Reports!vars
  <2>2. CASE Reports!BeginBrief \/ Reports!ReadControls \/ Reports!ReadFeedback
             \/ Reports!ReadBackup \/ Reports!ReadDecisions \/ Reports!Answer
    BY <2>2, <1>2 DEF Reports!BeginBrief, Reports!ReadControls, Reports!ReadFeedback,
                      Reports!ReadBackup, Reports!ReadDecisions, Reports!Answer, Reports!Undisturbed
  <2>3. CASE \/ \E c \in Control, s \in ControlState : Reports!UpdateControl(c, s)
             \/ \E d \in Decision, s \in DecisionState : Reports!UpdateDecision(d, s)
    <3>1. /\ UNCHANGED verified
          /\ audit' = Append(audit, [type |-> "other"]) \/ UNCHANGED audit
      BY <2>3 DEF Reports!UpdateControl, Reports!UpdateDecision, Reports!MayAudit, Reports!Audited,
                  Reports!Row
    <3> QED BY <3>1, <1>2, <1>3
  <2>4. CASE Reports!AddFeedback
    <3>1. UNCHANGED verified /\ audit' = Append(audit, [type |-> "feedback"])
      BY <2>4 DEF Reports!AddFeedback, Reports!Audited, Reports!Row
    <3> QED BY <3>1, <1>3
  <2>5. ASSUME NEW v \in Verifier, Reports!RecordTest(v) PROVE Moved
    BY <2>5, RecordedTestIsLast
  <2>6. CASE Reports!Rotate
    <3>1. UNCHANGED verified /\ audit # <<>> /\ audit' = Tail(audit)
      BY <2>6 DEF Reports!Rotate
    <3> QED BY <3>1, RotationKeeps DEF GoLiveTyped
  <2>7. CASE Reports!DemoReset
    <3>1. audit' = <<>> /\ UNCHANGED verified
      BY <2>7 DEF Reports!DemoReset
    <3>2. audit' \in Seq(AuditRow) /\ (Reports!Tests)' = {}
      BY <3>1 DEF Reports!Tests
    <3> QED BY <3>1, <3>2 DEF LastTestKept, GoLiveTyped
  <2>8. CASE Reports!Signal \/ Reports!Restart \/ Reports!Tick
             \/ \E v \in Verifier : Reports!CopyDatabase(v)
    BY <2>8, <1>2 DEF Reports!Signal, Reports!Restart, Reports!Tick, Reports!CopyDatabase
  <2> QED BY <2>1, <2>2, <2>3, <2>4, <2>5, <2>6, <2>7, <2>8 DEF Reports!Next
<1> QED BY <1>1, <1>4 DEF GoLiveTyped

-----------------------------------------------------------------------------
(* The brief under way.                                                    *)

BriefInv == BriefShape /\ ControlsRead /\ DecisionsRead /\ Reports!BriefIsTrue

(* What a write may do to a brief: items that open or close are no longer  *)
(* settled, and nothing recorded becomes unrecorded.                       *)
Moves ==
  /\ UNCHANGED deployment
  /\ \A c \in Control : control'[c] = None => control[c] = None
  /\ \A d \in Decision : decision'[d] = None => decision[d] = None
  /\ \/ report.at = "idle" /\ UNCHANGED report
     \/ /\ report.at # "idle"
        /\ DOMAIN report' = DOMAIN report
        /\ \A x \in DOMAIN report : x # "settled" => report'[x] = report[x]
        /\ report'.settled \subseteq report.settled
        /\ \A i \in report'.settled : Reports!Open(i)' <=> Reports!Open(i)

(* What a read of the brief leaves alone.                                  *)
Rests ==
  /\ UNCHANGED <<deployment, control, decision>>
  /\ \A i \in Reports!Item : Reports!Open(i)' <=> Reports!Open(i)

LEMMA DisturbMoves ==
  ASSUME BriefShape, Reports!Disturb, UNCHANGED deployment,
         \A c \in Control : control'[c] = None => control[c] = None,
         \A d \in Decision : decision'[d] = None => decision[d] = None
  PROVE  Moves
<1>1. CASE report.at = "idle"
  BY <1>1 DEF Reports!Disturb, Moves
<1>2. CASE report.at # "idle"
  <2>1. PICK S : S = {i \in report.settled : Reports!Open(i)' = Reports!Open(i)}
    OBVIOUS
  <2>2. report' = [report EXCEPT !.settled = S]
    BY <1>2, <2>1 DEF Reports!Disturb
  <2>3. {"at", "settled"} \subseteq DOMAIN report
    BY <1>2 DEF BriefShape
  <2>4. /\ DOMAIN report' = DOMAIN report /\ report'.settled = S
        /\ \A x \in DOMAIN report : x # "settled" => report'[x] = report[x]
    BY <2>2, <2>3
  <2>5. S \subseteq report.settled /\ \A i \in S : Reports!Open(i)' <=> Reports!Open(i)
    BY <2>1
  <2> QED BY <1>2, <2>4, <2>5 DEF Moves
<1> QED BY <1>1, <1>2

LEMMA GoLiveMoves ==
  ASSUME Reports!GoLiveAssumption, GoLiveTyped, BriefShape, [Reports!Next]_(Reports!vars)
  PROVE  \/ report' = Reports!Idle
         \/ Moves
         \/ Rests /\ UNCHANGED report
         \/ Rests /\ (Reports!BeginBrief \/ Reports!ReadControls \/ Reports!ReadFeedback
                      \/ Reports!ReadBackup \/ Reports!ReadDecisions \/ Reports!Answer)
<1>1. CASE UNCHANGED Reports!vars
  <2>1. UNCHANGED <<deployment, signals, audit, control, decision, clock, report>>
    BY <1>1 DEF Reports!vars
  <2> QED BY <2>1, NothingMoves DEF Rests
<1>2. CASE Reports!BeginBrief \/ Reports!ReadControls \/ Reports!ReadFeedback
           \/ Reports!ReadBackup \/ Reports!ReadDecisions \/ Reports!Answer
  <2>1. UNCHANGED <<deployment, signals, audit, control, decision, clock>>
    BY <1>2 DEF Reports!BeginBrief, Reports!ReadControls, Reports!ReadFeedback,
                Reports!ReadBackup, Reports!ReadDecisions, Reports!Answer, Reports!Undisturbed
  <2> QED BY <1>2, <2>1, NothingMoves DEF Rests
<1>3. ASSUME NEW c \in Control, NEW s \in ControlState, Reports!UpdateControl(c, s) PROVE Moves
  <2>1. UNCHANGED <<deployment, decision>> /\ Reports!Disturb
        /\ control' = [control EXCEPT ![c] = s]
    BY <1>3 DEF Reports!UpdateControl
  <2>2. \A k \in Control : control'[k] = None => control[k] = None
    BY <2>1 DEF Reports!GoLiveAssumption, GoLiveTyped
  <2> QED BY <2>1, <2>2, DisturbMoves
<1>4. ASSUME NEW d \in Decision, NEW s \in DecisionState, Reports!UpdateDecision(d, s) PROVE Moves
  <2>1. UNCHANGED <<deployment, control>> /\ Reports!Disturb
        /\ decision' = [decision EXCEPT ![d] = s]
    BY <1>4 DEF Reports!UpdateDecision
  <2>2. \A k \in Decision : decision'[k] = None => decision[k] = None
    BY <2>1 DEF Reports!GoLiveAssumption, GoLiveTyped
  <2> QED BY <2>1, <2>2, DisturbMoves
<1>5. CASE \/ Reports!AddFeedback \/ Reports!Rotate \/ Reports!DemoReset \/ Reports!Signal
           \/ Reports!Tick \/ \E v \in Verifier : Reports!RecordTest(v)
  <2>1. UNCHANGED <<deployment, control, decision>> /\ Reports!Disturb
    BY <1>5 DEF Reports!AddFeedback, Reports!Rotate, Reports!DemoReset, Reports!Signal,
                Reports!Tick, Reports!RecordTest
  <2> QED BY <2>1, DisturbMoves
<1>6. CASE \E v \in Verifier : Reports!CopyDatabase(v)
  <2>1. UNCHANGED <<deployment, signals, audit, control, decision, clock, report>>
    BY <1>6 DEF Reports!CopyDatabase
  <2> QED BY <2>1, NothingMoves DEF Rests
<1>7. CASE Reports!Restart
  BY <1>7 DEF Reports!Restart
<1> QED BY <1>1, <1>2, <1>3, <1>4, <1>5, <1>6, <1>7 DEF Reports!Next

LEMMA IdleBrief ==
  ASSUME report' = Reports!Idle PROVE BriefInv'
<1>1. report'.at = "idle"
  BY DEF Reports!Idle
<1> QED BY <1>1 DEF BriefInv, BriefShape, ControlsRead, DecisionsRead, Reports!BriefIsTrue,
                    Planning, Gating, WithBackup

(* A write in between.                                                     *)
LEMMA MovesKeepBrief ==
  ASSUME BriefInv, Moves PROVE BriefInv'
<1>1. CASE report.at = "idle"
  <2>1. report'.at = "idle"
    BY <1>1 DEF Moves
  <2> QED BY <2>1 DEF BriefInv, BriefShape, ControlsRead, DecisionsRead, Reports!BriefIsTrue,
                      Planning, Gating, WithBackup
<1>2. CASE report.at # "idle"
  <2>1. /\ DOMAIN report' = DOMAIN report
        /\ \A x \in DOMAIN report : x # "settled" => report'[x] = report[x]
        /\ report'.settled \subseteq report.settled
        /\ \A i \in report'.settled : Reports!Open(i)' <=> Reports!Open(i)
    BY <1>2 DEF Moves
  <2>2. report'.at = report.at /\ report.settled \subseteq Reports!Item
    BY <1>2, <2>1 DEF BriefInv, BriefShape
  <2>3. BriefShape'
    BY <1>2, <2>1, <2>2 DEF BriefInv, BriefShape, WithBackup
  <2>4. report.at \in Planning \cup Gating => report'.actions = report.actions
    BY <2>1 DEF BriefInv, BriefShape
  <2>5. report.at \in WithBackup => report'.backup = report.backup
    BY <2>1 DEF BriefInv, BriefShape
  <2>6. report.at \in {"decisions", "gateDecisions"} => report'.feedback = report.feedback
    BY <2>1 DEF BriefInv, BriefShape
  <2>7. ControlsRead'
    <3>1. ASSUME report.at = "controls", NEW c \in Control, Ctl(c) \in report'.settled,
                 control'[c] = None
          PROVE  (Reports!BaseControl(c, report.backup))' # "ready" <=> Reports!Open(Ctl(c))'
      <4>1. Reports!BaseControl(c, report.backup) # "ready" <=> Reports!Open(Ctl(c))
        BY <2>1, <3>1 DEF BriefInv, ControlsRead, Moves
      <4>2. report'.backup = report.backup
        BY <2>5, <3>1 DEF WithBackup
      <4>3. (Reports!BaseControl(c, report.backup))' = Reports!BaseControl(c, report.backup)
        BY <4>2 DEF Moves, Reports!BaseControl, Reports!TlsState, Reports!Either
      <4>4. Reports!Open(Ctl(c))' <=> Reports!Open(Ctl(c))
        BY <2>1, <3>1
      <4> QED BY <4>1, <4>3, <4>4
    <3>2. ASSUME report.at \in (Planning \ {"controls"}) \cup Gating, NEW c \in Control,
                 Ctl(c) \in report'.settled
          PROVE  Names(report'.actions, Ctl(c)) <=> Reports!Open(Ctl(c))'
      <4>1. Names(report.actions, Ctl(c)) <=> Reports!Open(Ctl(c))
        BY <2>1, <3>2 DEF BriefInv, ControlsRead
      <4>2. report'.actions = report.actions
        BY <2>4, <3>2
      <4>3. Reports!Open(Ctl(c))' <=> Reports!Open(Ctl(c))
        BY <2>1, <3>2
      <4> QED BY <4>1, <4>2, <4>3
    <3> QED BY <2>2, <3>1, <3>2 DEF ControlsRead
  <2>8. DecisionsRead'
    <3>1. ASSUME report.at \in {"decisions", "gateDecisions"}, NEW d \in Decision,
                 Dec(d) \in report'.settled, decision'[d] = None
          PROVE  (Reports!BaseDecision(d, report.backup, report.feedback))' # "ready"
                   <=> Reports!Open(Dec(d))'
      <4>1. Reports!BaseDecision(d, report.backup, report.feedback) # "ready"
              <=> Reports!Open(Dec(d))
        BY <2>1, <3>1 DEF BriefInv, DecisionsRead, Moves
      <4>2. report'.backup = report.backup /\ report'.feedback = report.feedback
        BY <2>5, <2>6, <3>1 DEF WithBackup
      <4>3. (Reports!BaseDecision(d, report.backup, report.feedback))'
              = Reports!BaseDecision(d, report.backup, report.feedback)
        BY <4>2 DEF Moves, Reports!BaseDecision, Reports!Either
      <4>4. Reports!Open(Dec(d))' <=> Reports!Open(Dec(d))
        BY <2>1, <3>1
      <4> QED BY <4>1, <4>3, <4>4
    <3>2. ASSUME report.at \in Gating, NEW d \in Decision, Dec(d) \in report'.settled
          PROVE  Names(report'.actions, Dec(d)) <=> Reports!Open(Dec(d))'
      <4>1. Names(report.actions, Dec(d)) <=> Reports!Open(Dec(d))
        BY <2>1, <3>2 DEF BriefInv, DecisionsRead
      <4>2. report'.actions = report.actions
        BY <2>4, <3>2
      <4>3. Reports!Open(Dec(d))' <=> Reports!Open(Dec(d))
        BY <2>1, <3>2
      <4> QED BY <4>1, <4>2, <4>3
    <3>3. report.at \in Planning => \A a \in report'.actions : a.type = "control"
      BY <2>4 DEF BriefInv, DecisionsRead
    <3> QED BY <2>2, <3>1, <3>2, <3>3 DEF DecisionsRead
  <2>9. Reports!BriefIsTrue'
    <3> SUFFICES ASSUME report.at = "done"
                 PROVE  /\ \A i \in report'.settled : i \in (Reports!Asked)' <=> Reports!Open(i)'
                        /\ (Reports!SettledDecisions)' =>
                             (report'.gate = "phase_3_final_acceptance" <=>
                                \A d \in Decision : ~Reports!Open(Dec(d))')
      BY <2>2 DEF Reports!BriefIsTrue, Dec
    <3>1. report'.packets = report.packets /\ report'.gate = report.gate
      BY <2>1 DEF BriefInv, BriefShape
    <3>2. (Reports!Asked)' = Reports!Asked
      BY <3>1 DEF Reports!Asked
    <3>3. \A i \in report.settled : i \in Reports!Asked <=> Reports!Open(i)
      BY DEF BriefInv, Reports!BriefIsTrue
    <3>4. (Reports!SettledDecisions)' => \A d \in Decision : Dec(d) \in report'.settled
      BY DEF Reports!SettledDecisions, Dec
    <3>5. (\A d \in Decision : Dec(d) \in report.settled) =>
            (report.gate = "phase_3_final_acceptance" <=> \A d \in Decision : ~Reports!Open(Dec(d)))
      BY DEF BriefInv, Reports!BriefIsTrue, Reports!SettledDecisions, Dec
    <3> QED BY <2>1, <3>1, <3>2, <3>3, <3>4, <3>5
  <2> QED BY <2>3, <2>7, <2>8, <2>9 DEF BriefInv
<1> QED BY <1>1, <1>2

LEMMA RestKeepsBrief ==
  ASSUME BriefInv, Rests, UNCHANGED report PROVE BriefInv'
<1>1. CASE report.at = "idle"
  BY <1>1 DEF BriefInv, BriefShape, ControlsRead, DecisionsRead, Reports!BriefIsTrue,
              Planning, Gating, WithBackup
<1>2. CASE report.at # "idle"
  <2>1. Moves
    BY <1>2 DEF Moves, Rests, BriefInv, BriefShape
  <2> QED BY <2>1, MovesKeepBrief
<1> QED BY <1>1, <1>2

(* What a read of the controls, or of the decisions, finds open is what is *)
(* open, as far as it is settled.                                          *)
LEMMA ControlsFound ==
  ASSUME GoLiveTyped, Reports!GoLiveAssumption, BriefInv, report.at = "controls",
         NEW c \in Control, Ctl(c) \in report.settled
  PROVE  c \in Reports!OpenControls(report.backup) <=> Reports!Open(Ctl(c))
<1>1. c \in Reports!OpenControls(report.backup) <=>
        IF control[c] = None THEN Reports!BaseControl(c, report.backup) # "ready"
        ELSE control[c] # "ready"
  BY DEF Reports!OpenControls, Reports!Overruled
<1>2. control[c] = None =>
        (Reports!BaseControl(c, report.backup) # "ready" <=> Reports!Open(Ctl(c)))
  BY DEF BriefInv, ControlsRead
<1>3. control[c] # None => (control[c] # "ready" <=> Reports!Open(Ctl(c)))
  BY OpenMeans
<1> QED BY <1>1, <1>2, <1>3

LEMMA DecisionsFound ==
  ASSUME GoLiveTyped, Reports!GoLiveAssumption, BriefInv,
         report.at \in {"decisions", "gateDecisions"},
         NEW d \in Decision, Dec(d) \in report.settled
  PROVE  d \in Reports!OpenDecisions(report.backup, report.feedback) <=> Reports!Open(Dec(d))
<1> DEFINE base == Reports!BaseDecision(d, report.backup, report.feedback)
<1>1. report.backup \in Backups
  BY DEF BriefInv, BriefShape, WithBackup
<1>2. base # "approved"
  BY <1>1, DecisionBase
<1>3. d \in Reports!OpenDecisions(report.backup, report.feedback) <=>
        IF decision[d] = None THEN base \notin {"ready", "approved"}
        ELSE decision[d] \notin {"ready", "approved"}
  BY DEF Reports!OpenDecisions, Reports!Overruled
<1>4. decision[d] = None => (base # "ready" <=> Reports!Open(Dec(d)))
  BY DEF BriefInv, DecisionsRead
<1>5. decision[d] # None => (decision[d] # "approved" <=> Reports!Open(Dec(d)))
  BY OpenMeans
<1>6. decision[d] # None => decision[d] # "ready"
  BY DEF GoLiveTyped, Reports!GoLiveAssumption
<1> QED BY <1>2, <1>3, <1>4, <1>5, <1>6

(* A packet holds the actions that agree; together they hold them all.     *)
LEMMA PacketsHoldAll == ASSUME NEW A PROVE UNION Reports!Packets(A) = A
<1>1. ASSUME NEW a \in A PROVE a \in UNION Reports!Packets(A)
  <2>1. a \in {b \in A : Reports!Key(b) = Reports!Key(a)}
    OBVIOUS
  <2>2. {b \in A : Reports!Key(b) = Reports!Key(a)} \in Reports!Packets(A)
    BY DEF Reports!Packets
  <2> QED BY <2>1, <2>2
<1>2. ASSUME NEW a \in UNION Reports!Packets(A) PROVE a \in A
  BY DEF Reports!Packets
<1> QED BY <1>1, <1>2

(* What a rest leaves of what was found.                                   *)
LEMMA RestKeepsFound ==
  ASSUME Rests, BriefInv, report.settled \subseteq Reports!Item
  PROVE  /\ \A c \in Control : Ctl(c) \in report.settled =>
              (Reports!Open(Ctl(c))' <=> Reports!Open(Ctl(c)))
         /\ \A d \in Decision : Dec(d) \in report.settled =>
              (Reports!Open(Dec(d))' <=> Reports!Open(Dec(d)))
BY DEF Rests

LEMMA BeginKeeps ==
  ASSUME Rests, Reports!BeginBrief PROVE BriefInv'
<1>1. PICK r : r = [at |-> "controls", backup |-> Reports!BackupState,
                    settled |-> Reports!Item, actions |-> {}]
  OBVIOUS
<1>2. /\ report' = r /\ {"at", "settled", "backup", "actions"} \subseteq DOMAIN r
      /\ r.at = "controls" /\ r.backup = Reports!BackupState /\ r.settled = Reports!Item
      /\ r.actions = {}
  BY <1>1 DEF Reports!BeginBrief
<1>3. (Reports!Item)' = Reports!Item
  BY DEF Reports!Item
<1>4. BriefShape'
  BY <1>2, <1>3, BackupStates DEF BriefShape, Planning, Gating, WithBackup
<1>5. ASSUME NEW c \in Control, control'[c] = None
      PROVE  (Reports!BaseControl(c, report.backup))' # "ready" <=> Reports!Open(Ctl(c))'
  <2>1. (Reports!BaseControl(c, report.backup))' = Reports!BaseControl(c, Reports!BackupState)
    BY <1>2 DEF Rests, Reports!BaseControl, Reports!TlsState, Reports!Either
  <2>2. control[c] = None /\ (Reports!Open(Ctl(c))' <=> Reports!Open(Ctl(c)))
    BY <1>5, ItemKinds DEF Rests
  <2> QED BY <2>1, <2>2, OpenMeans
<1>6. ControlsRead'
  BY <1>2, <1>5 DEF ControlsRead, Planning, Gating
<1>7. DecisionsRead' /\ (Reports!BriefIsTrue)'
  BY <1>2 DEF DecisionsRead, Reports!BriefIsTrue, Planning, Gating
<1> QED BY <1>4, <1>6, <1>7 DEF BriefInv

LEMMA ReadControlsKeeps ==
  ASSUME GoLiveTyped, Reports!GoLiveAssumption, BriefInv, Rests, Reports!ReadControls
  PROVE  BriefInv'
<1> DEFINE asked == {Reports!ControlAction(c, report.backup) : c \in Reports!OpenControls(report.backup)}
<1>1. report.at = "controls" /\ report' = [report EXCEPT !.at = "feedback", !.actions = asked]
  BY DEF Reports!ReadControls
<1>2. PICK A : A = asked
  OBVIOUS
<1>3. /\ {"at", "settled", "actions", "backup"} \subseteq DOMAIN report
      /\ report.settled \subseteq Reports!Item
  BY <1>1 DEF BriefInv, BriefShape, Planning, WithBackup
<1>4. /\ DOMAIN report' = DOMAIN report /\ report'.at = "feedback" /\ report'.actions = A
      /\ report'.settled = report.settled
  BY <1>1, <1>2, <1>3
<1>5. \A a \in A : a.type = "control"
  BY <1>2 DEF Reports!ControlAction
<1>6. ASSUME NEW c \in Control, Ctl(c) \in report.settled
      PROVE  Names(A, Ctl(c)) <=> Reports!Open(Ctl(c))
  <2>1. Names(A, Ctl(c)) <=> c \in Reports!OpenControls(report.backup)
    <3>1. ASSUME NEW k PROVE /\ Reports!ControlAction(k, report.backup).type = "control"
                             /\ Reports!ControlAction(k, report.backup).id = k
      BY DEF Reports!ControlAction
    <3>2. ASSUME c \in Reports!OpenControls(report.backup) PROVE Names(A, Ctl(c))
      BY <1>2, <3>1, <3>2 DEF Names, Ctl
    <3>3. ASSUME Names(A, Ctl(c)) PROVE c \in Reports!OpenControls(report.backup)
      <4>1. PICK k \in Reports!OpenControls(report.backup) :
              [type |-> Reports!ControlAction(k, report.backup).type,
               id |-> Reports!ControlAction(k, report.backup).id] = Ctl(c)
        BY <1>2, <3>3 DEF Names
      <4>2. k = c
        BY <3>1, <4>1 DEF Ctl
      <4> QED BY <4>1, <4>2
    <3> QED BY <3>2, <3>3
  <2> QED BY <1>1, <1>6, <2>1, ControlsFound
<1>7. (Reports!Item)' = Reports!Item
  BY DEF Reports!Item
<1>8. BriefShape'
  BY <1>3, <1>4, <1>7 DEF BriefShape, Planning, Gating, WithBackup
<1>9. ControlsRead'
  BY <1>3, <1>4, <1>6, RestKeepsFound DEF ControlsRead, Planning, Gating
<1>10. DecisionsRead' /\ (Reports!BriefIsTrue)'
  BY <1>4, <1>5 DEF DecisionsRead, Reports!BriefIsTrue, Planning, Gating
<1> QED BY <1>8, <1>9, <1>10 DEF BriefInv

LEMMA ReadFeedbackKeeps ==
  ASSUME BriefInv, Rests, Reports!ReadFeedback PROVE BriefInv'
<1>1. PICK r : r = [at |-> IF report.at = "feedback" THEN "backup" ELSE "gateBackup",
                    feedback |-> Reports!FeedbackSeen, settled |-> report.settled,
                    actions |-> report.actions]
  OBVIOUS
<1>2. report.at \in {"feedback", "gateFeedback"} /\ report' = r
  BY <1>1 DEF Reports!ReadFeedback
<1>3. /\ DOMAIN r = {"at", "feedback", "settled", "actions"}
      /\ r.at = IF report.at = "feedback" THEN "backup" ELSE "gateBackup"
      /\ r.settled = report.settled /\ r.actions = report.actions
  BY <1>1
<1>4. report.settled \subseteq Reports!Item /\ (Reports!Item)' = Reports!Item
  BY <1>2 DEF BriefInv, BriefShape, Reports!Item
<1>5. BriefShape'
  BY <1>2, <1>3, <1>4 DEF BriefShape, Planning, Gating, WithBackup
<1>6. \A c \in Control : Ctl(c) \in report.settled =>
        (Names(report.actions, Ctl(c)) <=> Reports!Open(Ctl(c)))
  BY <1>2 DEF BriefInv, ControlsRead, Planning, Gating
<1>7. ControlsRead'
  BY <1>2, <1>3, <1>4, <1>6, RestKeepsFound DEF ControlsRead, Planning, Gating
<1>8. DecisionsRead'
  <2>1. report.at = "feedback" => \A a \in report.actions : a.type = "control"
    BY DEF BriefInv, DecisionsRead, Planning
  <2>2. report.at = "gateFeedback" => \A d \in Decision : Dec(d) \in report.settled =>
          (Names(report.actions, Dec(d)) <=> Reports!Open(Dec(d)))
    BY DEF BriefInv, DecisionsRead, Gating
  <2> QED BY <1>2, <1>3, <1>4, <2>1, <2>2, RestKeepsFound DEF DecisionsRead, Planning, Gating
<1>9. (Reports!BriefIsTrue)'
  BY <1>2, <1>3 DEF Reports!BriefIsTrue
<1> QED BY <1>5, <1>7, <1>8, <1>9 DEF BriefInv

LEMMA ReadBackupKeeps ==
  ASSUME BriefInv, Rests, Reports!ReadBackup PROVE BriefInv'
<1>1. PICK r : r = [at |-> IF report.at = "backup" THEN "decisions" ELSE "gateDecisions",
                    feedback |-> report.feedback, backup |-> Reports!BackupState,
                    settled |-> report.settled, actions |-> report.actions]
  OBVIOUS
<1>2. report.at \in {"backup", "gateBackup"} /\ report' = r
  BY <1>1 DEF Reports!ReadBackup
<1>3. /\ DOMAIN r = {"at", "feedback", "backup", "settled", "actions"}
      /\ r.at = IF report.at = "backup" THEN "decisions" ELSE "gateDecisions"
      /\ r.settled = report.settled /\ r.actions = report.actions
      /\ r.backup = Reports!BackupState /\ r.feedback = report.feedback
  BY <1>1
<1>4. report.settled \subseteq Reports!Item /\ (Reports!Item)' = Reports!Item
  BY <1>2 DEF BriefInv, BriefShape, Reports!Item
<1>5. BriefShape'
  BY <1>2, <1>3, <1>4, BackupStates DEF BriefShape, Planning, Gating, WithBackup
<1>6. \A c \in Control : Ctl(c) \in report.settled =>
        (Names(report.actions, Ctl(c)) <=> Reports!Open(Ctl(c)))
  BY <1>2 DEF BriefInv, ControlsRead, Planning, Gating
<1>7. ControlsRead'
  BY <1>2, <1>3, <1>4, <1>6, RestKeepsFound DEF ControlsRead, Planning, Gating
<1>8. ASSUME NEW d \in Decision, Dec(d) \in report.settled, decision'[d] = None
      PROVE  (Reports!BaseDecision(d, report.backup, report.feedback))' # "ready"
               <=> Reports!Open(Dec(d))'
  <2>1. (Reports!BaseDecision(d, report.backup, report.feedback))'
          = Reports!BaseDecision(d, Reports!BackupState, report.feedback)
    BY <1>2, <1>3 DEF Rests, Reports!BaseDecision, Reports!Either
  <2>2. decision[d] = None /\ (Reports!Open(Dec(d))' <=> Reports!Open(Dec(d)))
    BY <1>8, ItemKinds DEF Rests
  <2>3. Reports!BaseDecision(d, Reports!BackupState, report.feedback) # "ready"
          <=> Reports!BaseDecision(d, Reports!BackupState, TRUE) # "ready"
    BY BackupStates, DecisionBase
  <2> QED BY <2>1, <2>2, <2>3, OpenMeans
<1>9. DecisionsRead'
  <2>1. report.at = "backup" => \A a \in report.actions : a.type = "control"
    BY DEF BriefInv, DecisionsRead, Planning
  <2>2. report.at = "gateBackup" => \A d \in Decision : Dec(d) \in report.settled =>
          (Names(report.actions, Dec(d)) <=> Reports!Open(Dec(d)))
    BY DEF BriefInv, DecisionsRead, Gating
  <2> QED BY <1>2, <1>3, <1>4, <1>8, <2>1, <2>2, RestKeepsFound
          DEF DecisionsRead, Planning, Gating
<1>10. (Reports!BriefIsTrue)'
  BY <1>2, <1>3 DEF Reports!BriefIsTrue
<1> QED BY <1>5, <1>7, <1>9, <1>10 DEF BriefInv

LEMMA ReadDecisionsKeeps ==
  ASSUME GoLiveTyped, Reports!GoLiveAssumption, BriefInv, Rests, Reports!ReadDecisions
  PROVE  BriefInv'
<1> DEFINE asking == Reports!OpenDecisions(report.backup, report.feedback)
<1>0. PICK A : A = report.actions \cup {Reports!DecisionAction(d) : d \in asking}
  OBVIOUS
<1>1. PICK r : r = [at |-> "gateFeedback", settled |-> report.settled, actions |-> A]
  OBVIOUS
<1>2. report.at = "decisions" /\ report' = r
  BY <1>0, <1>1 DEF Reports!ReadDecisions
<1>3. /\ DOMAIN r = {"at", "settled", "actions"}
      /\ r.at = "gateFeedback" /\ r.settled = report.settled /\ r.actions = A
  BY <1>1
<1>4. report.settled \subseteq Reports!Item /\ (Reports!Item)' = Reports!Item
  BY <1>2 DEF BriefInv, BriefShape, Reports!Item
<1>5. BriefShape'
  BY <1>2, <1>3, <1>4 DEF BriefShape, Planning, Gating, WithBackup
<1>6. \A k : Reports!DecisionAction(k).type = "decision" /\ Reports!DecisionAction(k).id = k
  BY DEF Reports!DecisionAction
<1>7. \A a \in report.actions : a.type = "control"
  BY <1>2 DEF BriefInv, DecisionsRead, Planning
<1> HIDE DEF asking
<1>8. ASSUME NEW c \in Control, Ctl(c) \in report.settled
      PROVE  Names(A, Ctl(c)) <=> Reports!Open(Ctl(c))
  <2>1. Names(A, Ctl(c)) <=> Names(report.actions, Ctl(c))
    <3>1. ASSUME NEW a \in A, [type |-> a.type, id |-> a.id] = Ctl(c) PROVE a \in report.actions
      <4>1. a.type = "control"
        BY <3>1 DEF Ctl
      <4> QED BY <1>0, <1>6, <3>1, <4>1
    <3> QED BY <1>0, <3>1 DEF Names
  <2> QED BY <1>2, <1>8, <2>1 DEF BriefInv, ControlsRead, Planning
<1>9. ASSUME NEW d \in Decision, Dec(d) \in report.settled
      PROVE  Names(A, Dec(d)) <=> Reports!Open(Dec(d))
  <2>1. ASSUME d \in asking PROVE Names(A, Dec(d))
    <3>1. Reports!DecisionAction(d) \in A
      BY <1>0, <2>1
    <3> QED BY <1>6, <3>1 DEF Names, Dec
  <2>2. ASSUME Names(A, Dec(d)) PROVE d \in asking
    <3>1. PICK a \in A : [type |-> a.type, id |-> a.id] = Dec(d)
      BY <2>2 DEF Names
    <3>2. a.type = "decision" /\ a.id = d
      BY <3>1 DEF Dec
    <3>3. PICK k \in asking : a = Reports!DecisionAction(k)
      BY <1>0, <1>7, <3>2
    <3> QED BY <1>6, <3>2, <3>3
  <2> QED BY <1>2, <1>9, <2>1, <2>2, DecisionsFound DEF asking
<1>10. ControlsRead'
  BY <1>2, <1>3, <1>4, <1>8, RestKeepsFound DEF ControlsRead, Planning, Gating
<1>11. DecisionsRead'
  BY <1>2, <1>3, <1>4, <1>9, RestKeepsFound DEF DecisionsRead, Planning, Gating
<1>12. (Reports!BriefIsTrue)'
  BY <1>2, <1>3 DEF Reports!BriefIsTrue
<1> QED BY <1>5, <1>10, <1>11, <1>12 DEF BriefInv

LEMMA AnswerKeeps ==
  ASSUME GoLiveTyped, Reports!GoLiveAssumption, BriefInv, Rests, Reports!Answer
  PROVE  BriefInv'
<1> DEFINE asking == Reports!OpenDecisions(report.backup, report.feedback)
           gate == IF asking = {} THEN "phase_3_final_acceptance" ELSE "production_owner_signoff"
<1>1. PICK P : P = Reports!Packets(report.actions)
  OBVIOUS
<1>2. PICK s : s = IF P = {} THEN "ready" ELSE "action_required"
  OBVIOUS
<1>3. PICK C : C = {a \in report.actions : Reports!Closeable(a)}
  OBVIOUS
<1>4. PICK g : g = gate
  OBVIOUS
<1>5. PICK r : r = [at |-> "done", settled |-> report.settled, packets |-> P, status |-> s,
                    gate |-> g, closeable |-> C]
  OBVIOUS
<1>6. report.at = "gateDecisions" /\ report' = r
  BY <1>1, <1>2, <1>3, <1>4, <1>5 DEF Reports!Answer
<1>7. /\ DOMAIN r = {"at", "settled", "packets", "status", "gate", "closeable"}
      /\ r.at = "done" /\ r.settled = report.settled /\ r.packets = P /\ r.gate = g
  BY <1>5
<1>8. report.settled \subseteq Reports!Item /\ (Reports!Item)' = Reports!Item
  BY <1>6 DEF BriefInv, BriefShape, Reports!Item
<1>9. BriefShape'
  BY <1>6, <1>7, <1>8 DEF BriefShape, Planning, Gating, WithBackup
<1>10. ControlsRead' /\ DecisionsRead'
  BY <1>6, <1>7 DEF ControlsRead, DecisionsRead, Planning, Gating
<1>11. (Reports!Asked)' = {[type |-> a.type, id |-> a.id] : a \in report.actions}
  BY <1>1, <1>6, <1>7, PacketsHoldAll DEF Reports!Asked
<1>12. ASSUME NEW i \in report.settled
       PROVE  i \in (Reports!Asked)' <=> Reports!Open(i)'
  <2>1. i \in (Reports!Asked)' <=> Names(report.actions, i)
    BY <1>11 DEF Names
  <2>2. i \in Reports!Item /\ (Reports!Open(i)' <=> Reports!Open(i))
    BY <1>8 DEF Rests
  <2>3. CASE \E c \in Control : i = Ctl(c)
    BY <1>6, <2>1, <2>2, <2>3 DEF BriefInv, ControlsRead, Gating
  <2>4. CASE \E d \in Decision : i = Dec(d)
    BY <1>6, <2>1, <2>2, <2>4 DEF BriefInv, DecisionsRead, Gating
  <2> QED BY <2>2, <2>3, <2>4, ItemKinds
<1>13. ASSUME \A d \in Decision : Dec(d) \in report.settled
       PROVE  g = "phase_3_final_acceptance" <=> \A d \in Decision : ~Reports!Open(Dec(d))'
  <2>1. \A d \in Decision : d \in asking <=> Reports!Open(Dec(d))
    BY <1>6, <1>13, DecisionsFound
  <2>2. \A d \in Decision : Reports!Open(Dec(d))' <=> Reports!Open(Dec(d))
    BY ItemKinds DEF Rests
  <2>3. asking \subseteq Decision
    BY DEF Reports!OpenDecisions
  <2> HIDE DEF asking
  <2>4. g = "phase_3_final_acceptance" <=> asking = {}
    BY <1>4
  <2> QED BY <2>1, <2>2, <2>3, <2>4
<1>14. (Reports!BriefIsTrue)'
  <2>1. (Reports!SettledDecisions)' => \A d \in Decision : Dec(d) \in report.settled
    BY <1>6, <1>7 DEF Reports!SettledDecisions, Dec
  <2>2. report'.gate = g /\ report'.settled = report.settled
    BY <1>6, <1>7
  <2>3. \A i \in report'.settled : i \in (Reports!Asked)' <=> Reports!Open(i)'
    BY <1>12, <2>2
  <2>4. (Reports!SettledDecisions)' =>
          (report'.gate = "phase_3_final_acceptance" <=>
             \A d \in Decision : ~Reports!Open(Dec(d))')
    BY <1>13, <2>1, <2>2
  <2> QED BY <2>3, <2>4 DEF Reports!BriefIsTrue, Dec
<1> QED BY <1>9, <1>10, <1>14 DEF BriefInv

LEMMA GoLiveInductive ==
  ASSUME Reports!GoLiveAssumption
  PROVE  /\ Reports!Init => GoLiveInv
         /\ GoLiveInv /\ [Reports!Next]_(Reports!vars) => GoLiveInv'
<1>1. ASSUME Reports!Init PROVE GoLiveInv
  <2>1. GoLiveTyped
    BY <1>1 DEF Reports!Init, GoLiveTyped
  <2>2. LastTestKept
    BY <1>1 DEF Reports!Init, LastTestKept, Reports!Tests
  <2>3. report.at = "idle"
    BY <1>1 DEF Reports!Init, Reports!Idle
  <2>4. BriefShape /\ ControlsRead /\ DecisionsRead /\ Reports!BriefIsTrue
    BY <2>3 DEF BriefShape, ControlsRead, DecisionsRead, Reports!BriefIsTrue, Planning, Gating,
                WithBackup
  <2> QED BY <2>1, <2>2, <2>4 DEF GoLiveInv
<1>2. ASSUME GoLiveInv, [Reports!Next]_(Reports!vars) PROVE GoLiveInv'
  <2>1. GoLiveTyped /\ LastTestKept /\ BriefInv /\ BriefShape
    BY <1>2 DEF GoLiveInv, BriefInv
  <2>2. GoLiveTyped' /\ LastTestKept'
    BY <1>2, <2>1, TestsStep
  <2>3. BriefInv'
    <3>1. CASE report' = Reports!Idle
      BY <3>1, IdleBrief
    <3>2. CASE Moves
      BY <2>1, <3>2, MovesKeepBrief
    <3>3. CASE Rests /\ UNCHANGED report
      BY <2>1, <3>3, RestKeepsBrief
    <3>4. CASE Rests /\ (Reports!BeginBrief \/ Reports!ReadControls \/ Reports!ReadFeedback
                         \/ Reports!ReadBackup \/ Reports!ReadDecisions \/ Reports!Answer)
      BY <2>1, <3>4, BeginKeeps, ReadControlsKeeps, ReadFeedbackKeeps, ReadBackupKeeps,
         ReadDecisionsKeeps, AnswerKeeps
    <3> QED BY <1>2, <2>1, <3>1, <3>2, <3>3, <3>4, GoLiveMoves
  <2> QED BY <2>2, <2>3 DEF GoLiveInv, BriefInv
<1> QED BY <1>1, <1>2

(* A ready preflight leaves none of its controls open, whatever is set.    *)
LEMMA PreflightHolds == Reports!PreflightImpliesControls
<1> SUFFICES ASSUME Reports!PreflightReady
             PROVE  \A c \in {"reverse-proxy-tls", "backup-retention", "identity-provider",
                              "mqtt-broker-subscriber", "operator-write-gate"} :
                      Reports!BaseControl(c, Reports!BackupState) = "ready"
  BY DEF Reports!PreflightImpliesControls
<1>1. /\ Reports!TlsState = "ready" /\ Reports!BackupState = "ready"
      /\ Reports!Either(deployment.idp, "customer_action_required") = "ready"
      /\ Reports!Either(deployment.mqtt /\ Reports!MqttRuntimeReady, "customer_action_required") = "ready"
  <2>1. PICK p : p = Reports!Preflight
    OBVIOUS
  <2>2. \A c \in DOMAIN p : p[c] = "ready"
    BY <2>1 DEF Reports!PreflightReady
  <2>3. /\ {"reverse_proxy_tls", "backup_retention", "identity_provider", "mqtt_broker"} \subseteq DOMAIN p
        /\ p.reverse_proxy_tls = Reports!TlsState /\ p.backup_retention = Reports!BackupState
        /\ p.identity_provider = Reports!Either(deployment.idp, "customer_action_required")
        /\ p.mqtt_broker = Reports!Either(deployment.mqtt /\ Reports!MqttRuntimeReady,
                                          "customer_action_required")
    BY <2>1 DEF Reports!Preflight
  <2> QED BY <2>2, <2>3
<1>2. deployment.idp /\ deployment.mqtt
  BY <1>1 DEF Reports!Either
<1> QED BY <1>1, <1>2 DEF Reports!BaseControl, Reports!Either

LEMMA GoLiveHolds ==
  ASSUME Reports!GoLiveAssumption, GoLiveInv PROVE Reports!TypeOK /\ Reports!GoLiveSound
<1>1. Reports!TypeOK
  BY DEF GoLiveInv, GoLiveTyped, BriefShape, Planning, Gating, Reports!TypeOK
<1>2. Reports!GoLiveSound
  BY ReadyMeansRestored, PreflightHolds DEF GoLiveInv, Reports!GoLiveSound
<1> QED BY <1>1, <1>2

-----------------------------------------------------------------------------
(* The assistant's memory and its sweeps.                                  *)

Remembered == [session : ChatSession, at : 0..HoursMax]
Ledger == [Interaction -> Remembered \cup {None}]
Stored(db) ==
  /\ db.is \in Ledger
  /\ IsFiniteSet(Memory!Live(db.is)) /\ IsFiniteSet(db.fs) /\ IsFiniteSet(db.ps)

LEMMA MemoryCardinality == ASSUME NEW S PROVE Memory!Cardinality(S) = Cardinality(S)
BY DEF Memory!Cardinality, Cardinality

(* The newest interaction of a session. *)
LEMMA NewestSeen ==
  ASSUME Memory!MemoryAssumption, NEW is \in Ledger, NEW s \in Memory!Sessions(is)
  PROVE  /\ s \in ChatSession /\ s \in Nat
         /\ Memory!LastSeen(is, s) \in Nat
         /\ \E i \in Memory!Live(is) : is[i].session = s /\ is[i].at = Memory!LastSeen(is, s)
         /\ \A i \in Memory!Live(is) : is[i].session = s => is[i].at <= Memory!LastSeen(is, s)
<1> DEFINE times == {is[i].at : i \in Memory!Of(is, {s})}
           T == {n \in Nat : HoursMax - n \in times}
<1>1. HoursMax \in Nat /\ ChatSession \subseteq Nat /\ None \notin Remembered
  BY DEF Memory!MemoryAssumption, Remembered
<1>2. \A i \in Memory!Live(is) : is[i] \in Remembered
  BY DEF Memory!Live, Ledger
<1>3. s \in ChatSession /\ s \in Nat
  BY <1>1, <1>2 DEF Memory!Sessions, Remembered
<1>4. times \subseteq 0..HoursMax /\ times # {}
  BY <1>2 DEF Memory!Sessions, Memory!Of, Remembered
<1>5. \E t \in times : \A u \in times : u <= t
  <2>1. PICK u \in times : TRUE
    BY <1>4
  <2>2. u \in 0..HoursMax
    BY <2>1, <1>4
  <2>3. HoursMax - u \in T
    <3>1. HoursMax - u \in Nat /\ HoursMax - (HoursMax - u) = u
      BY <1>1, <2>2
    <3> HIDE DEF times
    <3> QED BY <3>1, <2>1
  <2>4. PICK n \in T : \A k \in T : n <= k
    <3>1. T \in SUBSET Nat /\ T # {}
      BY <2>3
    <3> HIDE DEF T
    <3> QED BY <3>1, LeastExists
  <2>5. ASSUME NEW v \in times PROVE v <= HoursMax - n
    <3>0. v \in 0..HoursMax
      <4> HIDE DEF times
      <4> QED BY <1>4
    <3>1. HoursMax - v \in Nat /\ HoursMax - (HoursMax - v) = v /\ v \in Nat
      BY <1>1, <3>0
    <3>2. HoursMax - v \in T
      <4> HIDE DEF times
      <4> QED BY <3>1
    <3>3. n <= HoursMax - v /\ n \in Nat
      <4> HIDE DEF times
      <4>1. n \in Nat
        OBVIOUS
      <4> HIDE DEF T
      <4> QED BY <3>2, <2>4, <4>1
    <3> QED BY <1>1, <3>1, <3>3
  <2> QED BY <2>4, <2>5
<1>6. Memory!LastSeen(is, s) \in times /\ \A u \in times : u <= Memory!LastSeen(is, s)
  <2>1. Memory!LastSeen(is, s) = CHOOSE t \in times : \A u \in times : u <= t
    BY DEF Memory!LastSeen
  <2> HIDE DEF times
  <2> QED BY <1>5, <2>1
<1> QED BY <1>3, <1>4, <1>6 DEF Memory!Of

(* The order of the sessions is total and strict.                          *)
LEMMA SessionOrder ==
  ASSUME Memory!MemoryAssumption, NEW is \in Ledger
  PROVE  /\ \A s \in Memory!Sessions(is) : ~Memory!Older(is, s, s)
         /\ \A s, t \in Memory!Sessions(is) : s # t => Memory!Older(is, s, t) \/ Memory!Older(is, t, s)
         /\ \A r, s, t \in Memory!Sessions(is) :
              Memory!Older(is, r, s) /\ Memory!Older(is, s, t) => Memory!Older(is, r, t)
<1>1. \A s \in Memory!Sessions(is) : s \in Nat /\ Memory!LastSeen(is, s) \in Nat
  BY NewestSeen
<1> QED BY <1>1 DEF Memory!Older

LEMMA OldestSession ==
  ASSUME Memory!MemoryAssumption, NEW is \in Ledger, NEW K \in SUBSET Memory!Sessions(is), K # {}
  PROVE  \E m \in K : \A s \in K \ {m} : Memory!Older(is, m, s)
<1> DEFINE T == {Memory!LastSeen(is, s) : s \in K}
<1>1. \A s \in K : s \in Nat /\ Memory!LastSeen(is, s) \in Nat
  BY NewestSeen
<1>2. PICK t \in T : \A u \in T : t <= u
  <2>1. T \in SUBSET Nat /\ T # {}
    BY <1>1
  <2> HIDE DEF T
  <2> QED BY <2>1, LeastExists
<1> DEFINE U == {s \in K : Memory!LastSeen(is, s) = t}
<1>3. PICK m \in U : \A s \in U : m <= s
  <2>1. U \in SUBSET Nat /\ U # {}
    BY <1>1, <1>2
  <2> HIDE DEF U
  <2> QED BY <2>1, LeastExists
<1>4. ASSUME NEW s \in K \ {m} PROVE Memory!Older(is, m, s)
  <2>1. t <= Memory!LastSeen(is, s) /\ Memory!LastSeen(is, m) = t /\ m \in K
    BY <1>2, <1>3
  <2>2. Memory!LastSeen(is, s) = t => m <= s
    BY <1>3
  <2> QED BY <1>1, <2>1, <2>2 DEF Memory!Older
<1> QED BY <1>3, <1>4

(* Part of a ledger: rows are removed, not changed.                        *)
Part(js, is) ==
  /\ js \in Ledger /\ Memory!Live(js) \subseteq Memory!Live(is)
  /\ \A i \in Memory!Live(js) : js[i] = is[i]

(* A session whose newest interaction stays keeps its place in the order.  *)
LEMMA SeenSame ==
  ASSUME Memory!MemoryAssumption, NEW is \in Ledger, NEW js, Part(js, is), NEW s \in Memory!Sessions(js),
         \A i \in Memory!Live(is), j \in Memory!Live(js) :
           is[i].session = s /\ js[j].session = s /\ is[i].at >= js[j].at => i \in Memory!Live(js)
  PROVE  s \in Memory!Sessions(is) /\ Memory!LastSeen(js, s) = Memory!LastSeen(is, s)
<1>1. s \in Memory!Sessions(is)
  BY DEF Part, Memory!Sessions
<1>2. PICK j \in Memory!Live(js) : js[j].session = s /\ js[j].at = Memory!LastSeen(js, s)
  BY NewestSeen DEF Part
<1>3. PICK i \in Memory!Live(is) : is[i].session = s /\ is[i].at = Memory!LastSeen(is, s)
  BY <1>1, NewestSeen
<1>4. j \in Memory!Live(is) /\ is[j] = js[j]
  BY DEF Part
<1>5. Memory!LastSeen(js, s) <= Memory!LastSeen(is, s)
  BY <1>1, <1>2, <1>4, NewestSeen
<1>6. i \in Memory!Live(js) /\ js[i] = is[i]
  BY <1>2, <1>3, <1>4, <1>5, NewestSeen DEF Part
<1>7. Memory!LastSeen(is, s) <= Memory!LastSeen(js, s)
  BY <1>3, <1>6, NewestSeen DEF Part
<1>8. Memory!LastSeen(is, s) \in Nat /\ Memory!LastSeen(js, s) \in Nat
  BY <1>1, NewestSeen DEF Part
<1> QED BY <1>1, <1>5, <1>7, <1>8

LEMMA SessionsFinite ==
  ASSUME NEW is \in Ledger, IsFiniteSet(Memory!Live(is))
  PROVE  IsFiniteSet(Memory!Sessions(is))
<1> DEFINE f == [i \in Memory!Live(is) |-> is[i].session]
<1>1. f \in Surjection(Memory!Live(is), Memory!Sessions(is))
  BY DEF Surjection, Memory!Sessions
<1> HIDE DEF f
<1> QED BY <1>1, FS_Surjection

LEMMA SmallerCount ==
  ASSUME NEW S, NEW T, IsFiniteSet(T), S \subseteq T
  PROVE  /\ IsFiniteSet(S) /\ Cardinality(S) \in Nat /\ Cardinality(T) \in Nat
         /\ Cardinality(S) <= Cardinality(T)
BY FS_Subset, FS_CardinalityType

(* What is part of it takes no more room.                                  *)
LEMMA UsageLess ==
  ASSUME NEW d, NEW e, Stored(d), Stored(e), Memory!Live(d.is) \subseteq Memory!Live(e.is),
         d.fs \subseteq e.fs, d.ps \subseteq e.ps
  PROVE  /\ Memory!Usage(d) \in Nat /\ Memory!Usage(e) \in Nat
         /\ Memory!Usage(d) <= Memory!Usage(e)
<1> DEFINE a == Cardinality(Memory!Live(d.is))
           b == Cardinality(d.fs)
           c == Cardinality(d.ps)
           x == Cardinality(Memory!Live(e.is))
           y == Cardinality(e.fs)
           z == Cardinality(e.ps)
<1>1. /\ a \in Nat /\ b \in Nat /\ c \in Nat /\ x \in Nat /\ y \in Nat /\ z \in Nat
      /\ a <= x /\ b <= y /\ c <= z
  BY SmallerCount DEF Stored
<1>2. Memory!Usage(d) = 2 * a + b + c /\ Memory!Usage(e) = 2 * x + y + z
  BY MemoryCardinality DEF Memory!Usage
<1> HIDE DEF a, b, c, x, y, z
<1> QED BY <1>1, <1>2

(* The session cap and the budget cut the order of the sessions: what goes *)
(* is older than what stays.                                               *)
NewerOf(is, O, s) == {t \in O : Memory!Older(is, s, t)}
OlderOf(is, O, s) == {t \in O : Memory!Older(is, t, s)}

LEMMA CapCut ==
  ASSUME Memory!MemoryAssumption, NEW is \in Ledger, NEW O \in SUBSET Memory!Sessions(is),
         IsFiniteSet(O), NEW room \in Nat, NEW gone \in SUBSET O,
         \A s \in O : s \in gone <=> Cardinality(NewerOf(is, O, s)) >= room
  PROVE  /\ \A s \in gone, t \in O \ gone : Memory!Older(is, s, t)
         /\ Cardinality(O \ gone) <= room
<1> DEFINE newer(s) == NewerOf(is, O, s)
<1> USE DEF NewerOf
<1>0. \A s \in O : IsFiniteSet(newer(s)) /\ Cardinality(newer(s)) \in Nat
  BY SmallerCount
<1>1. ASSUME NEW s \in gone, NEW t \in O \ gone PROVE Memory!Older(is, s, t)
  <2>1. s \in O /\ t \in O /\ Cardinality(newer(s)) >= room /\ ~(Cardinality(newer(t)) >= room)
    OBVIOUS
  <2>2. ASSUME Memory!Older(is, t, s) PROVE FALSE
    <3>1. newer(s) \subseteq newer(t)
      BY <2>1, <2>2, SessionOrder
    <3>2. Cardinality(newer(s)) <= Cardinality(newer(t))
      BY <3>1, <1>0, <2>1, SmallerCount
    <3> HIDE DEF newer
    <3> QED BY <3>2, <2>1, <1>0
  <2>3. s # t
    BY <2>1
  <2> QED BY <2>1, <2>2, <2>3, SessionOrder
<1>2. Cardinality(O \ gone) <= room
  <2> DEFINE K == O \ gone
  <2>0. IsFiniteSet(K) /\ Cardinality(K) \in Nat
    BY SmallerCount
  <2>1. CASE K = {}
    <3>1. Cardinality(K) = 0
      BY <2>1, FS_EmptySet
    <3> QED BY <3>1
  <2>2. CASE K # {}
    <3>1. PICK m \in K : \A s \in K \ {m} : Memory!Older(is, m, s)
      BY <2>2, OldestSession
    <3>2. K \ {m} \subseteq newer(m) /\ m \in O /\ ~(Cardinality(newer(m)) >= room)
      BY <3>1
    <3>3. Cardinality(K \ {m}) <= Cardinality(newer(m)) /\ Cardinality(K \ {m}) \in Nat
      BY <3>2, <1>0, SmallerCount
    <3>4. Cardinality(K \ {m}) = Cardinality(K) - 1
      BY <2>0, <3>1, FS_RemoveElement
    <3> HIDE DEF newer, K
    <3>5. Cardinality(K) <= room
      BY <2>0, <3>2, <3>3, <3>4, <1>0
    <3> QED BY <3>5 DEF K
  <2> QED BY <2>1, <2>2
<1> QED BY <1>1, <1>2

(* Dropping sessions leaves the other ones as they are.                    *)
LEMMA DropShape ==
  ASSUME Memory!MemoryAssumption, NEW db, Stored(db), NEW S, NEW d, d = Memory!Drop(db, S)
  PROVE  /\ Stored(d) /\ Part(d.is, db.is)
         /\ d.fs \subseteq db.fs /\ d.ps \subseteq db.ps
         /\ Memory!Live(d.is) = {i \in Memory!Live(db.is) : db.is[i].session \notin S}
         /\ Memory!Sessions(d.is) = Memory!Sessions(db.is) \ S
         /\ \A s \in Memory!Sessions(d.is) : Memory!LastSeen(d.is, s) = Memory!LastSeen(db.is, s)
<1>1. /\ d.is = [i \in Interaction |-> IF i \in Memory!Of(db.is, S) THEN None ELSE db.is[i]]
      /\ d.fs = {f \in db.fs : f.session \notin S} /\ d.ps = {x \in db.ps : x.session \notin S}
  BY DEF Memory!Drop, Memory!Without
<1>2. d.is \in Ledger
  BY <1>1 DEF Stored, Ledger
<1>3. Memory!Live(d.is) = {i \in Memory!Live(db.is) : db.is[i].session \notin S}
  BY <1>1 DEF Memory!Live, Memory!Of
<1>4. \A i \in Memory!Live(d.is) : d.is[i] = db.is[i]
  BY <1>1, <1>3 DEF Memory!Live
<1>5. Part(d.is, db.is)
  BY <1>2, <1>3, <1>4 DEF Part
<1>6. Stored(d)
  <2>1. Memory!Live(d.is) \subseteq Memory!Live(db.is) /\ d.fs \subseteq db.fs /\ d.ps \subseteq db.ps
    BY <1>1, <1>3
  <2> QED BY <1>2, <2>1, SmallerCount DEF Stored
<1>7. Memory!Sessions(d.is) = Memory!Sessions(db.is) \ S
  BY <1>3, <1>4 DEF Memory!Sessions
<1>8. ASSUME NEW s \in Memory!Sessions(d.is) PROVE Memory!LastSeen(d.is, s) = Memory!LastSeen(db.is, s)
  BY <1>3, <1>5, <1>7, SeenSame DEF Stored
<1> QED BY <1>1, <1>3, <1>5, <1>6, <1>7, <1>8

(* The more sessions are dropped, the less remains.                        *)
LEMMA DropLess ==
  ASSUME Memory!MemoryAssumption, NEW db, Stored(db), NEW S, NEW T \in SUBSET S
  PROVE  /\ Memory!Usage(Memory!Drop(db, S)) \in Nat /\ Memory!Usage(Memory!Drop(db, T)) \in Nat
         /\ Memory!Usage(Memory!Drop(db, S)) <= Memory!Usage(Memory!Drop(db, T))
<1> DEFINE d == Memory!Drop(db, S)
           e == Memory!Drop(db, T)
<1>1. /\ Memory!Live(d.is) \subseteq Memory!Live(e.is)
      /\ Stored(d) /\ Stored(e)
  BY DropShape
<1>2. d.fs \subseteq e.fs /\ d.ps \subseteq e.ps
  BY DEF Memory!Drop
<1> HIDE DEF d, e
<1> QED BY <1>1, <1>2, UsageLess DEF d, e

LEMMA BudgetCut ==
  ASSUME Memory!MemoryAssumption, NEW db, Stored(db), NEW O \in SUBSET Memory!Sessions(db.is),
         NEW budget \in Nat, NEW gone \in SUBSET O,
         \A s \in O : s \in gone <=> Memory!Usage(Memory!Drop(db, OlderOf(db.is, O, s))) > budget
  PROVE  /\ \A s \in gone, t \in O \ gone : Memory!Older(db.is, s, t)
         /\ O \ gone # {} => Memory!Usage(Memory!Drop(db, gone)) <= budget
<1> USE DEF OlderOf
<1> DEFINE before(s) == OlderOf(db.is, O, s)
           left(s) == Memory!Usage(Memory!Drop(db, before(s)))
<1>0. /\ db.is \in Ledger
      /\ \A s \in O : left(s) \in Nat /\ (s \in gone <=> left(s) > budget)
  <2>1. ASSUME NEW s \in O PROVE left(s) \in Nat
    BY DropLess
  <2> HIDE DEF left
  <2>2. \A s \in O : s \in gone <=> left(s) > budget
    BY DEF left
  <2> QED BY <2>1, <2>2 DEF Stored
<1>1. ASSUME NEW s \in gone, NEW t \in O \ gone PROVE Memory!Older(db.is, s, t)
  <2>1. s \in O /\ t \in O /\ left(s) > budget /\ ~(left(t) > budget) /\ s # t
    <3> HIDE DEF left
    <3> QED BY <1>0
  <2>2. ASSUME Memory!Older(db.is, t, s) PROVE FALSE
    <3>1. before(t) \in SUBSET before(s)
      BY <2>1, <2>2, <1>0, SessionOrder
    <3>2. left(s) <= left(t)
      BY <3>1, DropLess
    <3> HIDE DEF left
    <3> QED BY <3>2, <2>1, <1>0
  <2> QED BY <2>1, <2>2, <1>0, SessionOrder
<1>2. ASSUME O \ gone # {} PROVE Memory!Usage(Memory!Drop(db, gone)) <= budget
  <2>1. PICK m \in O \ gone : \A s \in (O \ gone) \ {m} : Memory!Older(db.is, m, s)
    <3>1. O \ gone \in SUBSET Memory!Sessions(db.is)
      OBVIOUS
    <3> QED BY <1>0, <1>2, <3>1, OldestSession
  <2>2. before(m) = gone
    <3>1. gone \subseteq before(m)
      BY <1>0, <1>1, <2>1
    <3>2. ASSUME NEW s \in before(m) PROVE s \in gone
      BY <1>0, <2>1, <3>2, SessionOrder
    <3> QED BY <3>1, <3>2
  <2>3. left(m) = Memory!Usage(Memory!Drop(db, gone))
    BY <2>2
  <2>4. ~(left(m) > budget) /\ left(m) \in Nat
    <3> HIDE DEF left
    <3> QED BY <1>0, <2>1
  <2> HIDE DEF left
  <2> QED BY <2>3, <2>4
<1> QED BY <1>1, <1>2

(* What has expired goes; what has not, stays.                             *)
LEMMA ExpireShape ==
  ASSUME Memory!MemoryAssumption, NEW db, Stored(db), clock \in Nat, NEW p, p.hours \in Nat,
         NEW e, e = Memory!Expire(db, p), db = [is |-> db.is, fs |-> db.fs, ps |-> db.ps]
  PROVE  /\ Stored(e) /\ Part(e.is, db.is)
         /\ Memory!Live(e.is) = {i \in Memory!Live(db.is) : ~(db.is[i].at < clock - p.hours)}
         /\ e.fs \subseteq db.fs /\ e.ps \subseteq db.ps
         /\ \A s \in Memory!Sessions(e.is) : /\ s \in Memory!Sessions(db.is)
                                            /\ Memory!LastSeen(e.is, s) = Memory!LastSeen(db.is, s)
<1> DEFINE out == {i \in Memory!Live(db.is) : db.is[i].at < clock - p.hours}
<1>1. e = [db EXCEPT !.is = Memory!Without(@, out), !.fs = {f \in @ : f.interaction \notin out}]
  BY DEF Memory!Expire
<1>2. /\ e.is = [i \in Interaction |-> IF i \in out THEN None ELSE db.is[i]]
      /\ e.fs = {f \in db.fs : f.interaction \notin out} /\ e.ps = db.ps
  <2> HIDE DEF out
  <2> QED BY <1>1 DEF Memory!Without
<1>3. e.is \in Ledger
  BY <1>2 DEF Stored, Ledger
<1>4. Memory!Live(e.is) = Memory!Live(db.is) \ out
  <2> HIDE DEF out
  <2> QED BY <1>2 DEF Memory!Live
<1>5. \A i \in Memory!Live(e.is) : e.is[i] = db.is[i]
  BY <1>2, <1>4 DEF Memory!Live
<1>6. Part(e.is, db.is)
  BY <1>3, <1>4, <1>5 DEF Part
<1>7. Stored(e)
  <2>1. Memory!Live(e.is) \subseteq Memory!Live(db.is) /\ e.fs \subseteq db.fs /\ e.ps \subseteq db.ps
    BY <1>2, <1>4
  <2> QED BY <1>3, <2>1, SmallerCount DEF Stored
<1>8. ASSUME NEW s \in Memory!Sessions(e.is)
      PROVE  s \in Memory!Sessions(db.is) /\ Memory!LastSeen(e.is, s) = Memory!LastSeen(db.is, s)
  <2>1. \A i \in Memory!Live(db.is) : db.is[i].at \in Nat
    BY DEF Stored, Ledger, Memory!Live, Remembered, Memory!MemoryAssumption
  <2>2. ASSUME NEW i \in Memory!Live(db.is), NEW j \in Memory!Live(e.is), db.is[i].at >= e.is[j].at
        PROVE  i \in Memory!Live(e.is)
    <3>1. j \in Memory!Live(db.is) /\ e.is[j].at = db.is[j].at /\ ~(db.is[j].at < clock - p.hours)
      BY <1>4, <1>5
    <3>2. ~(db.is[i].at < clock - p.hours)
      BY <2>1, <2>2, <3>1
    <3> QED BY <1>4, <3>2
  <2> QED BY <1>6, <2>2, SeenSame DEF Stored
<1> QED BY <1>2, <1>4, <1>6, <1>7, <1>8

(* A sweep: its cap, its budget and its orphans, one after the other.      *)
MemoryTables(is, fs, ps) == [is |-> is, fs |-> fs, ps |-> ps]
LEMMA CapShape ==
  ASSUME Memory!MemoryAssumption, NEW db, Stored(db), NEW p, p.sessions \in Nat \ {0}, NEW kept
  PROVE  \E gone \in SUBSET (Memory!Sessions(db.is) \ {kept}) :
           /\ Memory!CapSessions(db, p, kept) = Memory!Drop(db, gone)
           /\ \A s \in gone, t \in (Memory!Sessions(db.is) \ {kept}) \ gone : Memory!Older(db.is, s, t)
           /\ Cardinality(Memory!Sessions(db.is) \ gone) <= p.sessions
<1> DEFINE all_ == Memory!Sessions(db.is)
           O == all_ \ {kept}
           its == all_ \cap {kept}
           room == p.sessions - Cardinality(its)
           gone == {s \in O : Cardinality(NewerOf(db.is, O, s)) >= room}
<1>1. IsFiniteSet(all_)
  BY SessionsFinite DEF Stored
<1>2. IsFiniteSet(O) /\ IsFiniteSet(its) /\ Cardinality(its) \in 0..1
  <2>1. its \subseteq {kept} /\ IsFiniteSet({kept}) /\ Cardinality({kept}) = 1
    BY FS_Singleton
  <2>2. IsFiniteSet(its) /\ Cardinality(its) \in Nat /\ Cardinality(its) <= 1
    <3> HIDE DEF its
    <3> QED BY <2>1, SmallerCount
  <2>3. IsFiniteSet(O)
    BY <1>1, SmallerCount
  <2> QED BY <2>2, <2>3
<1>3. room \in Nat
  BY <1>2
<1>4. Memory!CapSessions(db, p, kept) = Memory!Drop(db, gone)
  BY MemoryCardinality DEF Memory!CapSessions, NewerOf
<1>5. db.is \in Ledger /\ O \in SUBSET Memory!Sessions(db.is)
  BY DEF Stored
<1>6. /\ \A s \in gone, t \in O \ gone : Memory!Older(db.is, s, t)
      /\ Cardinality(O \ gone) <= room
  <2>1. gone \in SUBSET O /\ \A s \in O : s \in gone <=> Cardinality(NewerOf(db.is, O, s)) >= room
    OBVIOUS
  <2> HIDE DEF gone, room, O
  <2> QED BY <1>2, <1>3, <1>5, <2>1, CapCut
<1>7. Cardinality(all_ \ gone) <= p.sessions
  <2>1. all_ \ gone = (O \ gone) \cup its /\ (O \ gone) \cap its = {}
    OBVIOUS
  <2>2. IsFiniteSet(O \ gone) /\ Cardinality(O \ gone) \in Nat
    BY <1>2, SmallerCount
  <2> HIDE DEF gone, O, its, all_
  <2>3. Cardinality((O \ gone) \cup its) = Cardinality(O \ gone) + Cardinality(its) - Cardinality({})
    <3>1. IsFiniteSet(O \ gone) /\ IsFiniteSet(its) /\ (O \ gone) \cap its = {}
      BY <1>2, <2>1, <2>2
    <3> QED BY <3>1, FS_Union
  <2>4. Cardinality({}) = 0
    BY FS_EmptySet
  <2>5. Cardinality(O \ gone) + Cardinality(its) <= p.sessions
    BY <1>2, <1>6, <2>2
  <2>6. Cardinality(all_ \ gone) = Cardinality(O \ gone) + Cardinality(its)
    <3>1. Cardinality(all_ \ gone) = Cardinality(O \ gone) + Cardinality(its) - 0
      BY <2>1, <2>3, <2>4, Zenon
    <3> QED BY <3>1, <1>2, <2>2
  <2> QED BY <2>5, <2>6
<1> HIDE DEF room
<1>8. gone \in SUBSET O
  OBVIOUS
<1> HIDE DEF gone
<1> QED BY <1>4, <1>6, <1>7, <1>8

LEMMA SweepStages ==
  ASSUME Memory!MemoryAssumption, NEW db, Stored(db), db = MemoryTables(db.is, db.fs, db.ps),
         clock \in Nat, NEW p \in MemoryChoice, NEW kept,
         NEW u, u = Memory!Swept(p, kept), db = MemoryTables(interactions, feedback, proposals)
  PROVE  /\ Stored(u) /\ Part(u.is, db.is) /\ u.fs \subseteq db.fs /\ u.ps \subseteq db.ps
         /\ \A f \in u.fs : f.interaction \in Memory!Live(u.is)
         /\ \A x \in u.ps : x.session \in Memory!Sessions(u.is)
         /\ \A i \in Memory!Live(db.is) \ Memory!Live(u.is) :
              \/ db.is[i].at < clock - p.hours
              \/ /\ db.is[i].session # kept
                 /\ \A s \in Memory!Sessions(u.is) \ {kept} : Memory!Older(db.is, db.is[i].session, s)
         /\ Cardinality(Memory!Sessions(u.is)) <= p.sessions
         /\ Memory!Usage(u) <= p.budget \/ Memory!Sessions(u.is) \subseteq {kept}
<1>0. p.hours \in Nat /\ p.sessions \in Nat \ {0} /\ p.budget \in Nat
  BY DEF Memory!MemoryAssumption
<1> DEFINE e == Memory!Expire(db, p)
           k == Memory!CapSessions(e, p, kept)
           b == Memory!CapUsage(k, p, kept)
<1>u. u = Memory!Orphans(b)
  BY DEF Memory!Swept, MemoryTables
<1>1. /\ Stored(e) /\ Part(e.is, db.is)
      /\ Memory!Live(e.is) = {i \in Memory!Live(db.is) : ~(db.is[i].at < clock - p.hours)}
      /\ e.fs \subseteq db.fs /\ e.ps \subseteq db.ps
      /\ \A s \in Memory!Sessions(e.is) : /\ s \in Memory!Sessions(db.is)
                                         /\ Memory!LastSeen(e.is, s) = Memory!LastSeen(db.is, s)
  BY <1>0, ExpireShape DEF MemoryTables
<1> HIDE DEF e
<1>2. PICK gone \in SUBSET (Memory!Sessions(e.is) \ {kept}) :
        /\ k = Memory!Drop(e, gone)
        /\ \A s \in gone, t \in (Memory!Sessions(e.is) \ {kept}) \ gone : Memory!Older(e.is, s, t)
        /\ Cardinality(Memory!Sessions(e.is) \ gone) <= p.sessions
  BY <1>0, <1>1, CapShape
<1> HIDE DEF k
<1>3. /\ Stored(k) /\ Part(k.is, e.is) /\ k.fs \subseteq e.fs /\ k.ps \subseteq e.ps
      /\ Memory!Live(k.is) = {i \in Memory!Live(e.is) : e.is[i].session \notin gone}
      /\ Memory!Sessions(k.is) = Memory!Sessions(e.is) \ gone
      /\ \A s \in Memory!Sessions(k.is) : Memory!LastSeen(k.is, s) = Memory!LastSeen(e.is, s)
  BY <1>1, <1>2, DropShape
<1> DEFINE O == Memory!Sessions(k.is) \ {kept}
           late == {s \in O : Memory!Usage(Memory!Drop(k, OlderOf(k.is, O, s))) > p.budget}
<1>4. b = Memory!Drop(k, late)
  BY DEF Memory!CapUsage, OlderOf
<1>5. /\ \A s \in late, t \in O \ late : Memory!Older(k.is, s, t)
      /\ O \ late # {} => Memory!Usage(b) <= p.budget
  <2>1. /\ late \in SUBSET O
        /\ \A s \in O : s \in late <=> Memory!Usage(Memory!Drop(k, OlderOf(k.is, O, s))) > p.budget
    OBVIOUS
  <2>2. O \in SUBSET Memory!Sessions(k.is)
    OBVIOUS
  <2> HIDE DEF late, O, b
  <2> QED BY <1>0, <1>3, <1>4, <2>1, <2>2, BudgetCut
<1>l. late \in SUBSET O
  OBVIOUS
<1> HIDE DEF late, b
<1>6. /\ Stored(b) /\ Part(b.is, k.is) /\ b.fs \subseteq k.fs /\ b.ps \subseteq k.ps
      /\ Memory!Live(b.is) = {i \in Memory!Live(k.is) : k.is[i].session \notin late}
      /\ Memory!Sessions(b.is) = Memory!Sessions(k.is) \ late
  BY <1>3, <1>4, DropShape
<1>7. /\ u.is = b.is /\ u.fs = {f \in b.fs : f.interaction \in Memory!Live(b.is)}
      /\ u.ps = {x \in b.ps : x.session \in Memory!Sessions(b.is)}
  <2>1. b = MemoryTables(b.is, b.fs, b.ps)
    BY <1>4 DEF Memory!Drop, MemoryTables
  <2>2. DOMAIN b = {"is", "fs", "ps"}
    <3>1. DOMAIN MemoryTables(b.is, b.fs, b.ps) = {"is", "fs", "ps"}
      BY DEF MemoryTables
    <3> QED BY <2>1, <3>1
  <2> QED BY <1>u, <2>2 DEF Memory!Orphans
<1>8. Stored(u) /\ u.fs \subseteq b.fs /\ u.ps \subseteq b.ps
  <2>1. u.fs \subseteq b.fs /\ u.ps \subseteq b.ps
    BY <1>7
  <2> QED BY <1>6, <1>7, <2>1, SmallerCount DEF Stored
<1>9. Part(u.is, db.is)
  BY <1>1, <1>3, <1>6, <1>7 DEF Part
<1>10. ASSUME NEW i \in Memory!Live(db.is) \ Memory!Live(u.is), ~(db.is[i].at < clock - p.hours)
       PROVE  /\ db.is[i].session # kept
              /\ \A s \in Memory!Sessions(u.is) \ {kept} : Memory!Older(db.is, db.is[i].session, s)
  <2>1. i \in Memory!Live(e.is) /\ e.is[i] = db.is[i] /\ e.is[i].session \in Memory!Sessions(e.is)
    BY <1>1, <1>10 DEF Part, Memory!Sessions
  <2>2. CASE e.is[i].session \in gone
    <3>1. db.is[i].session # kept
      BY <1>2, <2>1, <2>2
    <3>2. ASSUME NEW s \in Memory!Sessions(u.is) \ {kept} PROVE Memory!Older(db.is, db.is[i].session, s)
      <4>1. s \in (Memory!Sessions(e.is) \ {kept}) \ gone
        BY <1>3, <1>6, <1>7, <3>2
      <4>2. Memory!Older(e.is, e.is[i].session, s)
        BY <1>2, <2>2, <4>1
      <4> QED BY <1>1, <2>1, <4>1, <4>2 DEF Memory!Older
    <3> QED BY <3>1, <3>2
  <2>3. CASE e.is[i].session \notin gone
    <3>1. i \in Memory!Live(k.is) /\ k.is[i] = e.is[i] /\ k.is[i].session \in Memory!Sessions(k.is)
      BY <1>3, <2>1, <2>3 DEF Part, Memory!Sessions
    <3>2. k.is[i].session \in late
      BY <1>6, <1>7, <1>10, <3>1
    <3>3. db.is[i].session # kept
      BY <1>l, <2>1, <3>1, <3>2
    <3>4. ASSUME NEW s \in Memory!Sessions(u.is) \ {kept} PROVE Memory!Older(db.is, db.is[i].session, s)
      <4>1. s \in O \ late /\ s \in Memory!Sessions(e.is)
        BY <1>3, <1>6, <1>7, <3>4
      <4>2. Memory!Older(k.is, k.is[i].session, s)
        BY <1>5, <3>2, <4>1
      <4> QED BY <1>1, <1>3, <2>1, <3>1, <4>1, <4>2 DEF Memory!Older
    <3> QED BY <3>3, <3>4
  <2> QED BY <2>2, <2>3
<1>11. Cardinality(Memory!Sessions(u.is)) <= p.sessions
  <2>1. Memory!Sessions(u.is) \subseteq Memory!Sessions(k.is) /\ IsFiniteSet(Memory!Sessions(k.is))
    BY <1>3, <1>6, <1>7, SessionsFinite DEF Stored
  <2>2. /\ Cardinality(Memory!Sessions(u.is)) <= Cardinality(Memory!Sessions(k.is))
        /\ Cardinality(Memory!Sessions(u.is)) \in Nat /\ Cardinality(Memory!Sessions(k.is)) \in Nat
    BY <2>1, SmallerCount
  <2>3. Cardinality(Memory!Sessions(k.is)) <= p.sessions
    BY <1>2, <1>3
  <2> QED BY <1>0, <2>2, <2>3
<1>12. Memory!Usage(u) <= p.budget \/ Memory!Sessions(u.is) \subseteq {kept}
  <2>1. CASE O \ late = {}
    BY <1>6, <1>7, <2>1
  <2>2. CASE O \ late # {}
    <3>1. /\ Memory!Usage(u) \in Nat /\ Memory!Usage(b) \in Nat
          /\ Memory!Usage(u) <= Memory!Usage(b)
      BY <1>6, <1>7, <1>8, UsageLess
    <3> QED BY <1>0, <1>5, <2>2, <3>1
  <2> QED BY <2>1, <2>2
<1>13. u.fs \subseteq db.fs /\ u.ps \subseteq db.ps
  BY <1>1, <1>3, <1>6, <1>8
<1> QED BY <1>7, <1>8, <1>9, <1>10, <1>11, <1>12, <1>13

(* Requests keep what they have read, and every table stays finite.        *)
Guarded == Interaction \cup {None}
MemoryWork ==
  {Memory!Idle} \cup [at : {"recorded"}, protected : Guarded]
  \cup [at : {"sweeping"}, policy : MemoryChoice, protected : Guarded]
MemoryInv ==
  /\ Memory!TypeOK
  /\ Stored(MemoryTables(interactions, feedback, proposals))
  /\ chat \in [Chat \cup {Memory!Admin} -> MemoryWork]
  /\ clock \in 0..HoursMax

LEMMA MemoryInit == ASSUME Memory!MemoryAssumption, Memory!Init PROVE MemoryInv
<1>1. /\ interactions = [i \in Interaction |-> None] /\ feedback = {} /\ proposals = {}
      /\ policy \in MemoryChoice /\ clock = 0 /\ rating = [o \in Administrator |-> None]
      /\ chat = [c \in Chat \cup {Memory!Admin} |-> Memory!Idle]
  BY DEF Memory!Init
<1>2. Memory!Live(interactions) = {}
  BY <1>1 DEF Memory!Live
<1>3. Stored(MemoryTables(interactions, feedback, proposals))
  BY <1>1, <1>2, FS_EmptySet DEF Stored, MemoryTables, Ledger
<1>4. \A c \in Chat \cup {Memory!Admin} : chat[c].at = "idle"
  BY <1>1 DEF Memory!Idle
<1> QED BY <1>1, <1>3, <1>4 DEF MemoryInv, MemoryWork, Memory!TypeOK, Memory!MemoryAssumption

LEMMA SweepStep ==
  ASSUME Memory!MemoryAssumption, MemoryInv, NEW c \in Chat \cup {Memory!Admin}, Memory!Sweep(c)
  PROVE  MemoryInv' /\ Memory!NewestStay(c) /\ Memory!NoOrphans /\ Memory!FitsBudget(c)
<1> DEFINE db == MemoryTables(interactions, feedback, proposals)
           p == chat[c].policy
           kept == Memory!ProtectedSession(c)
           u == Memory!Swept(p, kept)
<1>1. /\ chat[c].at = "sweeping" /\ p \in MemoryChoice /\ chat[c].protected \in Guarded
      /\ chat' = [chat EXCEPT ![c] = Memory!Idle]
      /\ interactions' = u.is /\ feedback' = u.fs /\ proposals' = u.ps
      /\ UNCHANGED <<policy, rating, clock>>
  BY DEF Memory!Sweep, MemoryInv, MemoryWork, Memory!Idle
<1>2. /\ Stored(db) /\ db = MemoryTables(db.is, db.fs, db.ps) /\ clock \in Nat
      /\ db.is = interactions /\ db.fs = feedback /\ db.ps = proposals
  BY DEF MemoryInv, MemoryTables, Memory!MemoryAssumption
<1> HIDE DEF p, kept, u
<1>3. /\ Stored(u) /\ Part(u.is, interactions) /\ u.fs \subseteq feedback /\ u.ps \subseteq proposals
      /\ \A f \in u.fs : f.interaction \in Memory!Live(u.is)
      /\ \A x \in u.ps : x.session \in Memory!Sessions(u.is)
      /\ \A i \in Memory!Live(interactions) \ Memory!Live(u.is) :
           \/ interactions[i].at < clock - p.hours
           \/ /\ interactions[i].session # kept
              /\ \A s \in Memory!Sessions(u.is) \ {kept} : Memory!Older(interactions, interactions[i].session, s)
      /\ Cardinality(Memory!Sessions(u.is)) <= p.sessions
      /\ Memory!Usage(u) <= p.budget \/ Memory!Sessions(u.is) \subseteq {kept}
  <2>1. u = Memory!Swept(p, kept)
    BY DEF u
  <2> HIDE DEF db
  <2> QED BY <1>1, <1>2, <2>1, SweepStages DEF db
<1>4. MemoryInv'
  <2>1. Stored(MemoryTables(interactions, feedback, proposals))'
    BY <1>1, <1>3 DEF Stored, MemoryTables, Memory!Live
  <2>2. interactions' \in Ledger
    BY <1>1, <1>3 DEF Part
  <2>3. chat' \in [Chat \cup {Memory!Admin} -> MemoryWork]
    BY <1>1 DEF MemoryInv, MemoryWork
  <2>4. \A e \in Chat \cup {Memory!Admin} : chat'[e].at \in {"idle", "recorded", "sweeping"}
    BY <1>1 DEF MemoryInv, Memory!TypeOK, Memory!Idle
  <2>5. feedback' \subseteq feedback /\ proposals' \subseteq proposals
    BY <1>1, <1>3
  <2>6. /\ policy' = policy /\ rating' = rating /\ clock' = clock
    BY <1>1
  <2>7. Memory!TypeOK'
    <3>1. Memory!TypeOK
      BY DEF MemoryInv
    <3> QED BY <2>2, <2>4, <2>5, <2>6, <3>1 DEF Memory!TypeOK, Ledger, Remembered, Memory!Rating
  <2>8. clock' \in 0..HoursMax
    BY <2>6 DEF MemoryInv
  <2> QED BY <2>1, <2>3, <2>7, <2>8 DEF MemoryInv
<1>5. Memory!NoOrphans
  BY <1>1, <1>3 DEF Memory!NoOrphans
<1>6. Memory!FitsBudget(c)
  <2> DEFINE left == MemoryTables(u.is, u.fs, u.ps)
  <2>1. Memory!Usage(left) = Memory!Usage(u)
    BY DEF Memory!Usage, MemoryTables
  <2>2. Memory!Usage(left) <= p.budget \/ Memory!Sessions(u.is) \subseteq {kept}
    BY <1>3, <2>1
  <2> QED BY <1>1, <2>2 DEF Memory!FitsBudget, MemoryTables, p, kept
<1>7. Memory!NewestStay(c)
  <2>1. /\ \A i \in Memory!Live(interactions) \ Memory!Live(interactions') :
             interactions[i].at >= clock - p.hours =>
               \A s \in Memory!Sessions(interactions') \ {kept} :
                 Memory!Older(interactions, interactions[i].session, s)
        /\ chat[c].protected \in Memory!Live(interactions) =>
             \/ chat[c].protected \in Memory!Live(interactions')
             \/ interactions[chat[c].protected].at < clock - p.hours
    <3>0. \A i \in Memory!Live(interactions) :
            interactions[i].at \in Nat /\ (interactions[i].at >= clock - p.hours
                                            => ~(interactions[i].at < clock - p.hours))
      <4>1. \A i \in Memory!Live(interactions) : interactions[i].at \in Nat
        BY <1>2 DEF Stored, Ledger, Memory!Live, Remembered, Memory!MemoryAssumption
      <4>2. clock - p.hours \in Int
        BY <1>1, <1>2 DEF Memory!MemoryAssumption
      <4> QED BY <4>1, <4>2
    <3>1. ASSUME chat[c].protected \in Memory!Live(interactions),
                 chat[c].protected \notin Memory!Live(u.is)
          PROVE  interactions[chat[c].protected].at < clock - p.hours
      <4>1. chat[c].protected # None
        BY <3>1 DEF Memory!MemoryAssumption, Memory!Live
      <4>2. kept = interactions[chat[c].protected].session
        BY <3>1, <4>1 DEF kept, Memory!ProtectedSession, Memory!Live
      <4> QED BY <1>3, <3>1, <4>2
    <3> QED BY <1>1, <1>3, <3>0, <3>1
  <2>2. Memory!Cardinality(Memory!Sessions(interactions')) <= p.sessions
    BY <1>1, <1>3, MemoryCardinality
  <2> QED BY <2>1, <2>2 DEF Memory!NewestStay, p, kept
<1> QED BY <1>4, <1>5, <1>6, <1>7

LEMMA MemoryStep ==
  ASSUME Memory!MemoryAssumption, MemoryInv, [Memory!Next]_(Memory!vars)
  PROVE  MemoryInv' /\ [Memory!SweepKeepsNewest]_(Memory!vars)
<1> DEFINE Requests == Chat \cup {Memory!Admin}
           db == MemoryTables(interactions, feedback, proposals)
<1>t. /\ policy \in MemoryChoice /\ interactions \in Ledger
      /\ feedback \subseteq Memory!Rating
      /\ proposals \subseteq [session : ChatSession, number : 1..ProposalMax]
      /\ rating \in [Administrator -> Memory!Rating \cup {None}]
      /\ chat \in [Requests -> MemoryWork] /\ clock \in 0..HoursMax
      /\ IsFiniteSet(Memory!Live(interactions)) /\ IsFiniteSet(feedback) /\ IsFiniteSet(proposals)
  BY DEF MemoryInv, Memory!TypeOK, Stored, MemoryTables, Ledger, Remembered
(* What has to be shown of a step that is no sweep.                        *)
<1> DEFINE Typed ==
      /\ policy' \in MemoryChoice /\ interactions' \in Ledger
      /\ feedback' \subseteq Memory!Rating
      /\ proposals' \subseteq [session : ChatSession, number : 1..ProposalMax]
      /\ rating' \in [Administrator -> Memory!Rating \cup {None}]
      /\ chat' \in [Requests -> MemoryWork] /\ clock' \in 0..HoursMax
      /\ IsFiniteSet(Memory!Live(interactions')) /\ IsFiniteSet(feedback') /\ IsFiniteSet(proposals')
           NoSweep == \A c \in Requests : chat[c].at = "sweeping" => chat'[c] = chat[c]
<1>s. ASSUME Typed, NoSweep PROVE MemoryInv' /\ Memory!SweepKeepsNewest
  <2>1. \A c \in Requests : chat'[c].at \in {"idle", "recorded", "sweeping"}
    BY <1>s DEF MemoryWork, Memory!Idle
  <2>2. Memory!TypeOK' /\ Stored(MemoryTables(interactions, feedback, proposals))'
    BY <1>s, <2>1 DEF Memory!TypeOK, Stored, MemoryTables, Ledger, Remembered, Memory!Live, Memory!Rating
  <2>3. Memory!SweepKeepsNewest
    BY <1>s DEF Memory!SweepKeepsNewest, Memory!Idle
  <2> QED BY <1>s, <2>2, <2>3 DEF MemoryInv
<1>1. ASSUME NEW c \in Chat, NEW i \in Interaction, NEW s \in ChatSession, Memory!AddInteraction(c, i, s)
      PROVE  Typed /\ NoSweep
  <2>1. /\ interactions' = [interactions EXCEPT ![i] = [session |-> s, at |-> clock]]
        /\ chat[c] = Memory!Idle
        /\ chat' = [chat EXCEPT ![c] = [at |-> "recorded", protected |-> i]]
        /\ UNCHANGED <<policy, feedback, proposals, rating, clock>>
    BY <1>1 DEF Memory!AddInteraction
  <2>2. interactions' \in Ledger
    BY <1>t, <2>1 DEF Ledger, Remembered
  <2>3. IsFiniteSet(Memory!Live(interactions'))
    <3>1. Memory!Live(interactions') \subseteq Memory!Live(interactions) \cup {i}
      BY <1>t, <2>1 DEF Memory!Live, Ledger
    <3> QED BY <1>t, <3>1, FS_AddElement, FS_Subset
  <2>4. chat' \in [Requests -> MemoryWork] /\ NoSweep
    BY <1>t, <2>1 DEF MemoryWork, Guarded, Memory!Idle
  <2> QED BY <1>t, <2>1, <2>2, <2>3, <2>4
<1>2. ASSUME NEW p \in MemoryChoice, Memory!UpdatePolicy(p) PROVE Typed /\ NoSweep
  <2>1. chat' \in [Requests -> MemoryWork] /\ NoSweep
    BY <1>t, <1>2 DEF Memory!UpdatePolicy, MemoryWork, Guarded, Memory!Idle
  <2> QED BY <1>t, <1>2, <2>1 DEF Memory!UpdatePolicy
<1>3. ASSUME NEW c \in Requests, Memory!ReadPolicy(c) PROVE Typed /\ NoSweep
  <2>1. chat' \in [Requests -> MemoryWork] /\ NoSweep
    BY <1>t, <1>3 DEF Memory!ReadPolicy, MemoryWork, Guarded, Memory!Idle
  <2> QED BY <1>t, <1>3, <2>1 DEF Memory!ReadPolicy
<1>4. ASSUME NEW o \in Administrator, NEW i \in Interaction, Memory!BeginFeedback(o, i)
      PROVE  Typed /\ NoSweep
  <2>1. rating' \in [Administrator -> Memory!Rating \cup {None}]
    <3>1. [by |-> o, interaction |-> i, session |-> interactions[i].session] \in Memory!Rating
      BY <1>t, <1>4 DEF Memory!BeginFeedback, Memory!Rating, Ledger, Remembered
    <3> QED BY <1>t, <1>4, <3>1 DEF Memory!BeginFeedback
  <2> QED BY <1>t, <1>4, <2>1 DEF Memory!BeginFeedback
<1>5. ASSUME NEW o \in Administrator, Memory!AddFeedback(o) PROVE Typed /\ NoSweep
  <2>1. feedback' = feedback \cup {rating[o]} /\ rating[o] \in Memory!Rating
    BY <1>t, <1>5 DEF Memory!AddFeedback
  <2>2. IsFiniteSet(feedback')
    BY <1>t, <2>1, FS_AddElement
  <2>3. rating' \in [Administrator -> Memory!Rating \cup {None}]
    BY <1>t, <1>5 DEF Memory!AddFeedback
  <2> QED BY <1>t, <1>5, <2>1, <2>2, <2>3 DEF Memory!AddFeedback
<1>6. ASSUME NEW s \in ChatSession, Memory!Propose(s) PROVE Typed /\ NoSweep
  <2> DEFINE known == {x \in proposals : x.session = s}
             row == [session |-> s, number |-> Cardinality(known) + 1]
  <2>1. /\ Cardinality(known) < ProposalMax /\ proposals' = proposals \cup {row}
        /\ UNCHANGED <<policy, interactions, feedback, chat, rating, clock>>
    BY <1>6, MemoryCardinality DEF Memory!Propose
  <2>2. Cardinality(known) \in Nat
    BY <1>t, SmallerCount
  <2>3. row \in [session : ChatSession, number : 1..ProposalMax]
    <3>1. Cardinality(known) + 1 \in 1..ProposalMax
      <4> HIDE DEF known
      <4> QED BY <2>1, <2>2 DEF Memory!MemoryAssumption
    <3> HIDE DEF known
    <3> QED BY <3>1
  <2> HIDE DEF row
  <2>4. IsFiniteSet(proposals')
    BY <1>t, <2>1, FS_AddElement
  <2>5. proposals' \subseteq [session : ChatSession, number : 1..ProposalMax]
    BY <1>t, <2>1, <2>3
  <2> QED BY <1>t, <2>1, <2>4, <2>5
<1>7. CASE Memory!Tick
  <2>1. clock' \in 0..HoursMax
    BY <1>t, <1>7 DEF Memory!Tick, Memory!MemoryAssumption
  <2>2. Typed /\ NoSweep
    BY <1>t, <1>7, <2>1 DEF Memory!Tick
  <2> QED BY <1>s, <2>2
<1>8. CASE UNCHANGED Memory!vars
  <2>1. Typed /\ NoSweep
    BY <1>t, <1>8 DEF Memory!vars
  <2> QED BY <1>s, <2>1
<1>9. ASSUME NEW c \in Requests, Memory!Sweep(c) PROVE MemoryInv' /\ Memory!SweepKeepsNewest
  <2>1. MemoryInv' /\ Memory!NewestStay(c) /\ Memory!NoOrphans /\ Memory!FitsBudget(c)
    BY <1>9, SweepStep
  <2>2. \A e \in Requests \ {c} : chat'[e] = chat[e]
    BY <1>t, <1>9 DEF Memory!Sweep
  <2> QED BY <2>1, <2>2 DEF Memory!SweepKeepsNewest, Memory!Idle
<1> HIDE DEF Typed, NoSweep
<1> QED BY <1>s, <1>1, <1>2, <1>3, <1>4, <1>5, <1>6, <1>7, <1>8, <1>9 DEF Memory!Next

LEMMA MemoryInductive ==
  ASSUME Memory!MemoryAssumption
  PROVE  /\ Memory!Init => MemoryInv
         /\ MemoryInv /\ [Memory!Next]_(Memory!vars) => MemoryInv'
BY MemoryInit, MemoryStep

-----------------------------------------------------------------------------
(* The inventory.  Inventory_proofs proves what it keeps; its facts are    *)
(* about the same tables here, so both instances define the same.          *)
StockFacts == INSTANCE Inventory_proofs
  WITH Named <- NamedProfile, assets <- v1, devices <- v2, profiles <- v3, evidence <- v4,
       measured <- v5, work <- v6, overtaken <- v7, crossed <- v8, view <- v9

LEMMA SameAssumption == StockFacts!InventoryAssumption = Stock!InventoryAssumption
BY Zenon
  DEF Stock!InventoryAssumption, StockFacts!InventoryAssumption, Stock!Optional,
      StockFacts!Optional

LEMMA SameInit == StockFacts!Init = Stock!Init
BY Zenon
  DEF Stock!Init, StockFacts!Init, Stock!Idle, StockFacts!Idle

LEMMA SameVars == StockFacts!vars = Stock!vars
BY Zenon
  DEF Stock!vars, StockFacts!vars, Stock!tables, StockFacts!tables

LEMMA SameNext == StockFacts!Next = Stock!Next
BY Zenon
  DEF Stock!tables, StockFacts!tables, Stock!Optional, StockFacts!Optional, Stock!Idle,
      StockFacts!Idle, Stock!Goto, StockFacts!Goto, Stock!Registered, StockFacts!Registered,
      Stock!ProfilesOf, StockFacts!ProfilesOf, Stock!Newest, StockFacts!Newest, Stock!Config,
      StockFacts!Config, Stock!Sensor, StockFacts!Sensor, Stock!Item, StockFacts!Item,
      Stock!Items, StockFacts!Items, Stock!Readiness, StockFacts!Readiness, Stock!Contains,
      StockFacts!Contains, Stock!Now, StockFacts!Now, Stock!Row, StockFacts!Row, Stock!Disturb,
      StockFacts!Disturb, Stock!Order, StockFacts!Order, Stock!BeginView, StockFacts!BeginView,
      Stock!ReadTable, StockFacts!ReadTable, Stock!BuildView, StockFacts!BuildView,
      Stock!AddAsset, StockFacts!AddAsset, Stock!Refers, StockFacts!Refers, Stock!New,
      StockFacts!New, Stock!BeginDevice, StockFacts!BeginDevice, Stock!BeginUpdate,
      StockFacts!BeginUpdate, Stock!Marked, StockFacts!Marked, Stock!WriteDevice,
      StockFacts!WriteDevice, Stock!BeginProfile, StockFacts!BeginProfile, Stock!Upsert,
      StockFacts!Upsert, Stock!WriteProfile, StockFacts!WriteProfile, Stock!BeginRun,
      StockFacts!BeginRun, Stock!Known, StockFacts!Known, Stock!CheckRun, StockFacts!CheckRun,
      Stock!AddEvidence, StockFacts!AddEvidence, Stock!AddSample, StockFacts!AddSample,
      Stock!ResetDemo, StockFacts!ResetDemo, Stock!Abort, StockFacts!Abort, Stock!Next,
      StockFacts!Next

LEMMA SameTypes == StockFacts!TypeOK = Stock!TypeOK
BY Zenon
  DEF Stock!TypeOK, StockFacts!TypeOK, Stock!Registered, StockFacts!Registered, Stock!Optional,
      StockFacts!Optional

LEMMA SameSound == StockFacts!InventorySound = Stock!InventorySound
BY Zenon
  DEF Stock!InventorySound, StockFacts!InventorySound, Stock!LinksHold, StockFacts!LinksHold,
      Stock!ViewIsTrue, StockFacts!ViewIsTrue, Stock!ViewsAgree, StockFacts!ViewsAgree,
      Stock!CompatibilityTrue, StockFacts!CompatibilityTrue, Stock!Registered,
      StockFacts!Registered, Stock!Refers, StockFacts!Refers, Stock!Optional, StockFacts!Optional,
      Stock!Item, StockFacts!Item, Stock!Now, StockFacts!Now, Stock!Config, StockFacts!Config,
      Stock!ProfilesOf, StockFacts!ProfilesOf, Stock!Newest, StockFacts!Newest, Stock!Enabled,
      StockFacts!Enabled, Stock!Drift, StockFacts!Drift, Stock!Sensor, StockFacts!Sensor,
      Stock!Unproved, StockFacts!Unproved, Stock!Catalog, StockFacts!Catalog, Stock!Boards,
      StockFacts!Boards, Stock!Checks, StockFacts!Checks, Stock!Compatible, StockFacts!Compatible

LEMMA StockInductive ==
  ASSUME Stock!InventoryAssumption
  PROVE  /\ Stock!Init => StockFacts!InventoryInv
         /\ StockFacts!InventoryInv /\ [Stock!Next]_(Stock!vars) => StockFacts!InventoryInv'
<1>1. StockFacts!InventoryAssumption
  BY SameAssumption
<1>2. Stock!Init => StockFacts!InventoryInv
  BY SameInit, StockFacts!InitInventory
<1>3. StockFacts!InventoryInv /\ [Stock!Next]_(Stock!vars) => StockFacts!InventoryInv'
  <2> SUFFICES ASSUME StockFacts!InventoryInv, [Stock!Next]_(Stock!vars)
               PROVE  StockFacts!InventoryInv'
    OBVIOUS
  <2>1. StockFacts!Next \/ UNCHANGED StockFacts!vars
    <3>1. CASE Stock!Next
      BY <3>1, SameNext
    <3>2. CASE UNCHANGED Stock!vars
      BY <3>2 DEF Stock!vars, Stock!tables, StockFacts!vars, StockFacts!tables
    <3> QED BY <3>1, <3>2
  <2> QED BY <1>1, <2>1, StockFacts!InventoryStep
<1> QED BY <1>2, <1>3

LEMMA StockHolds ==
  ASSUME StockFacts!InventoryInv PROVE Stock!TypeOK /\ Stock!InventorySound
BY StockFacts!InventoryHolds, SameTypes, SameSound

-----------------------------------------------------------------------------
(* AgenticControl.                                                         *)

(* Documents whose checkpoint is that of their cycle, and the work a       *)
(* request may hold.                                                       *)
WholeDocument == {d \in Agentic!Document : d.checkpoint = d.cycle}
TaskItem ==
  {t \in [do : {"task"}, goal : Agentic!Goal, action : Agentic!Action \cup {None},
          preferred : Agentic!Agent \cup {None}, mission : Nat] :
     t.mission # 0 => t.goal.mission /\ t.preferred # None}
SaveItem == [do : {"save"}, document : WholeDocument]
NoteItem == [do : {"note"}, objective : Objective]
RecordItem == [do : {"record"}, agent : Agentic!Agent, mission : Nat]
MissionItem == [do : {"mission"}, words : SUBSET Agentic!Action, all : BOOLEAN]
FinishItem == [do : {"finish"}, mission : Nat \ {0}]
Item == {Agentic!Guard} \cup SaveItem \cup NoteItem \cup TaskItem \cup RecordItem \cup MissionItem
        \cup FinishItem
Mission == [selected : Seq(Agentic!Agent), ran : Seq(Agentic!Agent), status : {"running", "completed"}]

ControlTyped ==
  /\ enabled \subseteq Agentic!Agent
  /\ document \in WholeDocument
  /\ cycles \in 0..CycleMax
  /\ missions \in Seq(Mission)
  /\ todo \in [Operator -> Seq(Item)]

(* A request serves a mission from when it started it until it finishes    *)
(* it: the work up to the finish is that of the agents who are still due.  *)
Free(item) == item.do # "finish" /\ (item.do \in {"task", "record"} => item.mission = 0)
AllFree(w) == \A i \in 1..Len(w) : Free(w[i])
AgentOf(item) == IF item.do = "task" THEN item.preferred ELSE item.agent
Serving(w, last) ==
  /\ last \in 1..Len(w) /\ w[last].do = "finish"
  /\ \A i \in 1..(last - 1) : w[i].do \in {"task", "record"} /\ w[i].mission = w[last].mission
  /\ \A i \in (last + 1)..Len(w) : Free(w[i])
Due(w, last, table) ==
  LET m == w[last].mission
  IN /\ m \in 1..Len(table) /\ table[m].status = "running"
     /\ Len(table[m].ran) + last - 1 = Len(table[m].selected)
     /\ \A i \in 1..(last - 1) : AgentOf(w[i]) = table[m].selected[Len(table[m].ran) + i]
Orderly(w, table) == AllFree(w) \/ \E last \in Nat : Serving(w, last) /\ Due(w, last, table)
Finishes(w, m) == \E i \in 1..Len(w) : w[i].do = "finish" /\ w[i].mission = m

ControlInv ==
  /\ ControlTyped
  /\ \A r \in Operator : Orderly(todo[r], missions)
  /\ \A r, q \in Operator : \A m : Finishes(todo[r], m) /\ Finishes(todo[q], m) => r = q
  /\ Agentic!CompletedMissionRanAll

LEMMA WorkParts ==
  ASSUME NEW S, NEW w \in Seq(S), w # <<>>, NEW items \in Seq(S)
  PROVE  /\ Head(w) = w[1] /\ w[1] \in S /\ Len(w) \in Nat /\ Len(w) >= 1 /\ Tail(w) \in Seq(S)
         /\ items \o Tail(w) \in Seq(S) /\ Len(items \o Tail(w)) = Len(items) + Len(w) - 1
         /\ \A i \in 1..Len(items) : (items \o Tail(w))[i] = items[i]
         /\ \A i \in (Len(items) + 1)..(Len(items) + Len(w) - 1) :
              (items \o Tail(w))[i] = w[i - Len(items) + 1]
<1>1. /\ Head(w) = w[1] /\ w[1] \in S /\ Len(w) \in Nat /\ Len(w) >= 1
      /\ Tail(w) \in Seq(S) /\ Len(Tail(w)) = Len(w) - 1
      /\ \A i \in 1..(Len(w) - 1) : Tail(w)[i] = w[i + 1]
  BY EmptySeq, HeadTailProperties
<1>2. PICK t \in Seq(S) : t = Tail(w)
  BY <1>1
<1>3. /\ items \o t \in Seq(S) /\ Len(items \o t) = Len(items) + Len(t)
      /\ \A i \in 1..(Len(items) + Len(t)) :
           (items \o t)[i] = IF i <= Len(items) THEN items[i] ELSE t[i - Len(items)]
  BY ConcatProperties
<1>4. Len(items) \in Nat
  OBVIOUS
<1> QED BY <1>1, <1>2, <1>3, <1>4

LEMMA FreeRest ==
  ASSUME NEW w \in Seq(Item), w # <<>>, NEW items \in Seq(Item), AllFree(items),
         \A i \in 2..Len(w) : Free(w[i])
  PROVE  items \o Tail(w) \in Seq(Item) /\ AllFree(items \o Tail(w))
<1>1. Len(items) \in Nat
  OBVIOUS
<1> QED BY <1>1, WorkParts DEF AllFree

(* Whoever has something else on top than a task, a record or the finish   *)
(* of a mission serves none.                                               *)
LEMMA FreeUnlessServing ==
  ASSUME NEW w \in Seq(Item), w # <<>>, NEW table, Orderly(w, table), Free(w[1]) \/ w[1].do = "finish"
  PROVE  \A i \in 2..Len(w) : Free(w[i])
<1>0. Len(w) \in Nat /\ Len(w) >= 1 /\ w[1] \in Item
  BY WorkParts
<1>1. CASE AllFree(w)
  BY <1>0, <1>1 DEF AllFree
<1>2. ASSUME NEW last \in Nat, Serving(w, last) PROVE \A i \in 2..Len(w) : Free(w[i])
  <2>1. last = 1
    <3>1. SUFFICES ASSUME last # 1 PROVE FALSE
      OBVIOUS
    <3>2. last \in 1..Len(w) /\ 1 \in 1..(last - 1)
      BY <1>2, <3>1 DEF Serving
    <3>3. w[1].do \in {"task", "record"} /\ w[1].mission = w[last].mission /\ w[last].do = "finish"
      BY <1>2, <3>2 DEF Serving
    <3>4. w[last] \in Item
      BY <3>2
    <3>5. w[last].mission # 0
      BY <3>3, <3>4 DEF Item, Agentic!Guard, SaveItem, NoteItem, TaskItem, RecordItem, MissionItem, FinishItem
    <3> QED BY <3>3, <3>5 DEF Free
  <2> QED BY <1>2, <2>1 DEF Serving
<1> QED BY <1>1, <1>2 DEF Orderly

(* A request changes its own work; what others are due stays the same.     *)
LEMMA OwnWorkOnly ==
  ASSUME ControlInv, NEW r \in Operator, NEW w \in Seq(Item), todo' = [todo EXCEPT ![r] = w],
         enabled' \subseteq Agentic!Agent, document' \in WholeDocument, cycles' \in 0..CycleMax,
         missions' \in Seq(Mission), Agentic!CompletedMissionRanAll', Orderly(w, missions'),
         \A q \in Operator \ {r} : \A m \in 1..Len(missions) :
           Finishes(todo[q], m) => m \in 1..Len(missions') /\ missions'[m] = missions[m],
         \A q \in Operator \ {r} : \A m : Finishes(todo[q], m) => ~Finishes(w, m)
  PROVE  ControlInv'
<1> USE DEF ControlInv
<1>0. todo \in [Operator -> Seq(Item)] /\ todo'[r] = w /\ \A q \in Operator \ {r} : todo'[q] = todo[q]
  BY DEF ControlTyped
<1>1. ControlTyped'
  BY <1>0 DEF ControlTyped, WholeDocument, Agentic!Document, Item, Mission, SaveItem,
     Agentic!Guard, NoteItem, TaskItem,
              RecordItem, MissionItem, FinishItem, Agentic!Goal, Agentic!Action, Agentic!Agent
<1>2. ASSUME NEW q \in Operator PROVE Orderly(todo'[q], missions')
  <2>1. CASE q = r
    BY <1>0, <2>1
  <2>2. CASE q # r
    <3>1. Orderly(todo[q], missions) /\ todo'[q] = todo[q]
      BY <1>0, <2>2
    <3>2. ASSUME NEW last \in Nat, Serving(todo[q], last), Due(todo[q], last, missions)
          PROVE  Due(todo[q], last, missions')
      <4>1. Finishes(todo[q], todo[q][last].mission)
        BY <3>2 DEF Finishes, Serving
      <4>2. missions'[todo[q][last].mission] = missions[todo[q][last].mission]
            /\ todo[q][last].mission \in 1..Len(missions')
        BY <2>2, <3>2, <4>1 DEF Due
      <4> QED BY <3>2, <4>2 DEF Due
    <3> QED BY <3>1, <3>2 DEF Orderly
  <2> QED BY <2>1, <2>2
<1>3. ASSUME NEW p \in Operator, NEW q \in Operator, NEW m, Finishes(todo'[p], m), Finishes(todo'[q], m)
      PROVE  p = q
  BY <1>0, <1>3
<1> QED BY <1>1, <1>2, <1>3

(* Steps after which a request serves no mission.                          *)
LEMMA ServesNone ==
  ASSUME ControlInv, NEW r \in Operator, NEW w \in Seq(Item), AllFree(w), todo' = [todo EXCEPT ![r] = w],
         enabled' \subseteq Agentic!Agent, document' \in WholeDocument, cycles' \in 0..CycleMax,
            UNCHANGED missions
  PROVE  ControlInv'
<1>1. \A m : ~Finishes(w, m)
  BY DEF AllFree, Free, Finishes
<1>2. missions' \in Seq(Mission) /\ Agentic!CompletedMissionRanAll' /\ Orderly(w, missions')
  BY DEF ControlInv, ControlTyped, Agentic!CompletedMissionRanAll, Orderly
<1> QED BY <1>1, <1>2, OwnWorkOnly

(* What is on top of a request's work.                                     *)
LEMMA TopParts ==
  ASSUME ControlInv, NEW r \in Operator, NEW what, Agentic!Top(r, what)
  PROVE  /\ todo[r] \in Seq(Item) /\ todo[r] # <<>> /\ Head(todo[r]) = todo[r][1]
         /\ todo[r][1] \in Item /\ todo[r][1].do = what
         /\ Orderly(todo[r], missions)
<1>1. todo[r] \in Seq(Item) /\ todo[r] # <<>>
  BY DEF ControlInv, ControlTyped, Agentic!Top
<1> QED BY <1>1, WorkParts DEF ControlInv, Agentic!Top

LEMMA TodoKinds ==
  ASSUME NEW item \in Item
  PROVE  /\ item.do = "save" => item.document \in WholeDocument
         /\ item.do = "note" => item.objective \in Objective
         /\ item.do = "task" => item \in TaskItem
         /\ item.do = "record" => item.agent \in Agentic!Agent /\ item.mission \in Nat
         /\ item.do = "mission" => item.words \in SUBSET Agentic!Action /\ item.all \in BOOLEAN
         /\ item.do = "finish" => item.mission \in Nat \ {0}
BY DEF Item, Agentic!Guard, SaveItem, NoteItem, TaskItem, RecordItem, MissionItem, FinishItem

LEMMA OneItem ==
  ASSUME NEW item \in Item
  PROVE  /\ <<item>> \in Seq(Item) /\ Len(<<item>>) = 1 /\ <<item>>[1] = item
         /\ Free(item) => AllFree(<<item>>)
BY DEF AllFree

LEMMA NothingLeft == <<>> \in Seq(Item) /\ AllFree(<<>>) /\ Len(<<>>) = 0
BY DEF AllFree

LEMMA DocumentSteps ==
  ASSUME Agentic!ControlAssumption, ControlInv, NEW r \in Operator,
         Agentic!LoadCycle(r) \/ Agentic!LoadNote(r) \/ Agentic!Save(r)
  PROVE  ControlInv'
<1> DEFINE w == todo[r]
<1>1. CASE Agentic!LoadCycle(r)
  <2> DEFINE item == [do |-> "save", document |->
                       [document EXCEPT !.cycle = cycles + 1, !.checkpoint = cycles + 1]]
  <2>1. document \in WholeDocument /\ cycles + 1 \in 0..CycleMax
    BY <1>1 DEF Agentic!LoadCycle, ControlInv, ControlTyped, Agentic!ControlAssumption
  <2>2. item \in Item /\ Free(item)
    BY <2>1 DEF WholeDocument, Agentic!Document, Item, SaveItem, Free
  <2> HIDE DEF item
  <2>3. Free(w[1])
    BY <1>1, TopParts DEF Agentic!LoadCycle, Free
  <2>4. w \in Seq(Item) /\ w # <<>> /\ Orderly(w, missions)
    BY <1>1, TopParts DEF Agentic!LoadCycle
  <2>5. <<item>> \o Tail(w) \in Seq(Item) /\ AllFree(<<item>> \o Tail(w))
    BY <2>2, <2>3, <2>4, OneItem, FreeUnlessServing, FreeRest
  <2>6. todo' = [todo EXCEPT ![r] = <<item>> \o Tail(w)]
    BY <1>1 DEF Agentic!LoadCycle, Agentic!Become, item
  <2> QED BY <1>1, <2>1, <2>5, <2>6, ServesNone DEF Agentic!LoadCycle, ControlInv, ControlTyped
<1>2. CASE Agentic!LoadNote(r)
  <2> DEFINE item == [do |-> "save", document |-> Agentic!Noted(w[1].objective)]
  <2>1. w \in Seq(Item) /\ w # <<>> /\ Orderly(w, missions) /\ Head(w) = w[1] /\ w[1] \in Item
        /\ w[1].do = "note"
    BY <1>2, TopParts DEF Agentic!LoadNote
  <2>2. item \in Item /\ Free(item)
    BY <2>1, TodoKinds DEF WholeDocument, Agentic!Document, Item, SaveItem, Free, Agentic!Noted,
       ControlInv, ControlTyped
  <2> HIDE DEF item
  <2>3. Free(w[1])
    BY <2>1 DEF Free
  <2>4. <<item>> \o Tail(w) \in Seq(Item) /\ AllFree(<<item>> \o Tail(w))
    BY <2>1, <2>2, <2>3, OneItem, FreeUnlessServing, FreeRest
  <2>5. todo' = [todo EXCEPT ![r] = <<item>> \o Tail(w)]
    BY <1>2, <2>1 DEF Agentic!LoadNote, Agentic!Become, item
  <2> QED BY <1>2, <2>4, <2>5, ServesNone DEF Agentic!LoadNote, ControlInv, ControlTyped
<1>3. CASE Agentic!Save(r)
  <2>1. w \in Seq(Item) /\ w # <<>> /\ Orderly(w, missions) /\ Head(w) = w[1] /\ w[1] \in Item
        /\ w[1].do = "save"
    BY <1>3, TopParts DEF Agentic!Save
  <2>2. document' \in WholeDocument
    BY <1>3, <2>1, TodoKinds DEF Agentic!Save
  <2>3. Free(w[1])
    BY <2>1 DEF Free
  <2>4. <<>> \o Tail(w) \in Seq(Item) /\ AllFree(<<>> \o Tail(w))
    BY <2>1, <2>3, NothingLeft, FreeUnlessServing, FreeRest
  <2> QED BY <1>3, <2>2, <2>4, ServesNone DEF Agentic!Save, Agentic!Become, ControlInv, ControlTyped
<1> QED BY <1>1, <1>2, <1>3

LEMMA Endings ==
  ASSUME ControlInv, NEW r \in Operator, Agentic!Fail(r), UNCHANGED <<enabled, document, cycles, missions>>
  PROVE  ControlInv'
BY NothingLeft, ServesNone DEF Agentic!Fail, ControlInv, ControlTyped

(* New requests carry control work, tasks outside missions and missions.   *)
LEMMA Submitting ==
  ASSUME ControlInv, NEW r \in Operator, NEW items \in Seq(Item), AllFree(items), Agentic!Submit(r, items)
  PROVE  ControlInv'
BY ServesNone DEF Agentic!Submit, ControlInv, ControlTyped

LEMMA RequestSteps ==
  ASSUME Agentic!ControlAssumption, ControlInv, NEW r \in Operator,
         \/ Agentic!AutoGuard(r) \/ Agentic!Solve(r)
         \/ \E a \in Agentic!Action : Agentic!AgentAction(r, a) \/ Agentic!RunTask(r, a)
         \/ \E a \in Agentic!Action, every \in BOOLEAN : Agentic!RunMission(r, a, every)
         \/ \E o \in Objective : Agentic!UpdateTask(r, o)
  PROVE  ControlInv'
<1>1. Agentic!Guard \in Item /\ Free(Agentic!Guard)
  BY DEF Item, Agentic!Guard, Free
<1>2. ASSUME NEW goal \in Agentic!Goal, NEW a \in Agentic!Action \cup {None},
             NEW p \in Agentic!Agent \cup {None}
      PROVE  Agentic!Task(goal, a, p, 0) \in Item /\ Free(Agentic!Task(goal, a, p, 0))
  BY DEF Agentic!Task, Item, TaskItem, Free
<1>3. ASSUME NEW a \in Agentic!Action
      PROVE  Agentic!Typed(a) \in Agentic!Goal /\ Agentic!Plain({a}) \in Agentic!Goal
  BY DEF Agentic!Typed, Agentic!Plain, Agentic!Goal
<1>4. CASE Agentic!AutoGuard(r)
  BY <1>1, <1>4, OneItem, Submitting DEF Agentic!AutoGuard
<1>5. CASE Agentic!Solve(r)
  <2> DEFINE job == Agentic!Task(Agentic!Typed("auto_guard.cycle"), "auto_guard.cycle", Coordinator, 0)
  <2>1. job \in Item /\ Free(job)
    BY <1>2, <1>3 DEF Agentic!Action, Agentic!ControlAssumption
  <2> HIDE DEF job
  <2>2. <<Agentic!Guard, job>> \in Seq(Item) /\ AllFree(<<Agentic!Guard, job>>)
    BY <1>1, <2>1 DEF AllFree
  <2> QED BY <1>5, <2>2, Submitting DEF Agentic!Solve, job
<1>6. ASSUME NEW a \in Agentic!Action, Agentic!AgentAction(r, a) PROVE ControlInv'
  <2>1. Agentic!Task(Agentic!Typed(a), a, None, 0) \in Item /\ Free(Agentic!Task(Agentic!Typed(a),
     a, None, 0))
    BY <1>2, <1>3
  <2> QED BY <1>6, <2>1, OneItem, Submitting DEF Agentic!AgentAction
<1>7. ASSUME NEW a \in Agentic!Action, Agentic!RunTask(r, a) PROVE ControlInv'
  <2>1. PICK p \in Agentic!Agent \cup {None} : Agentic!Submit(r, <<Agentic!Task(Agentic!Plain({a}),
     None, p, 0)>>)
    BY <1>7 DEF Agentic!RunTask
  <2>2. Agentic!Task(Agentic!Plain({a}), None, p, 0) \in Item
       /\ Free(Agentic!Task(Agentic!Plain({a}), None, p, 0))
    BY <1>2, <1>3
  <2> QED BY <2>1, <2>2, OneItem, Submitting
<1>8. ASSUME NEW a \in Agentic!Action, NEW every \in BOOLEAN, Agentic!RunMission(r, a, every)
      PROVE  ControlInv'
  <2> DEFINE item == [do |-> "mission", words |-> {a}, all |-> every]
  <2>1. item \in Item /\ Free(item)
    BY DEF Item, MissionItem, Free
  <2> HIDE DEF item
  <2> QED BY <1>8, <2>1, OneItem, Submitting DEF Agentic!RunMission, item
<1>9. ASSUME NEW o \in Objective, Agentic!UpdateTask(r, o) PROVE ControlInv'
  <2> DEFINE item == [do |-> "note", objective |-> o]
  <2>1. item \in Item /\ Free(item)
    BY DEF Item, NoteItem, Free
  <2> HIDE DEF item
  <2> QED BY <1>9, <2>1, OneItem, Submitting DEF Agentic!UpdateTask, item
<1> QED BY <1>4, <1>5, <1>6, <1>7, <1>8, <1>9

(* A task.  One of a mission never becomes control work.                   *)
LEMMA TaskStep ==
  ASSUME Agentic!ControlAssumption, ControlInv, NEW r \in Operator, Agentic!StartTask(r) PROVE ControlInv'
<1> DEFINE w == todo[r]
           job == w[1]
<1>1. /\ w \in Seq(Item) /\ w # <<>> /\ Orderly(w, missions) /\ Head(w) = job /\ job.do = "task"
      /\ job \in TaskItem
  BY TopParts, TodoKinds DEF Agentic!StartTask
<1>2. CASE Agentic!Eligible(job) = {}
  BY <1>1, <1>2, Endings DEF Agentic!StartTask
<1>3. CASE Agentic!Eligible(job) # {}
  <2>1. PICK a \in Agentic!Eligible(job) :
          Agentic!Become(r, Agentic!ControlWork(Agentic!ControlOf(job.goal, job.action)) \o
                    <<[do |-> "record", agent |-> a, mission |-> job.mission]>>)
    BY <1>1, <1>3 DEF Agentic!StartTask
  <2>2. a \in Agentic!Agent /\ job.mission \in Nat /\ (job.preferred # None => a = job.preferred)
    BY <1>1 DEF Agentic!Eligible, ControlInv, ControlTyped, TaskItem
  <2> DEFINE record == [do |-> "record", agent |-> a, mission |-> job.mission]
             called == Agentic!ControlWork(Agentic!ControlOf(job.goal, job.action))
  <2>3. record \in Item /\ record.do = "record" /\ record.agent = a /\ record.mission = job.mission
    BY <2>2 DEF Item, RecordItem
  <2>4. called \in Seq(Item) /\ AllFree(called)
    <3> DEFINE item == [do |-> "mission", words |-> {}, all |-> FALSE]
    <3>1. item \in Item /\ Free(item) /\ Agentic!Guard \in Item /\ Free(Agentic!Guard)
      BY DEF Item, MissionItem, Agentic!Guard, Free
    <3> HIDE DEF item
    <3>2. called = <<Agentic!Guard>> \/ called = <<item>> \/ called = <<>>
      BY DEF Agentic!ControlWork, item
    <3> QED BY <3>1, <3>2, OneItem, NothingLeft
  <2>5. job.mission # 0 => called = <<>>
    <3>1. SUFFICES ASSUME job.mission # 0 PROVE called = <<>>
      OBVIOUS
    <3>2. Agentic!ControlOf(job.goal, job.action) = None
      BY <1>1, <3>1 DEF TaskItem, Agentic!ControlOf
    <3>3. None # "auto_guard.cycle" /\ None # "autopilot.mission"
      BY DEF Agentic!ControlAssumption, Agentic!Action
    <3> QED BY <3>2, <3>3 DEF Agentic!ControlWork
  <2>6. todo' = [todo EXCEPT ![r] = (called \o <<record>>) \o Tail(w)]
        /\ UNCHANGED <<enabled, document, cycles, missions>>
    BY <2>1 DEF Agentic!Become, Agentic!StartTask
  <2> HIDE DEF record, called
  <2>7. CASE job.mission = 0
    <3>1. Free(record) /\ Free(job)
      BY <1>1, <2>3, <2>7 DEF Free
    <3>2. called \o <<record>> \in Seq(Item) /\ AllFree(called \o <<record>>)
      <4>1. PICK s \in Seq(Item) : s = <<record>>
        BY <2>3, OneItem
      <4>2. Len(s) = 1 /\ s[1] = record /\ Len(called) \in Nat
        BY <2>3, <2>4, <4>1, OneItem
      <4>3. /\ called \o s \in Seq(Item) /\ Len(called \o s) = Len(called) + 1
            /\ \A i \in 1..(Len(called) + 1) :
                 (called \o s)[i] = IF i <= Len(called) THEN called[i] ELSE s[i - Len(called)]
        BY <2>4, <4>2, ConcatProperties
      <4>4. ASSUME NEW i \in 1..(Len(called) + 1) PROVE Free((called \o s)[i])
        <5>1. CASE i <= Len(called)
          BY <2>4, <4>3, <5>1 DEF AllFree
        <5>2. CASE i = Len(called) + 1
          BY <3>1, <4>2, <4>3, <5>2
        <5>3. i <= Len(called) \/ i = Len(called) + 1
          BY <4>2
        <5> QED BY <5>1, <5>2, <5>3
      <4> QED BY <4>1, <4>3, <4>4 DEF AllFree
    <3>3. (called \o <<record>>) \o Tail(w) \in Seq(Item) /\ AllFree((called \o <<record>>) \o Tail(w))
      BY <1>1, <3>1, <3>2, FreeUnlessServing, FreeRest
    <3> QED BY <2>6, <3>3, ServesNone DEF ControlInv, ControlTyped
  <2>8. CASE job.mission # 0
    <3>1. PICK last \in Nat : Serving(w, last) /\ Due(w, last, missions)
      <4>1. ~Free(w[1]) /\ Len(w) >= 1 /\ Len(w) \in Nat
        BY <1>1, <2>8, WorkParts DEF Free
      <4>2. ~AllFree(w)
        BY <4>1 DEF AllFree
      <4> QED BY <1>1, <4>2 DEF Orderly
    <3>2. called \o <<record>> = <<record>>
      BY <2>3, <2>5, <2>8, OneItem, ConcatEmptySeq
    <3>3. PICK v : v = <<record>> \o Tail(w)
      OBVIOUS
    <3>4. /\ v \in Seq(Item) /\ Len(v) = Len(w) /\ v[1] = record /\ Len(w) \in Nat /\ Len(w) >= 1
          /\ \A i \in 2..Len(w) : v[i] = w[i]
      <4>1. PICK s \in Seq(Item) : s = <<record>>
        BY <2>3, OneItem
      <4>2. Len(s) = 1 /\ s[1] = record
        BY <2>3, <4>1, OneItem
      <4>3. /\ s \o Tail(w) \in Seq(Item) /\ Len(s \o Tail(w)) = Len(w) /\ (s \o Tail(w))[1] = record
            /\ Len(w) \in Nat /\ Len(w) >= 1
            /\ \A i \in (1 + 1)..(1 + Len(w) - 1) : (s \o Tail(w))[i] = w[i - 1 + 1]
        <5>1. /\ s \o Tail(w) \in Seq(Item) /\ Len(s \o Tail(w)) = Len(s) + Len(w) - 1
              /\ Len(w) \in Nat /\ Len(w) >= 1
              /\ \A i \in 1..Len(s) : (s \o Tail(w))[i] = s[i]
              /\ \A i \in (Len(s) + 1)..(Len(s) + Len(w) - 1) : (s \o Tail(w))[i] = w[i - Len(s) + 1]
          BY <1>1, WorkParts
        <5> QED BY <4>2, <5>1
      <4>4. ASSUME NEW i \in 2..Len(w) PROVE (s \o Tail(w))[i] = w[i]
        <5>1. i \in (1 + 1)..(1 + Len(w) - 1) /\ i - 1 + 1 = i
          BY <4>3
        <5> QED BY <4>3, <5>1
      <4> QED BY <3>3, <4>1, <4>3, <4>4
    <3>5. last # 1 /\ last \in 2..Len(w) /\ v[last] = w[last]
      BY <1>1, <3>1, <3>4 DEF Serving
    <3>6. Serving(v, last)
      <4>1. w[1].mission = w[last].mission
        BY <3>1, <3>5 DEF Serving
      <4> QED BY <2>3, <3>1, <3>4, <3>5, <4>1 DEF Serving
    <3>7. AgentOf(v[1]) = AgentOf(w[1])
      BY <1>1, <2>2, <2>3, <2>8, <3>4 DEF AgentOf, TaskItem
    <3>8. Due(v, last, missions)
      <4>1. v[last].mission = w[last].mission
        BY <3>5
      <4>2. \A i \in 1..(last - 1) : AgentOf(v[i]) = AgentOf(w[i])
        <5> TAKE i \in 1..(last - 1)
        <5>1. i = 1 \/ i \in 2..Len(w)
          BY <3>4, <3>5
        <5> QED BY <3>4, <3>7, <5>1
      <4> HIDE DEF w
      <4> QED BY <3>1, <4>1, <4>2 DEF Due
    <3>9. \A m : Finishes(v, m) => Finishes(w, m)
      BY <2>3, <3>4 DEF Finishes
    <3>10. todo' = [todo EXCEPT ![r] = v]
      BY <2>6, <3>2, <3>3
    <3>11. Orderly(v, missions') /\ Agentic!CompletedMissionRanAll' /\ missions' = missions
      BY <2>6, <3>6, <3>8 DEF Orderly, ControlInv, Agentic!CompletedMissionRanAll
    <3>12. \A q \in Operator \ {r} : \A m : Finishes(todo[q], m) => ~Finishes(v, m)
      BY <3>9 DEF ControlInv
    <3> QED BY <2>6, <3>4, <3>10, <3>11, <3>12, OwnWorkOnly DEF ControlInv, ControlTyped
  <2> QED BY <2>7, <2>8
<1> QED BY <1>2, <1>3

(* Who is not free on top serves the mission of what is on top.            *)
LEMMA TopServes ==
  ASSUME NEW w \in Seq(Item), w # <<>>, NEW table, Orderly(w, table), ~Free(w[1])
  PROVE  \E last \in Nat : Serving(w, last) /\ Due(w, last, table)
<1>1. Len(w) \in Nat /\ Len(w) >= 1
  BY WorkParts
<1>2. ~AllFree(w)
  BY <1>1 DEF AllFree
<1> QED BY <1>2 DEF Orderly

(* The run of an agent that was next brings its mission forward.           *)
LEMMA RunsInOrder ==
  ASSUME NEW ran \in Seq(Agentic!Agent), NEW selected \in Seq(Agentic!Agent), NEW a \in Agentic!Agent,
         Agentic!IsPrefix(ran, selected), Len(ran) < Len(selected), selected[Len(ran) + 1] = a
  PROVE  /\ Append(ran, a) \in Seq(Agentic!Agent) /\ Len(Append(ran, a)) = Len(ran) + 1
         /\ Agentic!IsPrefix(Append(ran, a), selected)
BY DEF Agentic!IsPrefix

LEMMA PrefixOfSameLength ==
  ASSUME NEW ran \in Seq(Agentic!Agent), NEW selected \in Seq(Agentic!Agent), Agentic!IsPrefix(ran, selected),
         Len(ran) = Len(selected)
  PROVE  ran = selected
BY DEF Agentic!IsPrefix

LEMMA RecordStep ==
  ASSUME ControlInv, NEW r \in Operator, Agentic!Record(r) PROVE ControlInv'
<1> DEFINE w == todo[r]
           run == w[1]
           m == run.mission
<1>1. /\ w \in Seq(Item) /\ w # <<>> /\ Orderly(w, missions) /\ Head(w) = run /\ run.do = "record"
      /\ run.agent \in Agentic!Agent /\ m \in Nat
  BY TopParts, TodoKinds DEF Agentic!Record
<1>2. /\ missions' = IF m = 0 THEN missions ELSE [missions EXCEPT ![m].ran = Append(@, run.agent)]
      /\ todo' = [todo EXCEPT ![r] = <<>> \o Tail(w)] /\ UNCHANGED <<enabled, document, cycles>>
  BY <1>1 DEF Agentic!Record, Agentic!Become
<1>t. missions \in Seq(Mission) /\ enabled \subseteq Agentic!Agent /\ document \in WholeDocument
     /\ cycles \in 0..CycleMax
  BY DEF ControlInv, ControlTyped
<1>3. CASE m = 0
  <2>1. <<>> \o Tail(w) \in Seq(Item) /\ AllFree(<<>> \o Tail(w))
    BY <1>1, <1>3, NothingLeft, FreeUnlessServing, FreeRest DEF Free
  <2> QED BY <1>2, <1>3, <1>t, <2>1, ServesNone
<1>4. CASE m # 0
  <2>1. PICK last \in Nat : Serving(w, last) /\ Due(w, last, missions)
    BY <1>1, <1>4, TopServes DEF Free
  <2>2. PICK v : v = <<>> \o Tail(w)
    OBVIOUS
  <2>3. /\ v \in Seq(Item) /\ Len(v) = Len(w) - 1 /\ Len(w) \in Nat /\ Len(w) >= 1
        /\ \A i \in 1..(Len(w) - 1) : v[i] = w[i + 1]
    <3>1. /\ v \in Seq(Item) /\ Len(v) = 0 + Len(w) - 1 /\ Len(w) \in Nat /\ Len(w) >= 1
          /\ \A i \in (0 + 1)..(0 + Len(w) - 1) : v[i] = w[i - 0 + 1]
      BY <1>1, <2>2, WorkParts, NothingLeft
    <3>2. ASSUME NEW i \in 1..(Len(w) - 1) PROVE v[i] = w[i + 1]
      <4>1. i \in (0 + 1)..(0 + Len(w) - 1) /\ i - 0 + 1 = i + 1
        BY <3>1
      <4> QED BY <3>1, <4>1
    <3> QED BY <3>1, <3>2
  <2>4. last \in 1..Len(w) /\ w[last].do = "finish" /\ last # 1
    BY <1>1, <2>1 DEF Serving
  <2>5. w[last].mission = m
    <3>1. 1 \in 1..(last - 1)
      BY <2>3, <2>4
    <3> QED BY <2>1, <3>1 DEF Serving
  <2> DEFINE row == missions[m]
             ran == Append(row.ran, run.agent)
  <2>6. /\ m \in 1..Len(missions) /\ row \in Mission /\ row.status = "running"
        /\ Len(row.ran) + last - 1 = Len(row.selected)
        /\ \A i \in 1..(last - 1) : AgentOf(w[i]) = row.selected[Len(row.ran) + i]
        /\ Agentic!IsPrefix(row.ran, row.selected)
    BY <1>t, <2>1, <2>5 DEF Due, ControlInv, Agentic!CompletedMissionRanAll
  <2>7. row.ran \in Seq(Agentic!Agent) /\ row.selected \in Seq(Agentic!Agent) /\ Len(row.ran) \in Nat
    BY <2>6 DEF Mission
  <2>8. ran \in Seq(Agentic!Agent) /\ Len(ran) = Len(row.ran) + 1 /\ Agentic!IsPrefix(ran, row.selected)
    <3>1. 1 \in 1..(last - 1) /\ Len(row.ran) < Len(row.selected)
      BY <2>3, <2>4, <2>6, <2>7
    <3>2. row.selected[Len(row.ran) + 1] = run.agent
      BY <1>1, <2>6, <3>1 DEF AgentOf
    <3> QED BY <1>1, <2>6, <2>7, <3>1, <3>2, RunsInOrder
  <2> HIDE DEF ran
  <2>9. /\ missions' \in Seq(Mission) /\ Len(missions') = Len(missions)
        /\ \A k \in 1..Len(missions) : k # m => missions'[k] = missions[k]
        /\ missions'[m].ran = ran /\ missions'[m].selected = row.selected
        /\ missions'[m].status = "running"
    <3>1. missions' = [missions EXCEPT ![m] = [row EXCEPT !.ran = ran]]
      BY <1>2, <1>4, <2>6 DEF ran
    <3>2. PICK new : new = [row EXCEPT !.ran = ran]
      OBVIOUS
    <3>3. new \in Mission /\ new.ran = ran /\ new.selected = row.selected /\ new.status = "running"
      BY <2>6, <2>8, <3>2 DEF Mission
    <3>4. missions' = [missions EXCEPT ![m] = new]
      BY <3>1, <3>2
    <3> HIDE DEF row, m
    <3> QED BY <1>t, <2>6, <3>3, <3>4
  <2>10. Agentic!CompletedMissionRanAll'
    <3>1. ASSUME NEW k \in 1..Len(missions')
          PROVE  /\ missions'[k].status = "completed" => missions'[k].ran = missions'[k].selected
                 /\ Agentic!IsPrefix(missions'[k].ran, missions'[k].selected)
      <4>1. CASE k = m
        BY <2>8, <2>9, <4>1
      <4>2. CASE k # m
        BY <2>9, <4>2 DEF ControlInv, Agentic!CompletedMissionRanAll
      <4> QED BY <4>1, <4>2
    <3> QED BY <3>1 DEF Agentic!CompletedMissionRanAll
  <2> DEFINE l == last - 1
  <2>11. l \in 1..Len(v) /\ l \in Nat /\ v[l] = w[last]
    BY <2>3, <2>4
  <2>12. Serving(v, l)
    <3>1. ASSUME NEW i \in 1..(l - 1) PROVE v[i].do \in {"task", "record"} /\ v[i].mission = v[l].mission
      <4>1. v[i] = w[i + 1] /\ i + 1 \in 1..(last - 1)
        BY <2>3, <2>4
      <4> QED BY <2>1, <2>11, <4>1 DEF Serving
    <3>2. ASSUME NEW i \in (l + 1)..Len(v) PROVE Free(v[i])
      <4>1. v[i] = w[i + 1] /\ i + 1 \in (last + 1)..Len(w)
        BY <2>3, <2>4
      <4> QED BY <2>1, <4>1 DEF Serving
    <3> HIDE DEF l
    <3> QED BY <2>4, <2>11, <3>1, <3>2 DEF Serving
  <2>13. Due(v, l, missions')
    <3>1. v[l].mission = m
      BY <2>5, <2>11
    <3>2. ASSUME NEW i \in 1..(l - 1)
          PROVE  AgentOf(v[i]) = missions'[m].selected[Len(missions'[m].ran) + i]
      <4>1. v[i] = w[i + 1] /\ i + 1 \in 1..(last - 1) /\ i \in Int
        BY <2>3, <2>4
      <4>2. AgentOf(v[i]) = row.selected[Len(row.ran) + (i + 1)]
        BY <2>6, <4>1
      <4>3. PICK n \in Nat : n = Len(row.ran)
        BY <2>7
      <4>4. Len(ran) = n + 1
        BY <2>8, <4>3
      <4>5. i \in Int
        BY <4>1
      <4>6. n + (i + 1) = (n + 1) + i
        BY <4>5
      <4>7. Len(row.ran) + (i + 1) = Len(ran) + i
        BY <4>3, <4>4, <4>6
      <4> QED BY <2>9, <4>2, <4>7
    <3>3. Len(missions'[m].ran) + l - 1 = Len(missions'[m].selected)
      <4>1. PICK n \in Nat : n = Len(row.ran)
        BY <2>7
      <4>2. Len(ran) = n + 1 /\ n + last - 1 = Len(row.selected)
        BY <2>6, <2>8, <4>1
      <4>3. (n + 1) + (last - 1) - 1 = n + last - 1
        OBVIOUS
      <4> QED BY <2>9, <4>2, <4>3
    <3> HIDE DEF l, m
    <3> QED BY <2>6, <2>9, <3>1, <3>2, <3>3 DEF Due
  <2>14. \A k : Finishes(v, k) => Finishes(w, k)
    BY <2>3 DEF Finishes
  <2>15. Finishes(w, m)
    BY <2>4, <2>5 DEF Finishes
  <2>16. \A q \in Operator \ {r} : \A k : Finishes(todo[q], k) => ~Finishes(v, k) /\ k # m
    BY <2>14, <2>15 DEF ControlInv
  <2>17. Orderly(v, missions')
    BY <2>11, <2>12, <2>13 DEF Orderly
  <2>18. todo' = [todo EXCEPT ![r] = v]
    BY <1>2, <2>2
  <2>19. \A q \in Operator \ {r} : \A k \in 1..Len(missions) :
           Finishes(todo[q], k) => k \in 1..Len(missions') /\ missions'[k] = missions[k]
    BY <2>9, <2>16
  <2>20. \A q \in Operator \ {r} : \A k : Finishes(todo[q], k) => ~Finishes(v, k)
    BY <2>16
  <2> HIDE DEF m, l, w
  <2> QED BY <1>2, <1>t, <2>3, <2>9, <2>10, <2>17, <2>18, <2>19, <2>20, OwnWorkOnly
<1> QED BY <1>3, <1>4

LEMMA FinishStep ==
  ASSUME ControlInv, NEW r \in Operator, Agentic!FinishMission(r) PROVE ControlInv'
<1> DEFINE w == todo[r]
           m == w[1].mission
           row == missions[m]
<1>1. /\ w \in Seq(Item) /\ w # <<>> /\ Orderly(w, missions) /\ Head(w) = w[1] /\ w[1].do = "finish"
  BY TopParts DEF Agentic!FinishMission
<1>2. /\ missions' = [missions EXCEPT ![m].status = "completed"]
      /\ todo' = [todo EXCEPT ![r] = <<>> \o Tail(w)] /\ UNCHANGED <<enabled, document, cycles>>
  BY <1>1 DEF Agentic!FinishMission, Agentic!Become
<1>t. missions \in Seq(Mission) /\ enabled \subseteq Agentic!Agent /\ document \in WholeDocument
     /\ cycles \in 0..CycleMax
  BY DEF ControlInv, ControlTyped
<1>3. PICK last \in Nat : Serving(w, last) /\ Due(w, last, missions)
  BY <1>1, TopServes DEF Free
<1>4. last = 1
  <2>1. SUFFICES ASSUME last # 1 PROVE FALSE
    OBVIOUS
  <2>2. 1 \in 1..(last - 1)
    BY <1>3, <2>1 DEF Serving
  <2> QED BY <1>1, <1>3, <2>2 DEF Serving
<1>5. /\ m \in 1..Len(missions) /\ row \in Mission /\ row.ran \in Seq(Agentic!Agent)
      /\ row.selected \in Seq(Agentic!Agent)
      /\ Len(row.ran) = Len(row.selected) /\ Agentic!IsPrefix(row.ran, row.selected)
  <2>1. m \in 1..Len(missions) /\ row \in Mission /\ Len(row.ran) + 1 - 1 = Len(row.selected)
    BY <1>t, <1>3, <1>4 DEF Due
  <2>2. Agentic!IsPrefix(row.ran, row.selected)
    BY <2>1 DEF ControlInv, Agentic!CompletedMissionRanAll
  <2>3. row.ran \in Seq(Agentic!Agent) /\ row.selected \in Seq(Agentic!Agent)
    BY <2>1 DEF Mission
  <2> QED BY <2>1, <2>2, <2>3
<1>6. row.ran = row.selected
  BY <1>5, PrefixOfSameLength
<1>7. /\ missions' \in Seq(Mission) /\ Len(missions') = Len(missions)
      /\ \A k \in 1..Len(missions) : k # m => missions'[k] = missions[k]
      /\ missions'[m].ran = row.ran /\ missions'[m].selected = row.selected
  <2>1. PICK new : new = [row EXCEPT !.status = "completed"]
    OBVIOUS
  <2>2. new \in Mission /\ new.ran = row.ran /\ new.selected = row.selected
    BY <1>5, <2>1 DEF Mission
  <2>3. missions' = [missions EXCEPT ![m] = new]
    BY <1>2, <1>5, <2>1
  <2> HIDE DEF row, m
  <2> QED BY <1>t, <1>5, <2>2, <2>3
<1>8. Agentic!CompletedMissionRanAll'
  <2>1. ASSUME NEW k \in 1..Len(missions')
        PROVE  /\ missions'[k].status = "completed" => missions'[k].ran = missions'[k].selected
               /\ Agentic!IsPrefix(missions'[k].ran, missions'[k].selected)
    <3>1. CASE k = m
      BY <1>5, <1>6, <1>7, <3>1
    <3>2. CASE k # m
      BY <1>7, <3>2 DEF ControlInv, Agentic!CompletedMissionRanAll
    <3> QED BY <3>1, <3>2
  <2> QED BY <2>1 DEF Agentic!CompletedMissionRanAll
<1>9. <<>> \o Tail(w) \in Seq(Item) /\ AllFree(<<>> \o Tail(w))
  <2>1. \A i \in 2..Len(w) : Free(w[i])
    BY <1>3, <1>4 DEF Serving
  <2> QED BY <1>1, <2>1, NothingLeft, FreeRest
<1>10. Finishes(w, m)
  BY <1>1, <1>3, <1>4 DEF Finishes, Serving
<1>11. \A k : ~Finishes(<<>> \o Tail(w), k)
  BY <1>9 DEF AllFree, Free, Finishes
<1>12. \A q \in Operator \ {r} : \A k : Finishes(todo[q], k) => k # m
  BY <1>10 DEF ControlInv
<1>13. Orderly(<<>> \o Tail(w), missions')
  BY <1>9 DEF Orderly
<1> HIDE DEF m, w
<1> QED BY <1>2, <1>t, <1>7, <1>8, <1>9, <1>11, <1>12, <1>13, OwnWorkOnly

(* Among n places the k-th chosen one exists, for every k up to their      *)
(* number.                                                                 *)
LEMMA NthExists ==
  ASSUME NEW n \in Nat, NEW I \in SUBSET (1..n), NEW k \in 1..Cardinality(I)
  PROVE  \E i \in I : Cardinality({j \in I : j < i}) = k - 1
<1> DEFINE Prior(i) == {j \in I : j < i}
           T == {i \in I : Cardinality(Prior(i)) >= k - 1}
<1>0. I \subseteq Nat
  OBVIOUS
<1>1. IsFiniteSet(I) /\ Cardinality(I) \in Nat
  <2>1. IsFiniteSet(1..n)
    BY FS_Interval
  <2>2. IsFiniteSet(I)
    BY <2>1, FS_Subset
  <2> QED BY <2>2, FS_CardinalityType
<1>2. \A i \in I : IsFiniteSet(Prior(i)) /\ Cardinality(Prior(i)) \in Nat
  <2> TAKE i \in I
  <2>1. Prior(i) \subseteq I
    OBVIOUS
  <2> QED BY <1>1, <2>1, FS_Subset, FS_CardinalityType
<1>3. T # {}
  <2>1. I # {}
    BY <1>1, FS_EmptySet
  <2>2. PICK g \in I : \A j \in I : j <= g
    BY <2>1, GreatestExists
  <2>3. Prior(g) = I \ {g}
    <3>1. \A j \in I : j < g <=> j # g
      BY <1>0, <2>2
    <3> QED BY <3>1
  <2>4. Cardinality(Prior(g)) = Cardinality(I) - 1
    BY <1>1, <2>3, FS_RemoveElement
  <2>5. g \in T
    BY <1>1, <2>4
  <2> QED BY <2>5
<1>4. T \in SUBSET Nat
  <2> HIDE DEF Prior
  <2> QED BY <1>0
<1>5. PICK m \in T : \A i \in T : m <= i
  <2> HIDE DEF T
  <2> QED BY <1>3, <1>4, LeastExists
<1>6. m \in I /\ Cardinality(Prior(m)) >= k - 1 /\ Cardinality(Prior(m)) \in Nat /\ IsFiniteSet(Prior(m))
  BY <1>2
<1>7. ASSUME Cardinality(Prior(m)) # k - 1 PROVE FALSE
  <2>1. Cardinality(Prior(m)) >= k /\ k >= 1
    BY <1>6, <1>7
  <2>2. Prior(m) # {}
    BY <1>6, <2>1, FS_EmptySet
  <2>3. Prior(m) \in SUBSET (1..n)
    OBVIOUS
  <2>4. PICK p \in Prior(m) : \A j \in Prior(m) : j <= p
    <3> HIDE DEF Prior
    <3> QED BY <2>2, <2>3, GreatestExists
  <2>5. p \in I /\ p < m /\ Prior(p) = Prior(m) \ {p}
    <3>1. \A j \in I : j < p <=> j < m /\ j # p
      BY <1>0, <1>6, <2>4
    <3> QED BY <2>4, <3>1
  <2>6. Cardinality(Prior(p)) = Cardinality(Prior(m)) - 1
    BY <1>6, <2>4, <2>5, FS_RemoveElement
  <2>7. Cardinality(Prior(p)) >= k - 1
    BY <1>6, <2>1, <2>6
  <2>8. p \in T
    BY <2>5, <2>7
  <2> QED BY <1>5, <2>5, <2>8
<1> QED BY <1>6, <1>7

LEMMA SelectedTyped ==
  ASSUME Agentic!ControlAssumption, NEW every \in BOOLEAN
  PROVE  Agentic!Selected(every) \in Seq(Agentic!Agent)
<1> DEFINE I == {i \in DOMAIN Agents : every \/ Agents[i] \in enabled}
           Nth(n) == CHOOSE i \in I : Cardinality({j \in I : j < i}) = n - 1
<1>1. Agents \in Seq(Agentic!Agent) /\ Len(Agents) \in Nat /\ I \in SUBSET (1..Len(Agents))
  BY DEF Agentic!ControlAssumption
<1>2. Cardinality(I) \in Nat
  <2> HIDE DEF I
  <2>1. IsFiniteSet(1..Len(Agents))
    <3>1. PICK n \in Nat : n = Len(Agents)
      BY <1>1
    <3>2. IsFiniteSet(1..n)
      BY FS_Interval
    <3> QED BY <3>1, <3>2
  <2>2. IsFiniteSet(I)
    BY <1>1, <2>1, FS_Subset
  <2> QED BY <2>2, FS_CardinalityType
<1>3. ASSUME NEW n \in 1..Cardinality(I) PROVE Agents[Nth(n)] \in Agentic!Agent
  <2> HIDE DEF I
  <2>1. \E i \in I : Cardinality({j \in I : j < i}) = n - 1
    BY <1>1, <1>3, NthExists
  <2>2. Nth(n) \in I
    BY <2>1
  <2>3. PICK i \in 1..Len(Agents) : i = Nth(n)
    BY <1>1, <2>2
  <2>4. Agents[i] \in Agentic!Agent
    BY <1>1
  <2> QED BY <2>3, <2>4
<1>4. Agentic!Selected(every) = [n \in 1..Cardinality(I) |-> Agents[Nth(n)]]
  BY DEF Agentic!Selected, Agentic!Cardinality, Cardinality
<1> HIDE DEF I, Nth
<1> QED BY <1>2, <1>3, <1>4

LEMMA MissionStep ==
  ASSUME Agentic!ControlAssumption, ControlInv, NEW r \in Operator, Agentic!StartMission(r) PROVE ControlInv'
<1> DEFINE w == todo[r]
           chosen == Agentic!Selected(w[1].all)
           m == Len(missions) + 1
           goal == [mission |-> TRUE, control |-> None, words |-> w[1].words]
           row == [selected |-> chosen, ran |-> <<>>, status |-> "running"]
           finish == [do |-> "finish", mission |-> m]
           tasks == [i \in 1..Len(chosen) |-> Agentic!Task(goal, None, chosen[i], m)]
<1>1. /\ w \in Seq(Item) /\ w # <<>> /\ Orderly(w, missions) /\ Head(w) = w[1] /\ w[1] \in Item
      /\ w[1].do = "mission" /\ w[1].words \in SUBSET Agentic!Action /\ w[1].all \in BOOLEAN
  BY TopParts, TodoKinds DEF Agentic!StartMission
<1>t. missions \in Seq(Mission) /\ enabled \subseteq Agentic!Agent /\ document \in WholeDocument
     /\ cycles \in 0..CycleMax
      /\ Len(missions) \in Nat
  BY DEF ControlInv, ControlTyped
<1>2. CASE chosen = <<>>
  BY <1>1, <1>2, Endings DEF Agentic!StartMission
<1>3. CASE chosen # <<>>
  <2>1. /\ missions' = Append(missions, row)
        /\ todo' = [todo EXCEPT ![r] = (tasks \o <<finish>>) \o Tail(w)]
        /\ UNCHANGED <<enabled, document, cycles>>
    BY <1>1, <1>3 DEF Agentic!StartMission, Agentic!Become
  <2>2. chosen \in Seq(Agentic!Agent) /\ Len(chosen) \in Nat
    BY <1>1, SelectedTyped
  <2> HIDE DEF chosen
  <2>3. \A i \in 1..Len(chosen) : chosen[i] \in Agentic!Agent /\ chosen[i] # None
    BY <2>2 DEF Agentic!ControlAssumption
  <2>4. finish \in Item /\ finish.do = "finish" /\ finish.mission = m /\ m \in Nat
    BY <1>t DEF Item, FinishItem
  <2>5. ASSUME NEW i \in 1..Len(chosen)
        PROVE  tasks[i] \in Item /\ tasks[i].do = "task" /\ tasks[i].mission = m
               /\ tasks[i].preferred = chosen[i]
    <3>1. goal \in Agentic!Goal /\ goal.mission
      BY <1>1 DEF Agentic!Goal
    <3> HIDE DEF goal
    <3>2. tasks[i] = [do |-> "task", goal |-> goal, action |-> None, preferred |-> chosen[i],
                      mission |-> m]
      BY DEF Agentic!Task
    <3> QED BY <2>3, <2>4, <3>1, <3>2 DEF Item, TaskItem
  <2>6. tasks \in Seq(Item) /\ Len(tasks) = Len(chosen)
    <3>1. tasks = [i \in 1..Len(chosen) |-> tasks[i]]
      OBVIOUS
    <3> HIDE DEF tasks
    <3> QED BY <2>2, <2>5, <3>1
  <2> HIDE DEF tasks, finish
  <2> DEFINE last == Len(chosen) + 1
  <2>7. PICK s : s = tasks \o <<finish>>
    OBVIOUS
  <2>8. /\ s \in Seq(Item) /\ Len(s) = last /\ s[last] = finish
        /\ \A i \in 1..Len(chosen) : s[i] = tasks[i]
    <3>1. PICK f \in Seq(Item) : f = <<finish>>
      BY <2>4, OneItem
    <3>2. Len(f) = 1 /\ f[1] = finish
      BY <2>4, <3>1, OneItem
    <3>3. /\ tasks \o f \in Seq(Item) /\ Len(tasks \o f) = Len(chosen) + 1
          /\ \A i \in 1..(Len(chosen) + 1) :
               (tasks \o f)[i] = IF i <= Len(chosen) THEN tasks[i] ELSE f[i - Len(chosen)]
      BY <2>6, <3>2, ConcatProperties
    <3>4. last \in 1..(Len(chosen) + 1) /\ ~(last <= Len(chosen)) /\ last - Len(chosen) = 1
      BY <2>2
    <3>5. \A i \in 1..Len(chosen) : i \in 1..(Len(chosen) + 1) /\ i <= Len(chosen)
      BY <2>2
    <3> QED BY <2>7, <3>1, <3>2, <3>3, <3>4, <3>5
  <2>9. PICK v : v = s \o Tail(w)
    OBVIOUS
  <2>10. /\ v \in Seq(Item) /\ Len(v) = last + Len(w) - 1 /\ Len(w) \in Nat /\ Len(w) >= 1
         /\ \A i \in 1..last : v[i] = s[i]
         /\ \A i \in (last + 1)..(last + Len(w) - 1) : v[i] = w[i - last + 1]
    <3> HIDE DEF last, w
    <3> QED BY <1>1, <2>8, <2>9, WorkParts
  <2>11. \A i \in 2..Len(w) : Free(w[i])
    BY <1>1, FreeUnlessServing DEF Free
  <2>12. last \in Nat /\ last \in 1..Len(v) /\ v[last] = finish
    <3>1. last \in Nat /\ last >= 1
      BY <2>2
    <3> HIDE DEF last, w
    <3> QED BY <2>8, <2>10, <3>1
  <2>13. \A i \in 1..(last - 1) : i \in 1..Len(chosen) /\ v[i] = tasks[i]
    BY <2>2, <2>8, <2>10
  <2>14. \A i \in (last + 1)..Len(v) : Free(v[i])
    <3> TAKE i \in (last + 1)..Len(v)
    <3>1. i \in (last + 1)..(last + Len(w) - 1) /\ i - last + 1 \in 2..Len(w)
      <4> HIDE DEF last, w
      <4> QED BY <2>10, <2>12
    <3> QED BY <2>10, <2>11, <3>1
  <2>15. Serving(v, last)
    BY <2>4, <2>5, <2>12, <2>13, <2>14 DEF Serving
  <2>16. /\ missions' \in Seq(Mission) /\ Len(missions') = m /\ missions'[m] = row
         /\ \A k \in 1..Len(missions) : missions'[k] = missions[k] /\ k \in 1..Len(missions')
    <3>0. row \in Mission
      <4>1. <<>> \in Seq(Agentic!Agent)
        OBVIOUS
      <4> QED BY <2>2, <4>1 DEF Mission
    <3>1. PICK new \in Mission : new = row
      BY <3>0
    <3>2. missions' = Append(missions, new)
      BY <2>1, <3>1
    <3>3. /\ missions' \in Seq(Mission) /\ Len(missions') = Len(missions) + 1
          /\ missions'[Len(missions) + 1] = new
          /\ \A k \in 1..Len(missions) : missions'[k] = missions[k]
      BY <1>t, <3>2, AppendProperties
    <3> QED BY <1>t, <3>1, <3>3
  <2>17. Due(v, last, missions')
    <3>1. v[last].mission = m /\ m \in 1..Len(missions')
      BY <1>t, <2>4, <2>12, <2>16
    <3>2. /\ missions'[m].status = "running" /\ missions'[m].ran = <<>> /\ missions'[m].selected = chosen
      BY <2>16
    <3>3. Len(missions'[m].ran) + last - 1 = Len(missions'[m].selected)
      BY <2>2, <3>2
    <3>4. ASSUME NEW i \in 1..(last - 1)
          PROVE  AgentOf(v[i]) = missions'[m].selected[Len(missions'[m].ran) + i]
      <4>1. AgentOf(v[i]) = chosen[i] /\ i \in Int
        BY <2>5, <2>13 DEF AgentOf
      <4>2. Len(missions'[m].ran) + i = i
        BY <3>2, <4>1
      <4> QED BY <3>2, <4>1, <4>2
    <3> HIDE DEF last, m
    <3> QED BY <3>1, <3>2, <3>3, <3>4 DEF Due
  <2>18. Agentic!CompletedMissionRanAll'
    <3>1. ASSUME NEW k \in 1..Len(missions')
          PROVE  /\ missions'[k].status = "completed" => missions'[k].ran = missions'[k].selected
                 /\ Agentic!IsPrefix(missions'[k].ran, missions'[k].selected)
      <4>1. CASE k = m
        <5>1. Agentic!IsPrefix(<<>>, chosen)
          BY <2>2 DEF Agentic!IsPrefix
        <5> QED BY <2>16, <4>1, <5>1
      <4>2. CASE k # m
        <5>1. k \in 1..Len(missions)
          BY <1>t, <2>16, <4>2
        <5> QED BY <2>16, <5>1 DEF ControlInv, Agentic!CompletedMissionRanAll
      <4> QED BY <4>1, <4>2
    <3> QED BY <3>1 DEF Agentic!CompletedMissionRanAll
  <2>19. ASSUME NEW q \in Operator, NEW k, Finishes(todo[q], k) PROVE k \in 1..Len(missions)
    <3>1. Orderly(todo[q], missions)
      BY DEF ControlInv
    <3>2. PICK i \in 1..Len(todo[q]) : todo[q][i].do = "finish" /\ todo[q][i].mission = k
      BY <2>19 DEF Finishes
    <3>3. ~AllFree(todo[q])
      BY <3>2 DEF AllFree, Free
    <3>4. PICK l \in Nat : Serving(todo[q], l) /\ Due(todo[q], l, missions)
      BY <3>1, <3>3 DEF Orderly
    <3>5. i = l
      <4>1. todo[q] \in Seq(Item) /\ Len(todo[q]) \in Nat
        BY DEF ControlInv, ControlTyped
      <4>2. i < l => FALSE
        BY <3>2, <3>4, <4>1 DEF Serving
      <4>3. i > l => FALSE
        BY <3>2, <3>4, <4>1 DEF Serving, Free
      <4> QED BY <3>2, <3>4, <4>1, <4>2, <4>3
    <3> QED BY <3>2, <3>4, <3>5 DEF Due
  <2>20. \A k : Finishes(v, k) => k = m
    <3>1. ASSUME NEW i \in 1..Len(v), v[i].do = "finish" PROVE i = last
      <4>1. CASE i < last
        BY <2>12, <2>15, <3>1, <4>1 DEF Serving
      <4>2. CASE i > last
        <5>1. i \in (last + 1)..Len(v)
          <6> HIDE DEF last
          <6> QED BY <2>10, <2>12, <4>2
        <5> QED BY <2>14, <3>1, <5>1 DEF Free
      <4> QED BY <2>10, <2>12, <4>1, <4>2
    <3> QED BY <2>4, <2>12, <3>1 DEF Finishes
  <2>21. /\ \A q \in Operator \ {r} : \A k \in 1..Len(missions) :
              Finishes(todo[q], k) => k \in 1..Len(missions') /\ missions'[k] = missions[k]
         /\ \A q \in Operator \ {r} : \A k : Finishes(todo[q], k) => ~Finishes(v, k)
    BY <1>t, <2>16, <2>19, <2>20
  <2>22. Orderly(v, missions') /\ todo' = [todo EXCEPT ![r] = v]
    BY <2>1, <2>7, <2>9, <2>12, <2>15, <2>17 DEF Orderly
  <2> HIDE DEF m, w
  <2> QED BY <1>t, <2>1, <2>10, <2>16, <2>18, <2>21, <2>22, OwnWorkOnly
<1> QED BY <1>2, <1>3

LEMMA ToggleStep ==
  ASSUME ControlInv, NEW a \in Agentic!Agent, Agentic!Toggle(a) PROVE ControlInv'
BY DEF Agentic!Toggle, ControlInv, ControlTyped, Agentic!CompletedMissionRanAll

LEMMA StutterKeepsControl == ASSUME ControlInv, UNCHANGED Agentic!vars PROVE ControlInv'
BY DEF Agentic!vars, ControlInv, ControlTyped, Agentic!CompletedMissionRanAll

LEMMA ControlStep == ASSUME Agentic!ControlAssumption, ControlInv,
                            [Agentic!Next]_(Agentic!vars) PROVE ControlInv'
<1>1. ASSUME NEW r \in Operator, Agentic!Crash(r) PROVE ControlInv'
  BY <1>1, Endings DEF Agentic!Crash
<1> QED BY <1>1, DocumentSteps, RequestSteps, TaskStep, RecordStep, FinishStep, MissionStep, ToggleStep,
           StutterKeepsControl DEF Agentic!Next

LEMMA ControlStarts == ASSUME Agentic!ControlAssumption, Agentic!Init PROVE ControlInv
<1>1. ControlTyped
  BY DEF Agentic!Init, ControlTyped, WholeDocument, Agentic!Document, Agentic!ControlAssumption
<1>2. \A r \in Operator : Orderly(todo[r], missions) /\ todo[r] = <<>>
  BY NothingLeft DEF Agentic!Init, Orderly
<1>3. \A r \in Operator : \A m : ~Finishes(todo[r], m)
  BY <1>2 DEF Finishes
<1>4. Agentic!CompletedMissionRanAll
  BY DEF Agentic!Init, Agentic!CompletedMissionRanAll
<1> QED BY <1>1, <1>2, <1>3, <1>4 DEF ControlInv

LEMMA ControlHolds == ASSUME ControlInv PROVE Agentic!TypeOK /\ Agentic!ControlConsistent
<1>1. Agentic!TypeOK
  <2>1. \A r \in Operator : \A i \in 1..Len(todo[r]) :
         todo[r][i].do = "task" => todo[r][i].goal \in Agentic!Goal
    <3> TAKE r \in Operator
    <3> TAKE i \in 1..Len(todo[r])
    <3>1. todo[r][i] \in Item
      BY DEF ControlInv, ControlTyped
    <3> QED BY <3>1, TodoKinds DEF TaskItem
  <2>2. enabled \subseteq Agentic!Agent /\ document \in Agentic!Document /\ cycles \in 0..CycleMax
    BY DEF ControlInv, ControlTyped, WholeDocument
  <2>3. \A k \in 1..Len(missions) : missions[k] \in Mission
    BY DEF ControlInv, ControlTyped
  <2> QED BY <2>1, <2>2, <2>3 DEF Agentic!TypeOK, Mission
<1>2. Agentic!CheckpointIsOfLastCycle
  BY DEF ControlInv, ControlTyped, WholeDocument, Agentic!CheckpointIsOfLastCycle
<1>3. Agentic!MissionsOnlyReview
  <2> SUFFICES ASSUME NEW r \in Operator, NEW l \in 1..Len(todo[r]), todo[r][l].do = "finish",
                      NEW i \in 1..(l - 1)
               PROVE  /\ todo[r][i].do \in {"task", "record"}
                      /\ todo[r][i].mission = todo[r][l].mission
    BY DEF Agentic!MissionsOnlyReview
  <2>1. todo[r] \in Seq(Item) /\ Len(todo[r]) \in Nat /\ Orderly(todo[r], missions)
    BY DEF ControlInv, ControlTyped
  <2>2. PICK last \in Nat : Serving(todo[r], last)
    BY <2>1 DEF Orderly, AllFree, Free
  <2>3. l = last
    <3>1. l < last => FALSE
      BY <2>1, <2>2 DEF Serving
    <3>2. l > last => FALSE
      BY <2>1, <2>2 DEF Serving, Free
    <3> QED BY <2>1, <2>2, <3>1, <3>2
  <2> QED BY <2>2, <2>3 DEF Serving
<1> QED BY <1>1, <1>2, <1>3 DEF ControlInv, Agentic!ControlConsistent

-----------------------------------------------------------------------------
(* The platform: the component of a behaviour keeps its invariant.         *)

PlatformInv ==
  /\ active = "approval" => ApprovalInv
  /\ active = "offhost" => OffhostInv
  /\ active = "access" => AccessInv
  /\ active = "provider" => GateInv
  /\ active = "mqtt" => MqttInv
  /\ active = "scan" => ScanInv
  /\ active = "limiter" => LimiterInv
  /\ active = "body" => BodyInv
  /\ active = "health" => HealthInv
  /\ active = "prompts" => PromptInv
  /\ active = "release" => ReleaseInv
  /\ active = "golive" => GoLiveInv
  /\ active = "memory" => MemoryInv
  /\ active = "inventory" => StockFacts!InventoryInv
  /\ active = "control" => ControlInv

(* A step of the platform is a step of its component, or none. *)
LEMMA ActiveStep ==
  ASSUME [PlatformNext]_all
  PROVE  /\ active' = active
         /\ active = "approval" => [Approval!Next]_(Approval!vars)
         /\ active = "offhost" => [Offhost!Next]_(Offhost!vars)
         /\ active = "access" => [Access!Next]_(Access!vars)
         /\ active = "provider" => [Gate!Next]_(Gate!vars)
         /\ active = "mqtt" => [Mqtt!Next]_(Mqtt!vars)
         /\ active = "scan" => [Scan!Next]_(Scan!vars)
         /\ active = "limiter" => [Limiter!Next]_(Limiter!vars)
         /\ active = "body" => [Body!Next]_(Body!vars)
         /\ active = "health" => [Health!Next]_(Health!vars)
         /\ active = "prompts" => [Prompts!Next]_(Prompts!vars)
         /\ active = "release" => [Release!Next]_(Release!vars)
         /\ active = "golive" => [Reports!Next]_(Reports!vars)
         /\ active = "memory" => [Memory!Next]_(Memory!vars)
         /\ active = "inventory" => [Stock!Next]_(Stock!vars)
         /\ active = "control" => [Agentic!Next]_(Agentic!vars)
<1>1. CASE PlatformNext
  BY <1>1 DEF PlatformNext
<1>2. CASE UNCHANGED all
  <2>1. active' = active
    BY <1>2 DEF all
  <2>2. UNCHANGED Approval!vars
    BY <1>2 DEF all, Approval!vars, production, status, written, registered, reposted, lost, req
  <2>3. UNCHANGED Offhost!vars
    BY <1>2 DEF all, Offhost!vars, clock, receipt, liveness, issued, object, cache, ledger, lock,
                probe, consumed
  <2>4. UNCHANGED Access!vars
    BY <1>2 DEF all, Access!vars, override, request, assignment, update, seen
  <2>5. UNCHANGED Gate!vars
    BY <1>2 DEF all, Gate!vars, clock, policy, credential, checks, usages, test, chat, verified
  <2>6. UNCHANGED Mqtt!vars
    BY <1>2 DEF all, Mqtt!vars, config, adapter, call, session, subscribed, devices, stored
  <2>7. UNCHANGED Scan!vars
    BY <1>2 DEF all, Scan!vars, open, request, task, receipts, queued, lost
  <2>8. UNCHANGED Limiter!vars
    BY <1>2 DEF all, Limiter!vars, bucket, request, failed
  <2>9. UNCHANGED Body!vars
    BY <1>2 DEF all, Body!vars, scope, sent, ended, taken, stage, body, received, response
  <2>10. UNCHANGED Health!vars
    BY <1>2 DEF all, Health!vars, clock, settings, enabled, latest, check, changes
  <2>11. UNCHANGED Prompts!vars
    BY <1>2 DEF all, Prompts!vars, kind, content, history, edit, dropped
  <2>12. UNCHANGED Release!vars
    BY <1>2 DEF all, Release!vars, version, health, suites, agentRuns, findings, work, started
  <2>13. UNCHANGED Reports!vars
    BY <1>2 DEF all, Reports!vars, deployment, signals, audit, control, decision, verifier,
                verified, report, clock
  <2>14. UNCHANGED Memory!vars
    BY <1>2 DEF all, Memory!vars, policy, interactions, feedback, proposals, chat, rating, clock
  <2>15. UNCHANGED Stock!vars
    BY <1>2 DEF all, Stock!vars, Stock!tables
  <2>16. UNCHANGED Agentic!vars
    BY <1>2 DEF all, Agentic!vars, enabled, document, cycles, missions, todo
  <2> QED BY <2>1, <2>2, <2>3, <2>4, <2>5, <2>6, <2>7, <2>8, <2>9, <2>10, <2>11, <2>12, <2>13, <2>14,
             <2>15, <2>16
<1> QED BY <1>1, <1>2

LEMMA PlatformInductive == PlatformSpec => []PlatformInv
<1>1. PlatformInit => PlatformInv
  BY PlatformAssumption, ApprovalInductive, OffhostInductive, AccessInit, GateInductive, MqttInit,
     ScanInductive, LimiterInductive, BodyInductive, HealthInductive, PromptInductive,
     ReleaseInductive, GoLiveInductive, MemoryInductive, StockInductive, ControlStarts
  DEF PlatformAssumption, PlatformInit, PlatformInv
<1>2. PlatformInv /\ [PlatformNext]_all => PlatformInv'
  <2> SUFFICES ASSUME PlatformInv, [PlatformNext]_all PROVE PlatformInv'
    OBVIOUS
  <2>1. active' = active
    BY ActiveStep
  <2>2. active = "approval" => ApprovalInv'
    BY ActiveStep, ApprovalInductive, PlatformAssumption DEF PlatformAssumption, PlatformInv
  <2>3. active = "offhost" => OffhostInv'
    BY ActiveStep, OffhostInductive, PlatformAssumption DEF PlatformAssumption, PlatformInv
  <2>4. active = "access" => AccessInv'
    BY ActiveStep, AccessStep, PlatformAssumption DEF PlatformAssumption, PlatformInv
  <2>5. active = "provider" => GateInv'
    BY ActiveStep, GateInductive, PlatformAssumption DEF PlatformAssumption, PlatformInv
  <2>6. active = "mqtt" => MqttInv'
    BY ActiveStep, MqttStep, PlatformAssumption DEF PlatformAssumption, PlatformInv
  <2>7. active = "scan" => ScanInv'
    BY ActiveStep, ScanInductive, PlatformAssumption DEF PlatformAssumption, PlatformInv
  <2>8. active = "limiter" => LimiterInv'
    BY ActiveStep, LimiterInductive, PlatformAssumption DEF PlatformAssumption, PlatformInv
  <2>9. active = "body" => BodyInv'
    BY ActiveStep, BodyInductive, PlatformAssumption DEF PlatformAssumption, PlatformInv
  <2>10. active = "health" => HealthInv'
    BY ActiveStep, HealthInductive, PlatformAssumption DEF PlatformAssumption, PlatformInv
  <2>11. active = "prompts" => PromptInv'
    BY ActiveStep, PromptInductive, PlatformAssumption DEF PlatformAssumption, PlatformInv
  <2>12. active = "release" => ReleaseInv'
    BY ActiveStep, ReleaseInductive, PlatformAssumption DEF PlatformAssumption, PlatformInv
  <2>13. active = "golive" => GoLiveInv'
    BY ActiveStep, GoLiveInductive, PlatformAssumption DEF PlatformAssumption, PlatformInv
  <2>14. active = "memory" => MemoryInv'
    BY ActiveStep, MemoryInductive, PlatformAssumption DEF PlatformAssumption, PlatformInv
  <2>15. active = "inventory" => StockFacts!InventoryInv'
    BY ActiveStep, StockInductive, PlatformAssumption DEF PlatformAssumption, PlatformInv
  <2>16. active = "control" => ControlInv'
    BY ActiveStep, ControlStep, PlatformAssumption DEF PlatformAssumption, PlatformInv
  <2> QED BY <2>1, <2>2, <2>3, <2>4, <2>5, <2>6, <2>7, <2>8, <2>9, <2>10, <2>11, <2>12, <2>13, <2>14,
             <2>15, <2>16
       DEF PlatformInv
<1> QED BY <1>1, <1>2, PTL DEF PlatformSpec

(* Every component keeps its variables in their types. *)
THEOREM TypesAreKept == PlatformSpec => []TypesOK
<1>0. PlatformInv => (active = "memory" => Memory!TypeOK)
  BY DEF PlatformInv, MemoryInv
<1>1. PlatformInv => TypesOK
  BY <1>0, PlatformAssumption, ApprovalHolds, OffhostHolds, AccessHolds, GateHolds, MqttHolds, ScanHolds,
     LimiterHolds, BodyHolds, HealthHolds, PromptsHold, ReleaseHolds, GoLiveHolds,
     StockHolds, ControlHolds
  DEF PlatformAssumption, PlatformInv, TypesOK
<1> QED BY <1>1, PlatformInductive, PTL

(* A hardware candidate is approved only when its whole registration is in *)
(* the inventory and audited; the claim admits one registration of a       *)
(* candidate at a time, and one in all, unless it was posted again         *)
(* meanwhile or a worker died on it; no late failure, repost or second     *)
(* approver takes an approval back (approve_hardware_discovery_candidate): *)
(* for any number of workers, failures and deaths between transactions.    *)
THEOREM ApprovalIsSound == PlatformSpec => ApprovalSound
<1>1. PlatformInv => (active = "approval" => Approval!ApprovedIsComplete /\ Approval!OneRegistrar)
  BY ApprovalHolds DEF PlatformInv
<1>2. PlatformInv /\ [PlatformNext]_all => [active = "approval" => Approval!StaysApproved]_all
  <2>1. ASSUME PlatformInv, PlatformNext, active = "approval" PROVE Approval!StaysApproved
    <3>1. [Approval!StaysApproved]_(Approval!vars)
      BY <2>1, ActiveStep, ApprovalStays DEF PlatformInv
    <3> QED BY <3>1 DEF Approval!vars, Approval!StaysApproved
  <2> QED BY <2>1
<1> QED BY <1>1, <1>2, PlatformInductive, PTL DEF PlatformSpec, ApprovalSound

(* No cached digest vouches for a backup that was rewritten since it was   *)
(* taken (verify_mounted_offhost_backup), and observations of the mount    *)
(* are consumed in the order of their times, so none counts twice          *)
(* (record_offhost_liveness_replay_state): for any number of concurrent    *)
(* probes, deaths between their steps and files that are put back.         *)
THEOREM OffhostIsSound == PlatformSpec => OffhostSound
<1>1. PlatformInv => (active = "offhost" => Offhost!CacheTrue)
  BY OffhostHolds DEF PlatformInv
<1>2. PlatformInv /\ [PlatformNext]_all => [active = "offhost" => Offhost!InOrder]_all
  BY ActiveStep, LedgerStep, PlatformAssumption DEF PlatformAssumption, PlatformInv, OffhostInv
<1> QED BY <1>1, <1>2, PlatformInductive, PTL DEF PlatformSpec, OffhostSound

(* A scope that a request is granted was assigned to its subject and       *)
(* permitted to that role while the request ran (enforce_bearer_           *)
(* authorization), whatever administrators write meanwhile.                *)
THEOREM GrantsAreBacked == PlatformSpec => []GrantedByBoth
<1>1. PlatformInv => GrantedByBoth
  BY AccessHolds DEF PlatformInv, GrantedByBoth
<1> QED BY <1>1, PlatformInductive, PTL

(* A gate found open was opened by a completed test of the provider and    *)
(* model it was computed for (provider_chat_gate), and a chat is on the    *)
(* usage record once (build_chat_response), for any number of chats and    *)
(* tests and any policy changes between their steps.                       *)
THEOREM GateIsSound == PlatformSpec => []GateSound
<1>1. PlatformInv => GateSound
  BY GateHolds DEF PlatformInv, GateSound
<1> QED BY <1>1, PlatformInductive, PTL

(* The subscriber is shown connected exactly while its session is up with  *)
(* all filters, and field evidence is claimed of a live TLS session that   *)
(* stored telemetry only (MQTTBrokerAdapter.public_status), after any      *)
(* number of lost connections, failed starts and stops.                    *)
THEOREM BrokerStatusIsTrue == PlatformSpec => []BrokerStatusTrue
<1>1. PlatformInv => BrokerStatusTrue
  BY MqttHolds DEF PlatformInv, BrokerStatusTrue
<1> QED BY <1>1, PlatformInductive, PTL

(* However a scan ends, none of its probes outlives it and all of them     *)
(* stay in the range that was admitted; the receipts tell its outcome and  *)
(* a complete result looked at every port (run_network_discovery_scan,     *)
(* scan_private_network): for every range, set of ports and limit.         *)
THEOREM ScanIsSound == PlatformSpec => []ScanSound
<1>1. PlatformInv => ScanSound
  BY ScanHolds, PlatformAssumption DEF PlatformAssumption, PlatformInv, ScanSound
<1> QED BY <1>1, PlatformInductive, PTL

(* However many workers compare passwords at once and in whatever order    *)
(* they commit, no more wrong passwords are tried for one subject in a     *)
(* window than the limit, the window being shorter than the configured one *)
(* by the longest wait for the write lock; rotating subjects never grow    *)
(* the table past its ceiling (auth_bucket_capacity_available), and a      *)
(* bucket holds no more failures than its limit, one more for tokens.      *)
THEOREM LimiterIsSound == PlatformSpec => []LimiterSound
<1>1. PlatformInv => LimiterSound
  BY LimiterHolds, PlatformAssumption DEF PlatformAssumption, PlatformInv, LimiterSound
<1> QED BY <1>1, PlatformInductive, PTL

(* Whatever length is announced and however the body is chunked, the       *)
(* application of a write receives it once, whole and within the limit, or *)
(* learns of the disconnection, and a body is only refused as too large    *)
(* when it is or says so (RequestBodyLimitMiddleware).                     *)
THEOREM BodiesAreWhole == PlatformSpec => []BodyWholeAndBounded
<1>1. PlatformInv => BodyWholeAndBounded
  BY BodyHolds DEF PlatformInv, BodyWholeAndBounded
<1> QED BY <1>1, PlatformInductive, PTL

(* Whatever changes and changes back, a receipt that readers are shown as  *)
(* fresh, of a check nothing was changed under, describes the settings and *)
(* agents in force (latest_agent_llm_health).                              *)
THEOREM QuietReceiptsAreTrue == PlatformSpec => []QuietReceiptTrue
<1>1. PlatformInv => QuietReceiptTrue
  BY HealthHolds DEF PlatformInv, QuietReceiptTrue
<1> QED BY <1>1, PlatformInductive, PTL

(* What is in force can be found in the history unless its writer is known *)
(* to be about to append it or to have dropped it, the version that a      *)
(* rollback of an artifact appends restores its target exactly             *)
(* (rollback_prompt_artifact), and versions keep their numbers and their   *)
(* contents: however many administrators write at once.                    *)
THEOREM PromptsAreSound == PlatformSpec => PromptsSound
<1>1. PlatformInv => (active = "prompts" => Prompts!PromptHistorySound)
  BY PromptsHold DEF PlatformInv
<1>2. PlatformInv /\ [PlatformNext]_all => [active = "prompts" => Prompts!HistoryOnlyGrowsStep]_all
  BY ActiveStep, HistoryGrows, PlatformAssumption DEF PlatformAssumption, PlatformInv
<1> QED BY <1>1, <1>2, PlatformInductive, PTL DEF PlatformSpec, PromptsSound

(* A release that a reader is told is completed was judged by the running  *)
(* version, the newest suite of either kind passed and all lanes are ready *)
(* now; its finding rests on ready findings of its own of every lane, and  *)
(* the evidence report agrees with it (latest_release_mission_status,      *)
(* run_release_mission, qa_evidence_report): for any number of operators,  *)
(* restarts and changes of what the suites measure.                        *)
THEOREM ReleaseIsSound == PlatformSpec => []ReleaseSound
<1>1. PlatformInv => ReleaseSound
  BY ReleaseHolds, PlatformAssumption DEF PlatformAssumption, PlatformInv, ReleaseSound
<1> QED BY <1>1, PlatformInductive, PTL

(* Whatever administrators record, feedback arrives and evidence ages or   *)
(* rotates away while a brief for the owner is put together, it asks about *)
(* every item that was open all the while and about none that was closed;  *)
(* and a backup counts as ready only on the last restore test recorded     *)
(* (production_owner_decision_brief, backup_retention_status,              *)
(* production_secret_free_preflight).                                      *)
THEOREM GoLiveIsSound == PlatformSpec => []GoLiveSound
<1>1. PlatformInv => GoLiveSound
  BY GoLiveHolds, PlatformAssumption DEF PlatformAssumption, PlatformInv, GoLiveSound
<1> QED BY <1>1, PlatformInductive, PTL

(* A sweep of the assistant's memory (enforce_ai_memory_policy) removes    *)
(* what has expired, and otherwise only sessions older than every one it   *)
(* keeps; it spares the session a chat protects, keeps no more sessions    *)
(* than the policy allows, fits the budget and leaves no orphans: for any  *)
(* policies, sessions and ratings, and any writes between its reads.       *)
THEOREM SweepsAreSound == PlatformSpec => SweepSound
<1>1. PlatformInv /\ [PlatformNext]_all => [active = "memory" => Memory!SweepKeepsNewest]_all
  <2>1. ASSUME PlatformInv, PlatformNext, active = "memory", ~UNCHANGED all
        PROVE  Memory!SweepKeepsNewest
    <3>1. Memory!Next /\ MemoryInv
      BY <2>1 DEF PlatformNext, PlatformInv
    <3>2. [Memory!SweepKeepsNewest]_(Memory!vars)
      BY <3>1, MemoryStep, PlatformAssumption DEF PlatformAssumption
    <3> QED BY <3>2 DEF Memory!vars, Memory!SweepKeepsNewest, Memory!Idle
  <2> QED BY <2>1
<1> QED BY <1>1, PlatformInductive, PTL DEF PlatformSpec, SweepSound

(* A device names a registered asset and a profile a registered device,    *)
(* unless a reset came between the check and the write (add_device,        *)
(* add_config_profile); the CMDB shows every device and asset that did not *)
(* change while it was read as it is and is ready only on validated        *)
(* evidence (build_cmdb), drift and compatibility verdicts agree with it   *)
(* (list_firmware_drift, firmware_compatibility_result): for any number of *)
(* workers and any order of their transactions.                            *)
THEOREM InventoryIsSound == PlatformSpec => []InventorySound
<1>1. PlatformInv => InventorySound
  BY StockHolds DEF PlatformInv, InventorySound
<1> QED BY <1>1, PlatformInductive, PTL

(* However guard cycles, notes, tasks and missions overlap, the checkpoint *)
(* to resume from is that of the cycle agentic_control_state reports, a    *)
(* mission runs nothing but the tasks of its agents, and one that reports  *)
(* completion recorded one run of each agent it selected, in their order   *)
(* (run_auto_guard, update_task_state, execute_agent_task,                 *)
(* run_agent_autopilot_mission): for any number of agents and requests.    *)
THEOREM ControlIsConsistent == PlatformSpec => []ControlConsistent
<1>1. PlatformInv => ControlConsistent
  BY ControlHolds DEF PlatformInv, ControlConsistent
<1> QED BY <1>1, PlatformInductive, PTL
=============================================================================
