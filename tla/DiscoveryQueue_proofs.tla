------------------------ MODULE DiscoveryQueue_proofs ------------------------
(***************************************************************************)
(* Proofs about the discovery queue, for any hosts, evidence, devices and  *)
(* operators: what a revision names, and what an approval stands for.      *)
(***************************************************************************)
EXTENDS DiscoveryQueue, FiniteSetTheorems, TLAPS

(* What holds of the tables beside their types: revisions are handed out   *)
(* once and a queued observation was never approved.                       *)
RevisionsUsed ==
  /\ \A a \in Rows : candidates[a].revision <= sequence
  /\ \A o \in Operator : review[o] # None => review[o].revision <= sequence
  /\ \A r \in Revision : r > sequence => approvals[r] = 0
QueuedIsUndecided ==
  \A a \in Rows : candidates[a].status = "queued" => approvals[candidates[a].revision] = 0

(* In production a device a candidate names exists and carries its address,*)
(* so that no two candidates share one.                                    *)
Linked ==
  production => \A a \in Rows : candidates[a].device # None =>
    /\ devices[candidates[a].device] # None
    /\ devices[candidates[a].device].address = a

IInv == /\ TypeOK /\ RevisionsUsed /\ QueuedIsUndecided /\ Linked
        /\ RevisionNamesEvidence /\ ApprovedMeansInventoried

-----------------------------------------------------------------------------
(* The ranks of the hosts of one scan are distinct and start at one.       *)
Rank(a, S) == Cardinality({b \in S : b <= a})

LEMMA Ranks ==
  ASSUME NEW S \in SUBSET Address
  PROVE  /\ IsFiniteSet(S) /\ Cardinality(S) \in Nat
         /\ \A a \in S : Rank(a, S) \in 1..Cardinality(S)
         /\ \A a, b \in S : a # b => Rank(a, S) # Rank(b, S)
<1>1. IsFiniteSet(S) /\ Cardinality(S) \in Nat
  BY FS_Subset, FS_CardinalityType, QueueAssumption
<1> DEFINE below(a) == {b \in S : b <= a}
<1>2. ASSUME NEW a \in S
      PROVE  /\ IsFiniteSet(below(a)) /\ Cardinality(below(a)) \in Nat
             /\ Cardinality(below(a)) <= Cardinality(S) /\ Cardinality(below(a)) # 0
  <2>1. /\ IsFiniteSet(below(a)) /\ Cardinality(below(a)) \in Nat
        /\ Cardinality(below(a)) <= Cardinality(S)
    BY <1>1, FS_Subset, FS_CardinalityType
  <2>2. a \in below(a)
    <3>1. a \in Nat
      BY QueueAssumption
    <3>2. a <= a
      BY <3>1
    <3>3. QED BY <3>2
  <2>3. QED BY <2>1, <2>2, FS_EmptySet
<1>3. ASSUME NEW a \in S, NEW b \in S, a < b PROVE Cardinality(below(a)) < Cardinality(below(b))
  <2>1. below(a) \subseteq below(b) /\ b \in below(b) /\ b \notin below(a)
    <3>1. a \in Nat /\ b \in Nat /\ \A c \in S : c \in Nat
      BY QueueAssumption
    <3>2. \A c \in S : c <= a => c <= b
      BY <1>3, <3>1
    <3>3. b <= b /\ ~(b <= a)
      BY <1>3, <3>1
    <3>4. QED BY <3>2, <3>3
  <2>2. QED BY <1>2, <2>1, FS_Subset
<1>4. \A a, b \in S : a # b => a < b \/ b < a
  BY QueueAssumption
<1>5. QED BY <1>1, <1>2, <1>3, <1>4 DEF Rank

(* What a scan makes of one row: it is gone, as it was, or a new           *)
(* observation with a revision of its own; approved only if the evidence   *)
(* is that of the row approved before.                                     *)
Observed(a, r) ==
  /\ candidates'[a].revision = r
  /\ \/ /\ candidates'[a].status = "queued"
        /\ \/ candidates'[a].device = None
           \/ a \in Rows /\ candidates'[a].device = candidates[a].device
     \/ /\ a \in Rows /\ candidates[a].status = "approved"
        /\ candidates'[a].status = "approved"
        /\ candidates'[a].evidence = candidates[a].evidence
        /\ candidates'[a].device = candidates[a].device

LEMMA QueueShape ==
  ASSUME TypeOK, NEW S \in SUBSET Address, NEW found \in [S -> Evidence], Queue(found)
  PROVE  /\ candidates' \in [Address -> CandidateRow \cup {None}]
         /\ sequence' \in sequence..MaxRevision
         /\ Cardinality(Rows') <= MaxCandidates
         /\ \A a \in Rows' :
              \/ a \in Rows /\ candidates'[a] = candidates[a]
              \/ a \in S /\ Observed(a, sequence + Rank(a, S))
<1> DEFINE U == Upserted(found)
           rows == {a \in Address : U[a] # None}
<1>1. PICK kept \in Newest(U) : candidates' = [a \in Address |-> IF a \in kept THEN U[a] ELSE None]
  BY DEF Queue
<1>2. kept \subseteq rows /\ rows \subseteq Address
  BY DEF Newest
<1>3. sequence' = sequence + Cardinality(S) /\ sequence' <= MaxRevision
  BY DEF Queue
<1>4. sequence \in Nat /\ MaxRevision \in Nat /\ clock \in Nat
  BY QueueAssumption DEF TypeOK, Time
<1>5. ASSUME NEW a \in S
      PROVE  /\ sequence + Rank(a, S) \in Revision
             /\ NextRevision(a, DOMAIN found) = sequence + Rank(a, S)
  BY <1>3, <1>4, Ranks DEF Revision, NextRevision, Rank
<1>6. ASSUME NEW a \in Address, a \notin S
      PROVE  U[a] = None \/ (a \in Rows /\ U[a] = candidates[a])
  BY <1>6 DEF Upserted, Rows
<1>7. ASSUME NEW a \in S, NEW r \in Revision, U[a] = Fresh(found[a], r)
      PROVE  /\ U[a] \in CandidateRow /\ U[a].revision = r
             /\ U[a].status = "queued" /\ U[a].device = None
  BY <1>7, <1>4, QueueAssumption DEF Fresh, CandidateRow, TypeOK, Time
<1>8. ASSUME NEW a \in S, NEW r \in Revision, a \in Rows, U[a] = Merged(candidates[a], found[a], r)
      PROVE  /\ U[a] \in CandidateRow /\ U[a].revision = r
             /\ U[a].device = candidates[a].device
             /\ \/ U[a].status = "queued"
                \/ /\ U[a].status = "approved" /\ candidates[a].status = "approved"
                   /\ U[a].evidence = candidates[a].evidence
  <2>1. candidates[a] \in CandidateRow
    BY <1>8 DEF Rows, TypeOK
  <2>2. clock + Ttl \in 0..(MaxClock + Ttl)
    BY <1>4, QueueAssumption DEF TypeOK, Time
  <2>3. CASE SameEvidence(candidates[a], found[a])
    BY <1>8, <2>1, <2>3 DEF Merged, SameEvidence, CandidateRow, TypeOK
  <2>4. CASE ~SameEvidence(candidates[a], found[a])
    BY <1>8, <2>1, <2>2, <2>4 DEF Merged, CandidateRow, TypeOK
  <2>5. QED BY <2>3, <2>4
<1>9. ASSUME NEW a \in S
      PROVE  LET r == sequence + Rank(a, S)
             IN \/ a \in Rows /\ U[a] = Merged(candidates[a], found[a], r)
                \/ U[a] = Fresh(found[a], r)
  BY <1>5 DEF Upserted
<1>10. \A a \in Address : U[a] \in CandidateRow \cup {None}
  <2> SUFFICES ASSUME NEW a \in Address PROVE U[a] \in CandidateRow \cup {None}
    OBVIOUS
  <2>1. CASE a \in S
    BY <2>1, <1>5, <1>7, <1>8, <1>9
  <2>2. CASE a \notin S
    BY <2>2, <1>6 DEF TypeOK
  <2>3. QED BY <2>1, <2>2
<1>11. candidates' \in [Address -> CandidateRow \cup {None}]
  BY <1>1, <1>10
<1>12. Rows' = kept
  BY <1>1, <1>2 DEF Rows
<1>13. Cardinality(kept) <= MaxCandidates
  <2>1. Cardinality(rows) \in Nat /\ MaxCandidates \in Nat
    BY <1>2, QueueAssumption, FS_Subset, FS_CardinalityType
  <2>2. Cardinality(kept) = IF Cardinality(rows) <= MaxCandidates THEN Cardinality(rows)
                            ELSE MaxCandidates
    BY DEF Newest
  <2>3. QED BY <2>1, <2>2
<1>14. ASSUME NEW a \in Rows'
       PROVE  \/ a \in Rows /\ candidates'[a] = candidates[a]
              \/ a \in S /\ Observed(a, sequence + Rank(a, S))
  <2>1. a \in Address /\ candidates'[a] = U[a] /\ U[a] # None
    BY <1>1, <1>2, <1>12, <1>14
  <2>2. CASE a \in S
    <3> DEFINE r == sequence + Rank(a, S)
    <3>1. r \in Revision
      BY <1>5, <2>2
    <3> HIDE DEF r
    <3>2. CASE a \in Rows /\ U[a] = Merged(candidates[a], found[a], r)
      BY <1>8, <2>1, <2>2, <3>1, <3>2 DEF Observed, r
    <3>3. CASE U[a] = Fresh(found[a], r)
      BY <1>7, <2>1, <2>2, <3>1, <3>3 DEF Observed, r
    <3>4. QED BY <1>9, <2>2, <3>2, <3>3 DEF r
  <2>3. CASE a \notin S
    BY <1>6, <2>1, <2>3
  <2>4. QED BY <2>2, <2>3
<1>15. QED BY <1>3, <1>4, <1>11, <1>12, <1>13, <1>14, Ranks

-----------------------------------------------------------------------------
LEMMA InitInv == ASSUME Init PROVE IInv
<1>1. TypeOK
  <2>1. Rows = {}
    BY DEF Init, Rows
  <2>2. Cardinality(Rows) <= MaxCandidates
    BY <2>1, FS_EmptySet, QueueAssumption
  <2>3. 0 \in 0..MaxRevision /\ 0 \in 0..MaxClock
    BY QueueAssumption
  <2>4. QED BY <2>2, <2>3 DEF Init, TypeOK, Time
<1>2. Rows = {} /\ \A o \in Operator : review[o] = None
  BY DEF Init, Rows
<1>3. \A r \in Revision : approvals[r] = 0
  BY DEF Init
<1>4. QED BY <1>1, <1>2, <1>3
      DEF IInv, RevisionsUsed, QueuedIsUndecided, Linked, RevisionNamesEvidence,
          ApprovedMeansInventoried

(* A scan hands out revisions no row, review or approval has seen.         *)
LEMMA QueueInv ==
  ASSUME IInv, NEW S \in SUBSET Address, NEW found \in [S -> Evidence], Queue(found),
         UNCHANGED production
  PROVE  IInv'
<1>1. UNCHANGED <<production, devices, review, approvals, clock>>
  BY DEF Queue
<1>2. TypeOK
  BY DEF IInv
<1>3. sequence \in Nat /\ sequence' \in Nat /\ sequence <= sequence'
      /\ sequence' \in 0..MaxRevision
  BY <1>2, QueueShape, QueueAssumption DEF TypeOK
<1>4. \A a \in S : Rank(a, S) \in Nat \ {0} /\ Rank(a, S) <= Cardinality(S)
  BY Ranks
<1>5. sequence' = sequence + Cardinality(S)
  BY DEF Queue
<1>6. ASSUME NEW a \in Rows'
      PROVE  /\ a \in Address /\ candidates'[a] \in CandidateRow
             /\ \/ a \in Rows /\ candidates'[a] = candidates[a]
                \/ a \in S /\ Observed(a, sequence + Rank(a, S))
  BY <1>2, QueueShape DEF Rows
<1>7. \A a \in Rows : candidates[a] \in CandidateRow /\ candidates[a].revision \in Nat
  BY <1>2, QueueAssumption DEF TypeOK, Rows, CandidateRow, Revision
<1>8. TypeOK'
  BY <1>1, <1>2, <1>3, QueueShape DEF TypeOK, Time
<1>9. RevisionsUsed'
  <2>1. \A a \in Rows' : candidates'[a].revision <= sequence'
    <3> SUFFICES ASSUME NEW a \in Rows' PROVE candidates'[a].revision <= sequence'
      OBVIOUS
    <3>1. CASE a \in Rows /\ candidates'[a] = candidates[a]
      BY <3>1, <1>3, <1>7 DEF IInv, RevisionsUsed
    <3>2. CASE a \in S /\ Observed(a, sequence + Rank(a, S))
      BY <3>2, <1>3, <1>4, <1>5, Ranks DEF Observed
    <3>3. QED BY <1>6, <3>1, <3>2
  <2>2. \A o \in Operator : review[o] # None => review[o].revision <= sequence'
    BY <1>2, <1>3, QueueAssumption DEF IInv, RevisionsUsed, TypeOK, Review, Revision
  <2>3. QED BY <1>1, <1>3, <2>1, <2>2, QueueAssumption DEF IInv, RevisionsUsed, Revision
<1>10. QueuedIsUndecided'
  <2> SUFFICES ASSUME NEW a \in Rows', candidates'[a].status = "queued"
               PROVE  approvals[candidates'[a].revision] = 0
    BY <1>1 DEF QueuedIsUndecided
  <2>1. CASE a \in Rows /\ candidates'[a] = candidates[a]
    BY <2>1 DEF IInv, QueuedIsUndecided
  <2>2. CASE a \in S /\ Observed(a, sequence + Rank(a, S))
    <3>1. candidates'[a].revision \in Revision /\ candidates'[a].revision > sequence
      BY <2>2, <1>3, <1>4, <1>6 DEF Observed, CandidateRow
    <3>2. QED BY <3>1 DEF IInv, RevisionsUsed
  <2>3. QED BY <1>6, <2>1, <2>2
<1>11. Linked'
  <2> SUFFICES ASSUME production, NEW a \in Rows', candidates'[a].device # None
               PROVE  devices[candidates'[a].device] # None /\ devices[candidates'[a].device].address = a
    BY <1>1 DEF Linked
  <2>1. a \in Rows /\ candidates'[a].device = candidates[a].device
    BY <1>6 DEF Observed
  <2>2. QED BY <2>1 DEF IInv, Linked
<1>12. RevisionNamesEvidence'
  <2>1. ASSUME NEW a \in Rows', NEW b \in Rows', candidates'[a].revision = candidates'[b].revision
        PROVE  a = b
    <3>1. CASE a \in Rows /\ candidates'[a] = candidates[a] /\ b \in Rows /\ candidates'[b] = candidates[b]
      BY <2>1, <3>1 DEF IInv, RevisionNamesEvidence
    <3>2. CASE /\ a \in S /\ candidates'[a].revision = sequence + Rank(a, S)
               /\ b \in S /\ candidates'[b].revision = sequence + Rank(b, S)
      <4>1. Rank(a, S) \in Nat /\ Rank(b, S) \in Nat
        BY <3>2, <1>4
      <4>2. sequence + Rank(a, S) = sequence + Rank(b, S)
        BY <2>1, <3>2
      <4>3. Rank(a, S) = Rank(b, S)
        BY <4>1, <4>2, <1>3
      <4>4. QED BY <3>2, <4>3, Ranks
    <3>3. ASSUME NEW x \in Rows, NEW y \in S, candidates'[x] = candidates[x],
                 candidates'[y].revision = sequence + Rank(y, S)
          PROVE  candidates'[x].revision # candidates'[y].revision
      BY <3>3, <1>3, <1>4, <1>7 DEF IInv, RevisionsUsed
    <3>4. QED BY <2>1, <1>6, <3>1, <3>2, <3>3 DEF Observed
  <2>2. ASSUME NEW o \in Operator, review[o] # None, NEW a \in Rows',
               candidates'[a].revision = review[o].revision
        PROVE  a = review[o].address /\ candidates'[a].evidence = review[o].evidence
    <3>1. CASE a \in Rows /\ candidates'[a] = candidates[a]
      BY <2>2, <3>1 DEF IInv, RevisionNamesEvidence
    <3>2. CASE a \in S /\ Observed(a, sequence + Rank(a, S))
      <4>1. review[o].revision <= sequence /\ review[o].revision \in Nat
        BY <2>2, <1>2, QueueAssumption DEF IInv, RevisionsUsed, TypeOK, Review, Revision
      <4>2. candidates'[a].revision > sequence
        BY <3>2, <1>3, <1>4 DEF Observed
      <4>3. QED BY <2>2, <4>1, <4>2, <1>3
    <3>3. QED BY <1>6, <3>1, <3>2
  <2>3. QED BY <1>1, <2>1, <2>2 DEF RevisionNamesEvidence
<1>13. ApprovedMeansInventoried'
  <2> SUFFICES ASSUME production, NEW a \in Rows', candidates'[a].status = "approved"
               PROVE  LET d == candidates'[a].device
                      IN /\ d # None /\ devices[d] # None
                         /\ devices[d].address = a /\ devices[d].evidence = candidates'[a].evidence
    BY <1>1 DEF ApprovedMeansInventoried
  <2>1. /\ a \in Rows /\ candidates[a].status = "approved"
        /\ candidates'[a].evidence = candidates[a].evidence
        /\ candidates'[a].device = candidates[a].device
    BY <1>6 DEF Observed
  <2>2. QED BY <2>1 DEF IInv, ApprovedMeansInventoried
<1>14. QED BY <1>8, <1>9, <1>10, <1>11, <1>12, <1>13 DEF IInv

(* An operator reads a row: the review names what the row holds.           *)
LEMMA ReadInv ==
  ASSUME IInv, NEW o \in Operator, NEW a \in Address, ReadCandidate(o, a), UNCHANGED production
  PROVE  IInv'
<1> DEFINE r == [address |-> a, evidence |-> candidates[a].evidence,
                 revision |-> candidates[a].revision]
<1>1. UNCHANGED <<production, candidates, sequence, devices, approvals, clock>>
  BY DEF ReadCandidate
<1>2. a \in Rows /\ candidates[a] \in CandidateRow
  BY DEF ReadCandidate, Live, Rows, IInv, TypeOK
<1>3. r \in Review /\ review' = [review EXCEPT ![o] = r]
  BY <1>2 DEF ReadCandidate, CandidateRow, Review
<1>4. \A p \in Operator : review'[p] = IF p = o THEN r ELSE review[p]
  BY <1>3 DEF IInv, TypeOK
<1>5. Rows' = Rows
  BY <1>1 DEF Rows
<1>6. TypeOK'
  BY <1>1, <1>3, <1>5 DEF IInv, TypeOK, Time
<1>7. RevisionsUsed'
  BY <1>1, <1>2, <1>4, <1>5 DEF IInv, RevisionsUsed
<1>8. RevisionNamesEvidence'
  BY <1>1, <1>2, <1>4, <1>5 DEF IInv, RevisionNamesEvidence
<1>9. QueuedIsUndecided' /\ Linked' /\ ApprovedMeansInventoried'
  BY <1>1, <1>5 DEF IInv, QueuedIsUndecided, Linked, ApprovedMeansInventoried
<1>10. QED BY <1>6, <1>7, <1>8, <1>9 DEF IInv

(* What an approval of host a writes, and what it found.                   *)
Inventoried(a, s) ==
  [adapter |-> "network", asset |-> s, address |-> a, evidence |-> candidates[a].evidence]
Decided(a, d, s) == [candidates[a] EXCEPT !.status = "approved", !.device = d, !.asset = s]
ApproveEffect(a, d, s) ==
  LET c == candidates[a]
      row == Inventoried(a, s)
      new == Decided(a, d, s)
  IN /\ c \in CandidateRow /\ c.status = "queued" /\ Linkable(c, d, s)
     /\ row \in DeviceRow
     /\ devices' = [devices EXCEPT ![d] = row]
     /\ new \in CandidateRow /\ new.evidence = c.evidence /\ new.revision = c.revision
     /\ new.status = "approved" /\ new.device = d
     /\ candidates' = [candidates EXCEPT ![a] = new]
     /\ approvals' = [approvals EXCEPT ![c.revision] = approvals[c.revision] + 1]
     /\ UNCHANGED <<sequence, review, clock>>

LEMMA ApproveShape ==
  ASSUME IInv, NEW o \in Operator, NEW d \in Device, NEW s \in Asset, Approve(o, d, s)
  PROVE  \E a \in Rows : ApproveEffect(a, d, s)
<1> DEFINE a == review[o].address
           c == candidates[a]
<1>1. a \in Rows /\ c.status = "queued" /\ Linkable(c, d, s)
  BY DEF Approve, Approvable, Live
<1>2. a \in Address /\ c \in CandidateRow
  BY <1>1 DEF Rows, IInv, TypeOK
<1>3. Inventoried(a, s) \in DeviceRow
  BY <1>2 DEF DeviceRow, CandidateRow, Inventoried
<1>4. /\ Decided(a, d, s) \in CandidateRow
      /\ Decided(a, d, s).evidence = c.evidence /\ Decided(a, d, s).revision = c.revision
      /\ Decided(a, d, s).status = "approved" /\ Decided(a, d, s).device = d
  BY <1>2 DEF CandidateRow, Decided
<1>5. candidates' = [candidates EXCEPT ![a] = Decided(a, d, s)]
  BY <1>2 DEF Approve, Approved, Decided, IInv, TypeOK
<1>6. /\ devices' = [devices EXCEPT ![d] = Inventoried(a, s)]
      /\ approvals' = [approvals EXCEPT ![c.revision] = approvals[c.revision] + 1]
      /\ UNCHANGED <<sequence, review, clock>>
  BY DEF Approve, Promoted, Inventoried
<1>7. QED BY <1>1, <1>2, <1>3, <1>4, <1>5, <1>6 DEF ApproveEffect

(* An approval decides an undecided observation and links its host to a    *)
(* device that is new or was its own.                                      *)
LEMMA ApproveInv ==
  ASSUME IInv, NEW o \in Operator, NEW d \in Device, NEW s \in Asset, Approve(o, d, s),
         UNCHANGED production
  PROVE  IInv'
<1>1. PICK a \in Rows : ApproveEffect(a, d, s)
  BY ApproveShape
<1> DEFINE c == candidates[a]
           row == Inventoried(a, s)
           new == Decided(a, d, s)
<1>2. /\ row # None /\ row.address = a /\ row.evidence = c.evidence
      /\ new # None /\ c.revision \in Revision
  BY <1>1, NoneAssumption DEF ApproveEffect, Inventoried, CandidateRow
<1>3. /\ \A e \in Device : devices'[e] = IF e = d THEN row ELSE devices[e]
      /\ \A b \in Address : candidates'[b] = IF b = a THEN new ELSE candidates[b]
      /\ \A r \in Revision : approvals'[r] = IF r = c.revision THEN approvals[r] + 1 ELSE approvals[r]
  BY <1>1 DEF ApproveEffect, IInv, TypeOK
<1>4. a \in Address /\ Rows' = Rows
  BY <1>2, <1>3 DEF Rows
<1>5. approvals[c.revision] = 0
  BY <1>1 DEF ApproveEffect, IInv, QueuedIsUndecided
<1>f. /\ new.evidence = c.evidence /\ new.revision = c.revision
      /\ new.status = "approved" /\ new.device = d /\ c.status = "queued"
      /\ UNCHANGED <<sequence, review, clock>>
  BY <1>1 DEF ApproveEffect
<1>6. TypeOK'
  <2>1. approvals' \in [Revision -> 0..1]
    BY <1>1, <1>2, <1>5 DEF ApproveEffect, IInv, TypeOK
  <2>2. QED BY <1>1, <1>4, <2>1 DEF ApproveEffect, IInv, TypeOK, Time
<1> HIDE DEF new, row
<1>7. RevisionsUsed'
  <2>1. c.revision <= sequence
    BY DEF IInv, RevisionsUsed
  <2>2. \A r \in Revision : r > sequence => r # c.revision
    BY <1>2, <2>1 DEF IInv, TypeOK, Revision
  <2>3. \A b \in Rows : candidates'[b].revision = candidates[b].revision
    BY <1>3, <1>f DEF Rows
  <2>4. QED BY <1>3, <1>4, <1>f, <2>2, <2>3 DEF IInv, RevisionsUsed
<1>8. QueuedIsUndecided'
  <2> SUFFICES ASSUME NEW b \in Rows, candidates'[b].status = "queued"
               PROVE  approvals'[candidates'[b].revision] = 0
    BY <1>4 DEF QueuedIsUndecided
  <2>1. b # a /\ b \in Address /\ candidates'[b] = candidates[b]
    BY <1>3, <1>f DEF Rows
  <2>2. candidates[b].revision # c.revision
    BY <2>1 DEF IInv, RevisionNamesEvidence
  <2>3. candidates[b].revision \in Revision
    BY <2>1 DEF IInv, TypeOK, Rows, CandidateRow
  <2>4. QED BY <1>3, <2>1, <2>2, <2>3 DEF IInv, QueuedIsUndecided
<1>9. ASSUME production, NEW b \in Rows, b # a, candidates[b].device = d PROVE FALSE
  <2>1. devices[d] # None /\ devices[d].address = b
    BY <1>2, <1>9, NoneAssumption DEF IInv, Linked
  <2>2. c.device = d
    BY <1>1, <2>1 DEF ApproveEffect, Linkable
  <2>3. devices[d].address = a
    BY <1>9, <2>2, NoneAssumption DEF IInv, Linked
  <2>4. QED BY <1>9, <2>1, <2>3
<1>10. Linked'
  <2> SUFFICES ASSUME production, NEW b \in Rows, candidates'[b].device # None
               PROVE  LET e == candidates'[b].device
                      IN devices'[e] # None /\ devices'[e].address = b
    BY <1>4 DEF Linked
  <2>1. CASE b = a
    BY <2>1, <1>2, <1>3, <1>4, <1>f
  <2>2. CASE b # a
    <3>1. b \in Address /\ candidates'[b] = candidates[b] /\ candidates[b].device # d
      BY <2>2, <1>3, <1>9 DEF Rows
    <3>2. candidates[b].device \in Device
      BY <3>1 DEF IInv, TypeOK, Rows, CandidateRow
    <3>3. QED BY <3>1, <3>2, <1>3 DEF IInv, Linked
  <2>3. QED BY <2>1, <2>2
<1>11. RevisionNamesEvidence'
  <2>1. \A b \in Rows : /\ candidates'[b].revision = candidates[b].revision
                        /\ candidates'[b].evidence = candidates[b].evidence
    BY <1>3, <1>f DEF Rows
  <2>2. QED BY <1>4, <1>f, <2>1 DEF IInv, RevisionNamesEvidence
<1>12. ApprovedMeansInventoried'
  <2> SUFFICES ASSUME production, NEW b \in Rows, candidates'[b].status = "approved"
               PROVE  LET e == candidates'[b].device
                      IN /\ e # None /\ devices'[e] # None
                         /\ devices'[e].address = b /\ devices'[e].evidence = candidates'[b].evidence
    BY <1>4 DEF ApprovedMeansInventoried
  <2>1. CASE b = a
    BY <2>1, <1>2, <1>3, <1>4, <1>f, NoneAssumption
  <2>2. CASE b # a
    <3>1. b \in Address /\ candidates'[b] = candidates[b] /\ candidates[b].device # d
      BY <2>2, <1>3, <1>9 DEF Rows
    <3>2. candidates[b].device \in Device
      BY <3>1 DEF IInv, ApprovedMeansInventoried, TypeOK, Rows, CandidateRow
    <3>3. QED BY <3>1, <3>2, <1>3 DEF IInv, ApprovedMeansInventoried
  <2>3. QED BY <2>1, <2>2
<1>13. QED BY <1>6, <1>7, <1>8, <1>10, <1>11, <1>12 DEF IInv

(* The device routes keep what an approval wrote; the reset is refused in  *)
(* production; time passes.                                                *)
LEMMA OtherInv ==
  ASSUME IInv, UNCHANGED production,
         \/ \E d \in Device, s \in Asset : \E adapter \in {"network", "other"} :
              WriteDevice(d, adapter, s)
         \/ ResetDemo \/ Tick \/ UNCHANGED vars
  PROVE  IInv'
<1>1. UNCHANGED <<candidates, sequence, review, approvals>> /\ Rows' = Rows
  BY DEF WriteDevice, ResetDemo, Tick, vars, Rows
<1>2. clock' \in Time
  <2>1. clock \in 0..MaxClock /\ MaxClock \in Nat
    BY QueueAssumption DEF IInv, TypeOK, Time
  <2>2. clock' = clock \/ (clock < MaxClock /\ clock' = clock + 1)
    BY DEF WriteDevice, ResetDemo, Tick, vars
  <2>3. QED BY <2>1, <2>2 DEF Time
<1> DEFINE Kept ==
      /\ devices' \in [Device -> DeviceRow \cup {None}]
      /\ production => \A d \in Device : devices[d] # None =>
           /\ devices'[d] # None
           /\ devices'[d].address = devices[d].address
           /\ devices'[d].evidence = devices[d].evidence
<1>3. Kept
  <2>1. ASSUME NEW d \in Device, NEW s \in Asset, NEW adapter \in {"network", "other"},
               WriteDevice(d, adapter, s)
        PROVE  Kept
    <3> DEFINE row == IF devices[d] = None
                      THEN [adapter |-> adapter, asset |-> s, address |-> None, evidence |-> None]
                      ELSE [devices[d] EXCEPT !.adapter = adapter, !.asset = s]
    <3>1. /\ row \in DeviceRow
          /\ devices[d] # None => row.address = devices[d].address /\ row.evidence = devices[d].evidence
      BY DEF IInv, TypeOK, DeviceRow
    <3>2. devices' = [devices EXCEPT ![d] = row] /\ row # None
      BY <2>1, <3>1, NoneAssumption DEF WriteDevice
    <3> HIDE DEF row
    <3>3. QED BY <3>1, <3>2 DEF IInv, TypeOK
  <2>2. CASE ResetDemo
    BY <2>2 DEF ResetDemo
  <2>3. CASE UNCHANGED devices
    BY <2>3 DEF IInv, TypeOK
  <2>4. QED BY <2>1, <2>2, <2>3 DEF Tick, vars
<1>4. TypeOK' /\ RevisionsUsed' /\ QueuedIsUndecided' /\ RevisionNamesEvidence'
  BY <1>1, <1>2, <1>3 DEF IInv, TypeOK, RevisionsUsed, QueuedIsUndecided, RevisionNamesEvidence
<1>5. \A a \in Rows : candidates[a].device \in Device \cup {None}
  BY DEF IInv, TypeOK, Rows, CandidateRow
<1>6. Linked'
  BY <1>1, <1>3, <1>5 DEF IInv, Linked
<1>7. ApprovedMeansInventoried'
  BY <1>1, <1>3, <1>5 DEF IInv, ApprovedMeansInventoried
<1>8. QED BY <1>4, <1>6, <1>7 DEF IInv

(* The queue in every reachable state. *)
THEOREM Inductive == Spec => []IInv
<1>1. IInv /\ [Next]_vars => IInv'
  <2> SUFFICES ASSUME IInv, [Next]_vars PROVE IInv'
    OBVIOUS
  <2>1. UNCHANGED production
    BY DEF Next, vars
  <2>2. ASSUME NEW S \in SUBSET Address, NEW found \in [S -> Evidence], Queue(found) PROVE IInv'
    BY <2>1, <2>2, QueueInv
  <2>3. ASSUME NEW o \in Operator, NEW a \in Address, ReadCandidate(o, a) PROVE IInv'
    BY <2>1, <2>3, ReadInv
  <2>4. ASSUME NEW o \in Operator, NEW d \in Device, NEW s \in Asset, Approve(o, d, s) PROVE IInv'
    BY <2>1, <2>4, ApproveInv
  <2>5. ASSUME \/ \E d \in Device, s \in Asset : \E adapter \in {"network", "other"} :
                    WriteDevice(d, adapter, s)
               \/ ResetDemo \/ Tick \/ UNCHANGED vars
        PROVE  IInv'
    BY <2>1, <2>5, OtherInv
  <2>6. QED BY <2>2, <2>3, <2>4, <2>5 DEF Next, Step
<1>2. QED BY <1>1, InitInv, PTL DEF Spec

(* The tables are well typed, the queue keeps its bound, and no            *)
(* observation is approved twice (approve_network_discovery_candidate).    *)
THEOREM QueueWellTyped == Spec => []TypeOK
<1>1. IInv => TypeOK
  BY DEF IInv
<1>2. QED BY <1>1, Inductive, PTL

(* A revision names one observation for good: a row that carries the       *)
(* revision an operator reviewed shows what was reviewed.                  *)
THEOREM RevisionsName == Spec => []RevisionNamesEvidence
<1>1. IInv => RevisionNamesEvidence
  BY DEF IInv
<1>2. QED BY <1>1, Inductive, PTL

(* In production an approved candidate's device exists and carries its     *)
(* address and the evidence that was approved.                             *)
THEOREM ApprovalsAreInventoried == Spec => []ApprovedMeansInventoried
<1>1. IInv => ApprovedMeansInventoried
  BY DEF IInv
<1>2. QED BY <1>1, Inductive, PTL

-----------------------------------------------------------------------------
(* An approval changes no device of another adapter, asset or host.        *)
THEOREM ApprovalsStayHome == Spec => ForeignDevicesUntouched
<1> DEFINE Untouched ==
      approvals' # approvals => \A d \in Device :
        devices[d] # None /\ devices'[d] # devices[d] =>
          /\ devices[d].adapter = "network" /\ devices'[d].asset = devices[d].asset
          /\ production => devices'[d].address = devices[d].address
<1>1. ASSUME IInv, Next PROVE Untouched
  <2> SUFFICES ASSUME approvals' # approvals, NEW e \in Device, devices[e] # None,
                      devices'[e] # devices[e]
               PROVE  /\ devices[e].adapter = "network" /\ devices'[e].asset = devices[e].asset
                      /\ production => devices'[e].address = devices[e].address
    OBVIOUS
  <2>1. PICK o \in Operator, d \in Device, s \in Asset : Approve(o, d, s)
    BY <1>1 DEF Next, Step, Queue, ReadCandidate, WriteDevice, ResetDemo, Tick
  <2>2. PICK a \in Rows : ApproveEffect(a, d, s)
    BY <1>1, <2>1, ApproveShape
  <2>3. e = d /\ devices'[e] = Inventoried(a, s)
    BY <1>1, <2>2 DEF ApproveEffect, IInv, TypeOK
  <2>4. devices[d].adapter = "network" /\ devices[d].asset = s /\ candidates[a].device = d
    BY <2>2, <2>3 DEF ApproveEffect, Linkable
  <2>5. production => devices[d].address = a
    BY <1>1, <2>4, NoneAssumption DEF IInv, Linked
  <2>6. QED BY <2>3, <2>4, <2>5 DEF Inventoried
<1>2. ASSUME IInv, [Next]_vars PROVE [Untouched]_vars
  BY <1>1, <1>2
<1>3. QED BY <1>2, Inductive, PTL DEF Spec, ForeignDevicesUntouched

(* A scan that brings new evidence of an approved host queues it again.    *)
THEOREM NewEvidenceIsReviewed == Spec => NewEvidenceNeedsReview
<1> DEFINE Reviewed ==
      \A a \in Rows : candidates[a].status = "approved" /\ candidates'[a] # None
                       /\ candidates'[a].evidence # candidates[a].evidence
                     => candidates'[a].status = "queued"
<1>1. ASSUME IInv, Next PROVE Reviewed
  <2> SUFFICES ASSUME NEW a \in Rows, candidates'[a] # None,
                      candidates'[a].evidence # candidates[a].evidence
               PROVE  candidates'[a].status = "queued"
    OBVIOUS
  <2>1. ASSUME NEW S \in SUBSET Address, NEW found \in [S -> Evidence], Queue(found)
        PROVE  candidates'[a].status = "queued"
    <3>1. a \in Rows' /\ TypeOK
      BY <1>1 DEF Rows, IInv
    <3>2. QED BY <2>1, <3>1, QueueShape DEF Observed
  <2>2. ASSUME NEW o \in Operator, NEW d \in Device, NEW s \in Asset, Approve(o, d, s)
        PROVE  FALSE
    <3>1. PICK b \in Rows : ApproveEffect(b, d, s)
      BY <1>1, <2>2, ApproveShape
    <3>2. QED BY <1>1, <3>1 DEF ApproveEffect, Rows, IInv, TypeOK
  <2>3. QED BY <1>1, <2>1, <2>2 DEF Next, Step, ReadCandidate, WriteDevice, ResetDemo, Tick
<1>2. ASSUME IInv, [Next]_vars PROVE [Reviewed]_vars
  BY <1>1, <1>2
<1>3. QED BY <1>2, Inductive, PTL DEF Spec, NewEvidenceNeedsReview
=============================================================================
