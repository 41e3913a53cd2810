---------------------------- MODULE DiscoveryQueue ----------------------------
(***************************************************************************)
(* Network discovery candidates (app.py): the queue that scans fill and    *)
(* retention empties, and the approval that turns one reviewed candidate   *)
(* into a device of the inventory.  Scans of several processes, reviewers, *)
(* approvals and the ordinary device routes interleave; each of them is    *)
(* one SQLite transaction.                                                 *)
(*                                                                         *)
(* The set of open ports and protocol hints of a host is one value of      *)
(* Evidence, which the SHA-256 fingerprint stands for.                     *)
(***************************************************************************)
EXTENDS Integers, FiniteSets

CONSTANTS
  Address,          \* hosts of the scanned scope, ordered as integers
  Evidence,         \* what a scan can see of a host
  Device, Asset,    \* inventory identifiers an approval may name
  Operator,
  None,             \* no row, no device, no review
  Ttl,              \* DISCOVERY_CANDIDATE_TTL_HOURS
  TerminalAge,      \* seven days
  MaxCandidates,    \* the 500 of the bounded cleanup
  MaxRevision,      \* bound: observations in a behaviour
  MaxClock          \* bound: clock ticks in a behaviour

Time == 0..MaxClock
Revision == 1..MaxRevision

ASSUME QueueAssumption ==
  /\ Address \subseteq Nat /\ IsFiniteSet(Address)
  /\ Ttl \in Nat /\ TerminalAge \in Nat /\ MaxCandidates \in Nat
  /\ MaxRevision \in Nat /\ MaxClock \in Nat

CandidateRow ==
  [status : {"queued", "approved"}, evidence : Evidence, revision : Revision,
   seen : Time, expires : 0..(MaxClock + Ttl),
   device : Device \cup {None}, asset : Asset \cup {None}]
DeviceRow == [adapter : {"network", "other"}, asset : Asset,
              address : Address \cup {None}, evidence : Evidence \cup {None}]
Review == [address : Address, evidence : Evidence, revision : Revision]

ASSUME NoneAssumption ==
  None \notin CandidateRow \cup DeviceRow \cup Review \cup Device \cup Asset
                \cup Address \cup Evidence

VARIABLES
  production,   \* the mode of the installation; production refuses the demo reset
  candidates,   \* network_discovery_candidates, by address
  sequence,     \* network_discovery_revision_sequence
  devices,      \* devices with their tcp_connect_only protocol rows
  review,       \* the candidate each operator has on screen
  approvals,    \* candidate.approved audit rows per revision
  clock

vars == <<production, candidates, sequence, devices, review, approvals, clock>>

Rows == {a \in Address : candidates[a] # None}

-----------------------------------------------------------------------------
(* Scans and retention *)

(* Rows that queue_network_discovery_observations deletes first: queued    *)
(* ones that expired and others not seen for long.                         *)
Stale == {a \in Rows : IF candidates[a].status = "queued" THEN candidates[a].expires <= clock
                       ELSE candidates[a].seen < clock - TerminalAge}

SameEvidence_approved(old, e) == old.status = "approved"
SameEvidence(old, e) == old.status = "approved" /\ old.evidence = e

Fresh(e, r) == [status |-> "queued", evidence |-> e, revision |-> r, seen |-> clock,
                expires |-> clock + Ttl, device |-> None, asset |-> None]

(* The upsert of one observation: an approved row keeps its approval only  *)
(* for the same evidence; the inventory mapping stays either way.          *)
Merged(old, e, r) ==
  LET seen == [old EXCEPT !.evidence = e, !.revision = r, !.seen = clock]
  IN IF SameEvidence(old, e) THEN seen
     ELSE [seen EXCEPT !.status = "queued", !.expires = clock + Ttl]

NextRevision_ofRow(a, seen) ==
  IF a \in Rows \ Stale THEN candidates[a].revision + 1 ELSE 1
(* Each observation of a scan takes the next revision of one sequence that *)
(* outlives the rows.                                                      *)
NextRevision(a, seen) == sequence + Cardinality({b \in seen : b <= a})

Upserted(found) ==
  [a \in Address |->
     IF a \in DOMAIN found
     THEN IF a \in Rows \ Stale
          THEN Merged(candidates[a], found[a], NextRevision(a, DOMAIN found))
          ELSE Fresh(found[a], NextRevision(a, DOMAIN found))
     ELSE IF a \in Stale THEN None ELSE candidates[a]]

(* The newest MaxCandidates rows; rows seen in the same instant are        *)
(* ordered by a hash of their address.                                     *)
Newest(table) ==
  LET rows == {a \in Address : table[a] # None}
  IN {kept \in SUBSET rows :
        /\ Cardinality(kept) = IF Cardinality(rows) <= MaxCandidates
                               THEN Cardinality(rows) ELSE MaxCandidates
        /\ \A x \in kept, y \in rows \ kept : table[x].seen >= table[y].seen}

(* One scan result is queued; the empty result is also what the cleanup at *)
(* startup and of each hour does.                                          *)
Queue(found) ==
  /\ sequence + Cardinality(DOMAIN found) <= MaxRevision
  /\ \E kept \in Newest(Upserted(found)) :
       candidates' = [a \in Address |-> IF a \in kept THEN Upserted(found)[a] ELSE None]
  /\ sequence' = sequence + Cardinality(DOMAIN found)
  /\ UNCHANGED <<devices, review, approvals, clock>>

-----------------------------------------------------------------------------
(* Review and approval *)

Live(a) == a \in Rows /\ (candidates[a].status = "queued" => candidates[a].expires > clock)

ReadCandidate(o, a) ==
  /\ Live(a)
  /\ review' = [review EXCEPT ![o] = [address |-> a, evidence |-> candidates[a].evidence,
                                      revision |-> candidates[a].revision]]
  /\ UNCHANGED <<candidates, sequence, devices, approvals, clock>>

(* The candidate is still the one that was reviewed. *)
Unchanged(c, r) == c.evidence = r.evidence /\ c.revision = r.revision

Linkable_anyDevice(c, d, s) ==
  devices[d] # None => devices[d].adapter = "network" /\ devices[d].asset = s
(* A device that exists must be a network device of this asset, linked to  *)
(* this candidate already.                                                 *)
Linkable(c, d, s) ==
  devices[d] # None =>
    devices[d].adapter = "network" /\ devices[d].asset = s /\ c.device = d

Approvable_anyStatus(a, r) == Live(a) /\ Unchanged(candidates[a], r)
Approvable(a, r) ==
  /\ Live(a)
  /\ Unchanged(candidates[a], r)
  /\ candidates[a].status = "queued"

Promoted_keepOld(d, row) == IF devices[d] # None THEN devices ELSE [devices EXCEPT ![d] = row]
(* The device is inserted unless it exists, its protocol rows replaced. *)
Promoted(d, row) == [devices EXCEPT ![d] = row]

Approved(a, d, s) ==
  [candidates EXCEPT ![a].status = "approved", ![a].device = d, ![a].asset = s]

(* approve_network_discovery_candidate, one BEGIN IMMEDIATE transaction.   *)
(* A candidate approved before is answered without a change.               *)
Approve(o, d, s) ==
  /\ review[o] # None
  /\ LET a == review[o].address
         c == candidates[a]
     IN /\ Approvable(a, review[o])
        /\ Linkable(c, d, s)
        /\ devices' = Promoted(d, [adapter |-> "network", asset |-> s, address |-> a,
                                   evidence |-> c.evidence])
        /\ candidates' = Approved(a, d, s)
        /\ approvals' = [approvals EXCEPT ![c.revision] = @ + 1]
  /\ UNCHANGED <<sequence, review, clock>>

-----------------------------------------------------------------------------
(* Other routes that write the inventory, and time *)

(* add_device and update_device: any adapter, any asset; the protocol rows *)
(* of the device stay as they are.                                         *)
WriteDevice(d, adapter, s) ==
  /\ devices' = [devices EXCEPT ![d] =
       IF devices[d] = None
       THEN [adapter |-> adapter, asset |-> s, address |-> None, evidence |-> None]
       ELSE [devices[d] EXCEPT !.adapter = adapter, !.asset = s]]
  /\ UNCHANGED <<candidates, sequence, review, approvals, clock>>

(* reset_demo_data empties the inventory and leaves the candidates. *)
ResetDemo ==
  /\ ~production
  /\ devices' = [d \in Device |-> None]
  /\ UNCHANGED <<candidates, sequence, review, approvals, clock>>

Tick ==
  /\ clock < MaxClock
  /\ clock' = clock + 1
  /\ UNCHANGED <<candidates, sequence, devices, review, approvals>>

-----------------------------------------------------------------------------
Init ==
  /\ production \in BOOLEAN
  /\ candidates = [a \in Address |-> None]
  /\ sequence = 0
  /\ devices = [d \in Device |-> None]
  /\ review = [o \in Operator |-> None]
  /\ approvals = [r \in Revision |-> 0]
  /\ clock = 0

Step ==
  \/ \E S \in SUBSET Address : \E found \in [S -> Evidence] : Queue(found)
  \/ \E o \in Operator : \/ \E a \in Address : ReadCandidate(o, a)
                         \/ \E d \in Device, s \in Asset : Approve(o, d, s)
  \/ \E d \in Device, s \in Asset : \E adapter \in {"network", "other"} :
       WriteDevice(d, adapter, s)
  \/ ResetDemo \/ Tick

Next == Step /\ UNCHANGED production

Spec == Init /\ [][Next]_vars

-----------------------------------------------------------------------------
(* Properties *)

(* The tables keep their types, the queue its bound, and one observation   *)
(* is approved at most once, however often and by however many reviewers   *)
(* its approval is sent.                                                   *)
TypeOK ==
  /\ production \in BOOLEAN
  /\ candidates \in [Address -> CandidateRow \cup {None}]
  /\ sequence \in 0..MaxRevision
  /\ devices \in [Device -> DeviceRow \cup {None}]
  /\ review \in [Operator -> Review \cup {None}]
  /\ approvals \in [Revision -> 0..1]
  /\ Cardinality(Rows) <= MaxCandidates
  /\ clock \in Time

(* A revision names one observation for good: what an operator reviewed    *)
(* under a revision is what the row with that revision still holds, even   *)
(* if the row expired and the host was discovered anew in between.         *)
RevisionNamesEvidence ==
  /\ \A a, b \in Rows : candidates[a].revision = candidates[b].revision => a = b
  /\ \A o \in Operator : review[o] # None =>
       \A a \in Rows : candidates[a].revision = review[o].revision =>
         a = review[o].address /\ candidates[a].evidence = review[o].evidence

(* An approved candidate's device carries the candidate's address and the  *)
(* evidence that was approved, whatever was scanned, evicted or approved   *)
(* for other candidates since (unless the inventory was reset).            *)
ApprovedMeansInventoried ==
  production => \A a \in Rows : candidates[a].status = "approved" =>
    LET d == candidates[a].device
    IN /\ d # None /\ devices[d] # None
       /\ devices[d].address = a /\ devices[d].evidence = candidates[a].evidence

(* An approval never touches a device it does not own: one of another      *)
(* adapter, or one linked to another host.                                 *)
ForeignDevicesUntouched ==
  [][approvals' # approvals => \A d \in Device :
       devices[d] # None /\ devices'[d] # devices[d] =>
         /\ devices[d].adapter = "network" /\ devices'[d].asset = devices[d].asset
         /\ production => devices'[d].address = devices[d].address]_vars

(* New evidence always needs a new review: a scan never leaves a candidate *)
(* approved whose evidence it changed.                                     *)
NewEvidenceNeedsReview ==
  [][\A a \in Rows : candidates[a].status = "approved" /\ candidates'[a] # None
                       /\ candidates'[a].evidence # candidates[a].evidence
                     => candidates'[a].status = "queued"]_vars
=============================================================================
