--------------------------- MODULE HardwareApproval ---------------------------
(***************************************************************************)
(* Hardware discovery candidates (app.py): evidence that a person posts is *)
(* queued under the hash of its content, and an approval registers it in   *)
(* the inventory.  Unlike network candidates this approval is a saga: one  *)
(* transaction claims the candidate, six more write the inventory and the  *)
(* audit row, one marks it approved, and a failure has to undo the claim.  *)
(***************************************************************************)
EXTENDS Integers, FiniteSets

CONSTANTS
  Candidate,       \* candidate ids; the evidence is part of the id
  Worker,          \* request threads of the server processes
  RegistrationMax  \* bound: registrations audited per candidate

(* What register_hardware_discovery_payload writes, each in a transaction  *)
(* of its own, in this order: asset, device, configuration profile,        *)
(* hardware evidence, telemetry sample.  The sixth is the audit row.       *)
Parts == 5

BoundAssumption == RegistrationMax \in Nat

Status == {"none", "queued", "approving", "approved"}
Idle == [op |-> "idle"]
Attempt == [op : {"create", "claim", "undo", "finish"}, on : Candidate]
             \cup [op : {"register"}, on : Candidate, done : 0..Parts]

VARIABLES
  production,   \* the mode of the installation; production refuses the demo reset
  status,       \* hardware_discovery_candidates
  written,      \* parts of a candidate's registration that are in the inventory
  registered,   \* candidate.approved audit rows ever written, per candidate
  reposted,     \* candidates whose evidence was posted while being approved
  lost,         \* candidates a worker died on while approving
  req           \* what each worker is doing

vars == <<production, status, written, registered, reposted, lost, req>>
inventory == <<written, registered>>
ghosts == <<reposted, lost>>

On(w, op, c) == req[w] # Idle /\ req[w].op = op /\ req[w].on = c
Goto(w, step) == req' = [req EXCEPT ![w] = step]
Registering(c) == {w \in Worker : \E op \in {"register", "undo", "finish"} : On(w, op, c)}

-----------------------------------------------------------------------------
(* create_hardware_discovery_candidate reads first; an approved candidate  *)
(* is answered as it is.                                                   *)
BeginCreate(w, c) ==
  /\ req[w] = Idle
  /\ status[c] # "approved"
  /\ Goto(w, [op |-> "create", on |-> c])
  /\ UNCHANGED <<status, inventory, ghosts>>

Requeued_always(c) == "queued"
(* The upsert decides on the row it meets, not on the one read before. *)
Requeued(c) == IF status[c] = "approved" THEN "approved" ELSE "queued"

Create(w, c) ==
  /\ On(w, "create", c)
  /\ status' = [status EXCEPT ![c] = Requeued(c)]
  /\ reposted' = IF Registering(c) # {} THEN reposted \cup {c} ELSE reposted
  /\ Goto(w, Idle)
  /\ UNCHANGED <<inventory, lost>>

-----------------------------------------------------------------------------
(* approve_hardware_discovery_candidate *)

BeginApprove(w, c) ==
  /\ req[w] = Idle
  /\ status[c] = "queued"
  /\ Goto(w, [op |-> "claim", on |-> c])
  /\ UNCHANGED <<status, inventory, ghosts>>

Claimable(c) == status[c] = "queued"

(* The guarded UPDATE; a loser answers already_approved or 409. *)
Claim(w, c) ==
  /\ On(w, "claim", c)
  /\ IF Claimable(c)
     THEN /\ status' = [status EXCEPT ![c] = "approving"]
          /\ Goto(w, [op |-> "register", on |-> c, done |-> 0])
     ELSE UNCHANGED status /\ Goto(w, Idle)
  /\ UNCHANGED <<inventory, ghosts>>

MoreParts(w) == req[w].done < Parts

(* The next part of the registration, or its audit row after the last.  A  *)
(* part is written although a reset takes away, between its check and its  *)
(* write, the asset or device it needs; a check that fails is one of the   *)
(* failures below.                                                         *)
RegisterPart(w, c) ==
  /\ On(w, "register", c)
  /\ MoreParts(w)
  /\ written' = [written EXCEPT ![c] = @ \cup {req[w].done + 1}]
  /\ Goto(w, [req[w] EXCEPT !.done = @ + 1])
  /\ UNCHANGED <<status, registered, ghosts>>

AuditRegistration(w, c) ==
  /\ On(w, "register", c)
  /\ ~MoreParts(w)
  /\ registered[c] < RegistrationMax
  /\ registered' = [registered EXCEPT ![c] = @ + 1]
  /\ Goto(w, [op |-> "finish", on |-> c])
  /\ UNCHANGED <<status, written, ghosts>>

(* Any of these steps may raise; what was written stays. *)
FailRegistration(w, c) ==
  /\ On(w, "register", c)
  /\ Goto(w, [op |-> "undo", on |-> c])
  /\ UNCHANGED <<status, inventory, ghosts>>

Undone_never(c) == status[c]
(* The claim is undone unless somebody approved the candidate meanwhile. *)
Undone(c) == IF status[c] = "approving" THEN "queued" ELSE status[c]

Undo(w, c) ==
  /\ On(w, "undo", c)
  /\ status' = [status EXCEPT ![c] = Undone(c)]
  /\ Goto(w, Idle)
  /\ UNCHANGED <<inventory, ghosts>>

Finish(w, c) ==
  /\ On(w, "finish", c)
  /\ status' = [status EXCEPT ![c] = "approved"]
  /\ Goto(w, Idle)
  /\ UNCHANGED <<inventory, ghosts>>

(* The process dies between two of the transactions, or the one that marks *)
(* the candidate approved or undoes the claim fails: nothing guards those. *)
Crash(w) ==
  /\ req[w] # Idle
  /\ lost' = IF req[w].op \in {"register", "undo", "finish"}
             THEN lost \cup {req[w].on} ELSE lost
  /\ Goto(w, Idle)
  /\ UNCHANGED <<status, inventory, reposted>>

(* reset_demo_data empties the inventory and leaves the candidates. *)
ResetDemo ==
  /\ ~production
  /\ written' = [c \in Candidate |-> {}]
  /\ UNCHANGED <<status, registered, ghosts, req>>

-----------------------------------------------------------------------------
Init ==
  /\ production \in BOOLEAN
  /\ status = [c \in Candidate |-> "none"]
  /\ written = [c \in Candidate |-> {}]
  /\ registered = [c \in Candidate |-> 0]
  /\ reposted = {} /\ lost = {}
  /\ req = [w \in Worker |-> Idle]

Approving(w, c) ==
  \/ Claim(w, c) \/ RegisterPart(w, c) \/ AuditRegistration(w, c)
  \/ FailRegistration(w, c) \/ Undo(w, c) \/ Finish(w, c)
Step ==
  \/ \E w \in Worker :
       \/ \E c \in Candidate : BeginCreate(w, c) \/ Create(w, c)
                               \/ BeginApprove(w, c) \/ Approving(w, c)
       \/ Crash(w)
  \/ ResetDemo
Next == Step /\ UNCHANGED production

(* A request thread that was started runs to its end. *)
Work(w) == (\E c \in Candidate : Create(w, c) \/ Approving(w, c)) /\ UNCHANGED production
Fairness == \A w \in Worker : WF_vars(Work(w))
Spec == Init /\ [][Next]_vars /\ Fairness

-----------------------------------------------------------------------------
(* Properties *)

TypeOK ==
  /\ production \in BOOLEAN
  /\ status \in [Candidate -> Status]
  /\ written \in [Candidate -> SUBSET (1..Parts)]
  /\ registered \in [Candidate -> 0..RegistrationMax]
  /\ reposted \subseteq Candidate /\ lost \subseteq Candidate
  /\ req \in [Worker -> {Idle} \cup Attempt]

(* A candidate is approved only when its whole registration is in the      *)
(* inventory and audited, whichever attempts failed or died on the way     *)
(* (unless the inventory was reset: an approved candidate stays approved). *)
ApprovedIsComplete ==
  production => \A c \in Candidate :
    status[c] = "approved" => written[c] = 1..Parts /\ registered[c] > 0

(* The claim admits one registration at a time and one in all, unless the  *)
(* evidence was posted again during one or a worker died on one.           *)
OneRegistrar ==
  \A c \in Candidate \ (reposted \cup lost) :
    /\ Cardinality(Registering(c)) <= 1
    /\ registered[c] <= 1

(* An approval is final: no late failure, repost or second approver takes  *)
(* it back.                                                                *)
StaysApproved == \A c \in Candidate : status[c] = "approved" => status'[c] = "approved"
ApprovalIsFinal == [][StaysApproved]_vars

(* A claim is always resolved, to approved or back to the queue, unless a  *)
(* worker dies on it: then only posting the evidence again frees it.       *)
ClaimsAreResolved ==
  \A c \in Candidate : status[c] = "approving" ~> status[c] # "approving" \/ c \in lost
=============================================================================
