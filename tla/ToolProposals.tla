---------------------------- MODULE ToolProposals ----------------------------
(***************************************************************************)
(* Assistant tool proposals (app.py): an operator prepares a proposal for  *)
(* an endpoint of the application and a human approves it.  Preparing, and *)
(* approving a service health review, read the proposal, audit, record a   *)
(* finding and write the row in four transactions; approving a recovery    *)
(* proposal does it in one, beside the direct route of EdgeStore.          *)
(* Endpoint and owner agent of a proposal are one value of Endpoint.       *)
(***************************************************************************)
EXTENDS Integers

CONSTANTS
  Proposal,      \* assistant proposal ids
  Recovery,      \* recovery proposals; each stands for its approval endpoint
  Operator,      \* requests of operators with the scopes they need
  Session,       \* chat sessions a proposal may belong to
  None,
  AuditMax       \* bound: approvals audited for one proposal

ASSUME ToolAssumption ==
  /\ AuditMax \in Nat \ {0}
  /\ None \notin Recovery \cup Session
  /\ Proposal \cap Recovery = {}
  /\ {"service", "generic", "read"} \cap Recovery = {}

(* "service": /api/services/http/self-check; "generic": another recovery   *)
(* endpoint, whose target the approver names; "read": any other endpoint.  *)
Endpoint == Recovery \cup {"service", "generic", "read"}
State == {"awaiting_human_approval", "read_only_prepared", "approved_recorded"}

Row == [endpoint : Endpoint, session : Session \cup {None}, state : State]

VARIABLES
  tool,      \* assistant_tool_proposals
  recovery,  \* status of the recovery proposals
  audited,   \* audit rows ever written that record the approval of a subject
  found,     \* proposals whose approval has a finding
  op         \* per operator: the request under way

vars == <<tool, recovery, audited, found, op>>

Idle == [at |-> "idle"]
Held(p) == tool[p] # None

(* assistant_target_scope is "recovery:approve" *)
RecoveryScoped(e) == e # "read"

(* Audit rows of approvals; those of preparations are not counted. *)
Recorded(x) == [audited EXCEPT ![x] = @ + 1]
Room(p) == audited[p] < AuditMax

-----------------------------------------------------------------------------
(* prepare_assistant_tool_action and approve_service_health_tool_action:   *)
(* the row to write is decided from what is read first.                    *)

Writing(o, p, row) ==
  /\ op' = [op EXCEPT ![o] = [at |-> "audit", proposal |-> p, row |-> row]]
  /\ UNCHANGED <<tool, recovery, audited, found>>

(* A proposal that exists is replayed or refused, without a change. *)
Preparable(p) == ~Held(p)

BeginPrepare(o, p, e, needsApproval, s) ==
  /\ op[o] = Idle
  /\ Preparable(p)
  /\ Writing(o, p, [endpoint |-> e, session |-> s,
                    state |-> IF needsApproval \/ RecoveryScoped(e)
                              THEN "awaiting_human_approval" ELSE "read_only_prepared"])

BeginServiceApproval(o, p) ==
  /\ op[o] = Idle
  /\ Held(p) /\ tool[p].endpoint = "service"
  /\ tool[p].state = "awaiting_human_approval"
  /\ Writing(o, p, [tool[p] EXCEPT !.state = "approved_recorded"])

Approving(o) == op[o].row.state = "approved_recorded"

AddAudit(o) ==
  /\ op[o].at = "audit"
  /\ IF Approving(o)
     THEN Room(op[o].proposal) /\ audited' = Recorded(op[o].proposal)
     ELSE UNCHANGED audited
  /\ op' = [op EXCEPT ![o].at = "finding"]
  /\ UNCHANGED <<tool, recovery, found>>

AddFinding(o) ==
  /\ op[o].at = "finding"
  /\ found' = IF Approving(o) THEN found \cup {op[o].proposal} ELSE found
  /\ op' = [op EXCEPT ![o].at = "upsert"]
  /\ UNCHANGED <<tool, recovery, audited>>

(* INSERT OR REPLACE, whatever the row has become since it was read. *)
Upsert(o) ==
  /\ op[o].at = "upsert"
  /\ tool' = [tool EXCEPT ![op[o].proposal] = op[o].row]
  /\ op' = [op EXCEPT ![o] = Idle]
  /\ UNCHANGED <<recovery, audited, found>>

-----------------------------------------------------------------------------
(* approve_assistant_tool_action for a recovery proposal: the endpoint is  *)
(* read first, the rest is one BEGIN IMMEDIATE transaction.                *)

Targets(e) == IF e \in Recovery THEN {e} ELSE IF e = "generic" THEN Recovery ELSE {}

BeginBridge(o, p, r) ==
  /\ op[o] = Idle
  /\ Held(p) /\ r \in Targets(tool[p].endpoint)
  /\ op' = [op EXCEPT ![o] = [at |-> "bridge", proposal |-> p,
                              endpoint |-> tool[p].endpoint, target |-> r]]
  /\ UNCHANGED <<tool, recovery, audited, found>>

AsRead_anyEndpoint(p, e) == Held(p)
AsRead(p, e) == Held(p) /\ tool[p].endpoint = e

Transition_again(r) == recovery[r] \in {"pending_approval", "approved"}
(* UPDATE ... WHERE status = 'pending_approval' changes the row. *)
Transition(r) == recovery[r] = "pending_approval"

Decided(r) == [recovery EXCEPT ![r] = "approved"]

CommitBridge(o) ==
  /\ op[o].at = "bridge"
  /\ LET p == op[o].proposal
         r == op[o].target
     IN /\ AsRead(p, op[o].endpoint)
        /\ recovery[r] \in {"pending_approval", "approved"}
        /\ tool[p].state = "awaiting_human_approval"
        /\ Room(p)
        /\ recovery' = Decided(r)
        /\ audited' = [audited EXCEPT ![p] = @ + 1, ![r] = IF Transition(r) THEN @ + 1 ELSE @]
        /\ found' = found \cup {p}
        /\ tool' = [tool EXCEPT ![p].state = "approved_recorded"]
  /\ op' = [op EXCEPT ![o] = Idle]

(* approve_proposal, the direct route. *)
ApproveRecovery(r) ==
  /\ Transition(r)
  /\ recovery' = Decided(r)
  /\ audited' = Recorded(r)
  /\ UNCHANGED <<tool, found, op>>

-----------------------------------------------------------------------------
(* A request ends without its next step: a replay or refusal inside the    *)
(* bridge, an exception in any of the four transactions, a dying process.  *)
Abort(o) ==
  /\ op[o] # Idle
  /\ op' = [op EXCEPT ![o] = Idle]
  /\ UNCHANGED <<tool, recovery, audited, found>>

(* The assistant's memory policy drops the proposals of old sessions. *)
Forget(p) ==
  /\ Held(p) /\ tool[p].session # None
  /\ tool' = [tool EXCEPT ![p] = None]
  /\ UNCHANGED <<recovery, audited, found, op>>

(* Retention and rotation of the edge store drop approved proposals. *)
Retire(r) ==
  /\ recovery[r] = "approved"
  /\ recovery' = [recovery EXCEPT ![r] = "gone"]
  /\ UNCHANGED <<tool, audited, found, op>>

(* reset_demo_data deletes every recovery proposal; those of the assistant *)
(* stay.  A production installation refuses it.                            *)
ResetDemo ==
  /\ recovery' = [r \in Recovery |-> "gone"]
  /\ UNCHANGED <<tool, audited, found, op>>

-----------------------------------------------------------------------------
Init ==
  /\ tool = [p \in Proposal |-> None]
  /\ recovery = [r \in Recovery |-> "pending_approval"]
  /\ audited = [x \in Proposal \cup Recovery |-> 0]
  /\ found = {}
  /\ op = [o \in Operator |-> Idle]

Next ==
  \/ \E o \in Operator, p \in Proposal :
       \/ \E e \in Endpoint, needs \in BOOLEAN, s \in Session \cup {None} :
            BeginPrepare(o, p, e, needs, s)
       \/ BeginServiceApproval(o, p)
       \/ \E r \in Recovery : BeginBridge(o, p, r)
  \/ \E o \in Operator : AddAudit(o) \/ AddFinding(o) \/ Upsert(o) \/ CommitBridge(o) \/ Abort(o)
  \/ \E p \in Proposal : Forget(p)
  \/ \E r \in Recovery : ApproveRecovery(r) \/ Retire(r)
  \/ ResetDemo

Spec == Init /\ [][Next]_vars

-----------------------------------------------------------------------------
(* Properties *)

TypeOK ==
  /\ tool \in [Proposal -> Row \cup {None}]
  /\ recovery \in [Recovery -> {"pending_approval", "approved", "gone"}]
  /\ audited \in [Proposal \cup Recovery -> Nat]
  /\ found \subseteq Proposal
  /\ op \in [Operator ->
       {Idle} \cup [at : {"audit", "finding", "upsert"}, proposal : Proposal, row : Row]
              \cup [at : {"bridge"}, proposal : Proposal, endpoint : Endpoint, target : Recovery]]

(* A recovery proposal is approved and audited exactly once, however many  *)
(* operators approve it through the assistant and directly.                *)
RecoveryApprovedOnce ==
  \A r \in Recovery :
    /\ audited[r] <= 1
    /\ recovery[r] # "gone" => (audited[r] = 1 <=> recovery[r] = "approved")

(* A proposal recorded as approved rests on an audit row and a finding of  *)
(* its approval, and the recovery proposal it names has been approved:     *)
(* whatever was forgotten, prepared anew or written late in between.       *)
ApprovalsAreBacked ==
  \A p \in Proposal : tool[p] # None /\ tool[p].state = "approved_recorded" =>
    /\ audited[p] > 0 /\ p \in found
    /\ tool[p].endpoint \in Recovery => recovery[tool[p].endpoint] # "pending_approval"

(* As documented, approving a proposal is idempotent: as long as no        *)
(* session retention removes the proposal, its approval is audited once    *)
(* (approve_service_health_tool_action).                                   *)
ApprovalAuditedOnce ==
  Session = {} => \A p \in Proposal : audited[p] <= 1
=============================================================================
