--------------------------- MODULE AccessControl ---------------------------
(***************************************************************************)
(* Authorization of a request (app.py): bearer subjects hold what their    *)
(* assignment and the policy of its role both grant, each of them read on  *)
(* a connection of its own.                                                *)
(***************************************************************************)
EXTENDS Naturals, FiniteSets

CONSTANTS
  Role,           \* role names; those of ACCESS_ROLES have default scopes
  Scope,
  DefaultScopes,  \* ACCESS_ROLES: Role -> scopes, {} for a role not built in
  Request,        \* requests carrying a bearer token
  Admin,          \* administrators updating assignments
  None,
  AssignChoice,   \* bound: scopes and states administrators assign
  PolicyChoice    \* bound: scopes administrators give a role

AccessAssumption ==
  /\ DefaultScopes \in [Role -> SUBSET Scope]
  /\ PolicyChoice \subseteq SUBSET Scope \ {{}}
  /\ AssignChoice \subseteq
       [role : Role, scopes : SUBSET Scope, status : {"active", "disabled", "review_required"}]

Key == {"subject", "reference"}    \* of one subject: its id and its public_subject_ref

VARIABLES
  override,     \* access_role_policies: Role -> scopes, or None
  assignment,   \* access_user_assignments: Key -> [role, scopes, status], or None
  update,       \* Admin -> the assignment being written
  request,      \* Request -> the authorization in progress
  seen          \* Request -> history: what was assigned and permitted meanwhile

vars == <<override, assignment, update, request, seen>>

Idle == [at |-> "idle"]

(* list_access_role_policies: an administrator's policy replaces the       *)
(* built-in one; a role that is neither has no policy.                     *)
PolicyOf(ov, r) == IF ov[r] # None THEN ov[r] ELSE DefaultScopes[r]
Defined(r) == override[r] # None \/ DefaultScopes[r] # {}

(* get_access_user_assignment tries the subject, then its reference: the   *)
(* row under the subject decides, whatever the other one says.             *)
Assigned(as) == IF as["subject"] # None THEN as["subject"] ELSE as["reference"]

Permits(ov) == {rs \in Role \X Scope : rs[2] \in PolicyOf(ov, rs[1])}
Grants(as) == {rs \in Role \X Scope :
                 \E k \in Key : as[k] # None /\ as[k].status = "active"
                                /\ as[k].role = rs[1] /\ rs[2] \in as[k].scopes}
Observe(ov, as) ==
  seen' = [q \in Request |-> [permitted |-> seen[q].permitted \cup Permits(ov),
                              assigned |-> seen[q].assigned \cup Grants(as)]]

(***************************************************************************)
(* Administration.                                                         *)
(***************************************************************************)
UpdateRole(r, scopes) ==
  /\ override' = [override EXCEPT ![r] = scopes]
  /\ Observe(override', assignment)
  /\ UNCHANGED <<assignment, update, request>>

(* No scope named means those the role has when the request looks.         *)
BeginAssign(a, k, new) ==
  /\ update[a] = Idle /\ Defined(new.role)
  /\ update' = [update EXCEPT ![a] =
       [at |-> "writing", key |-> k,
        row |-> [new EXCEPT !.scopes = IF @ = {} THEN PolicyOf(override, new.role) ELSE @]]]
  /\ UNCHANGED <<override, assignment, request, seen>>

Assign(a) ==
  /\ update[a] # Idle
  /\ assignment' = [assignment EXCEPT ![update[a].key] = update[a].row]
  /\ update' = [update EXCEPT ![a] = Idle]
  /\ Observe(override, assignment')
  /\ UNCHANGED <<override, request>>

(***************************************************************************)
(* enforce_bearer_authorization: the assignment, then the role's policy.   *)
(***************************************************************************)
Begin(q) ==
  /\ request[q].at \in {"idle", "denied", "granted"}
  /\ request' = [request EXCEPT ![q] = [at |-> "validated"]]
  /\ seen' = [seen EXCEPT ![q] = [permitted |-> Permits(override), assigned |-> Grants(assignment)]]
  /\ UNCHANGED <<override, assignment, update>>

ReadAssignment(q) ==
  /\ request[q].at = "validated"
  /\ request' = [request EXCEPT ![q] =
       IF Assigned(assignment) = None THEN [at |-> "denied"]
       ELSE IF Assigned(assignment).status # "active" THEN [at |-> "denied"]
       ELSE [at |-> "assigned", row |-> Assigned(assignment)]]
  /\ UNCHANGED <<override, assignment, update, seen>>

Effective_assigned(row) == row.scopes
Effective(row) == row.scopes \cap PolicyOf(override, row.role)

ReadPolicy(q) ==
  /\ request[q].at = "assigned"
  /\ request' = [request EXCEPT ![q] =
       [at |-> "granted", role |-> request[q].row.role, scopes |-> Effective(request[q].row)]]
  /\ UNCHANGED <<override, assignment, update, seen>>

Init ==
  /\ override = [r \in Role |-> None] /\ assignment = [k \in Key |-> None]
  /\ update = [a \in Admin |-> Idle] /\ request = [q \in Request |-> Idle]
  /\ seen = [q \in Request |-> [permitted |-> {}, assigned |-> {}]]


Next ==
  \/ \E r \in Role, scopes \in PolicyChoice : UpdateRole(r, scopes)
  \/ \E a \in Admin, k \in Key, new \in AssignChoice : BeginAssign(a, k, new)
  \/ \E a \in Admin : Assign(a)
  \/ \E q \in Request : Begin(q) \/ ReadAssignment(q) \/ ReadPolicy(q)

Spec == Init /\ [][Next]_vars

-----------------------------------------------------------------------------
(* Properties *)

TypeOK ==
  /\ override \in [Role -> PolicyChoice \cup {None}]
  /\ \A k \in Key : assignment[k] # None =>
       assignment[k] \in [role : Role, scopes : SUBSET Scope,
                          status : {"active", "disabled", "review_required"}]
  /\ \A q \in Request : request[q].at \in {"idle", "validated", "assigned", "denied", "granted"}

(* A scope a request is granted was assigned to its subject, and permitted *)
(* to that role, at some moment while the request ran                      *)
(* (enforce_bearer_authorization): a narrowed policy binds the next one.   *)
GrantedByBoth ==
  \A q \in Request : request[q].at = "granted" =>
    \A s \in request[q].scopes :
      <<request[q].role, s>> \in seen[q].permitted \cap seen[q].assigned
=============================================================================
