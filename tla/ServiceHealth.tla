---------------------------- MODULE ServiceHealth ----------------------------
(***************************************************************************)
(* Health checks of the product's own HTTP services and their escalation   *)
(* (app.py, service_operations.py).  A check reads all failure counts      *)
(* once, then probes the services in the fixed order of their contracts    *)
(* and stores each result with the count it read plus one; an escalation   *)
(* then prepares a proposal of fixed id for every service that fails often *)
(* enough.  Checks of the background loop and of operators overlap.        *)
(***************************************************************************)
EXTENDS Integers, FiniteSets

CONSTANTS
  ServiceCount,   \* HTTP_SERVICE_CONTRACTS, probed in the order 1..ServiceCount
  Loop,           \* background loops, one per server process
  Request,        \* operator requests that check the services
  Threshold,      \* values of failure_threshold
  CountMax,       \* failure counts saturate here, above every threshold
  FaultMax        \* bound: checks that raise or die in a behaviour

Service == 1..ServiceCount
Runner == Loop \cup Request

HealthAssumption ==
  /\ ServiceCount \in Nat \ {0} /\ CountMax \in Nat /\ FaultMax \in Nat
  /\ Threshold \subseteq 1..CountMax /\ Threshold # {}
  /\ Loop \cap Request = {}

VARIABLES
  answering,   \* services a probe finds healthy at this moment
  health,      \* http_service_health: status and consecutive failures
  settings,    \* service_operations_settings
  review,      \* the assistant proposal "service-health-<id>"
  check,       \* what each runner is doing
  faults       \* checks lost so far

vars == <<answering, health, settings, review, check, faults>>

Idle == [at |-> "idle"]
Review == {"none", "awaiting", "approved", "foreign"}

Goto(r, state) == check' = [check EXCEPT ![r] = state]

-----------------------------------------------------------------------------
(* run_http_service_checks *)

Counts == [s \in Service |-> health[s].failures]

Begin(r, escalation, minimum) ==
  /\ check[r] = Idle
  /\ Goto(r, [at |-> "probe", service |-> 1, prior |-> Counts,
              escalation |-> escalation, minimum |-> minimum])
  /\ UNCHANGED <<answering, health, settings, review, faults>>

(* service_operations_loop reads the threshold before it checks; solve-    *)
(* issues escalates every failure, auto-heal reads the threshold after the *)
(* check, and self-check, the control actions and auto-guard do not        *)
(* escalate.                                                               *)
BeginLoop(r) == settings.enabled /\ Begin(r, "loop", settings.threshold)
BeginRequest(r) ==
  \E escalation \in {"none", "solve", "auto-heal"} : Begin(r, escalation, 1)

Probe(r) ==
  /\ check[r].at = "probe"
  /\ Goto(r, [at |-> "store", service |-> check[r].service, prior |-> check[r].prior,
              escalation |-> check[r].escalation, minimum |-> check[r].minimum,
              healthy |-> check[r].service \in answering])
  /\ UNCHANGED <<answering, health, settings, review, faults>>

NextCount_keep(prior, healthy) == IF prior < CountMax THEN prior + 1 ELSE CountMax
(* normalize_probe_result *)
NextCount(prior, healthy) ==
  IF healthy THEN 0 ELSE IF prior < CountMax THEN prior + 1 ELSE CountMax

Store(r) ==
  LET c == check[r]
      s == c.service
  IN /\ c.at = "store"
     /\ health' = [health EXCEPT ![s] =
          [status |-> IF c.healthy THEN "healthy" ELSE "down",
           failures |-> NextCount(c.prior[s], c.healthy)]]
     /\ Goto(r, IF s < ServiceCount
                THEN [at |-> "probe", service |-> s + 1, prior |-> c.prior,
                      escalation |-> c.escalation, minimum |-> c.minimum]
                ELSE [at |-> "inventory", escalation |-> c.escalation, minimum |-> c.minimum])
     /\ UNCHANGED <<answering, settings, review, faults>>

-----------------------------------------------------------------------------
(* prepare_http_service_issue_proposals *)

Minimum(c) == IF c.escalation = "auto-heal" THEN settings.threshold ELSE c.minimum

Unresolved(minimum) ==
  {s \in Service : health[s].status # "healthy" /\ health[s].failures >= minimum}

(* The inventory is read again, whatever other checks have stored.         *)
Inventory(r) ==
  /\ check[r].at = "inventory"
  /\ Goto(r, IF check[r].escalation = "none" THEN Idle
             ELSE [at |-> "prepare", pending |-> Unresolved(Minimum(check[r]))])
  /\ UNCHANGED <<answering, health, settings, review, faults>>

(* An existing proposal of this action is replayed; one that is bound to   *)
(* another action raises, which ends the run before the later services.    *)
Prepare(r) ==
  /\ check[r].at = "prepare"
  /\ IF check[r].pending = {}
     THEN Goto(r, Idle) /\ UNCHANGED review
     ELSE LET s == CHOOSE x \in check[r].pending : \A y \in check[r].pending : x <= y
          IN IF review[s] = "foreign"
             THEN Goto(r, Idle) /\ UNCHANGED review
             ELSE /\ review' = [review EXCEPT ![s] = IF @ = "none" THEN "awaiting" ELSE @]
                  /\ Goto(r, [check[r] EXCEPT !.pending = @ \ {s}])
  /\ UNCHANGED <<answering, health, settings, faults>>

(* A check raises or its process dies. *)
Fault(r) ==
  /\ check[r] # Idle /\ faults < FaultMax
  /\ faults' = faults + 1
  /\ Goto(r, Idle)
  /\ UNCHANGED <<answering, health, settings, review>>

-----------------------------------------------------------------------------
(* The rest of the system *)

ServiceChanges(s) ==
  /\ answering' = IF s \in answering THEN answering \ {s} ELSE answering \cup {s}
  /\ UNCHANGED <<health, settings, review, check, faults>>

(* update_service_operations_settings *)
Configure(enabled, threshold) ==
  /\ settings' = [enabled |-> enabled, threshold |-> threshold]
  /\ UNCHANGED <<answering, health, review, check, faults>>

(* approve_service_health_tool_action; ToolProposals has its steps. *)
Approve(s) ==
  /\ review[s] = "awaiting"
  /\ review' = [review EXCEPT ![s] = "approved"]
  /\ UNCHANGED <<answering, health, settings, check, faults>>

(* An operator prepares another action under the id of a service review.   *)
Occupy(s) ==
  /\ review[s] = "none"
  /\ review' = [review EXCEPT ![s] = "foreign"]
  /\ UNCHANGED <<answering, health, settings, check, faults>>

-----------------------------------------------------------------------------
Init ==
  /\ answering \in SUBSET Service
  /\ health = [s \in Service |-> [status |-> "not_checked", failures |-> 0]]
  /\ settings \in [enabled : BOOLEAN, threshold : Threshold]
  /\ review = [s \in Service |-> "none"]
  /\ check = [r \in Runner |-> Idle]
  /\ faults = 0

Advance(r) == Probe(r) \/ Store(r) \/ Inventory(r) \/ Prepare(r)

Next ==
  \/ \E r \in Loop : BeginLoop(r)
  \/ \E r \in Request : BeginRequest(r)
  \/ \E r \in Runner : Advance(r) \/ Fault(r)
  \/ \E s \in Service : ServiceChanges(s) \/ Approve(s) \/ Occupy(s)
  \/ \E enabled \in BOOLEAN, t \in Threshold : Configure(enabled, t)

(* The loop wakes up again and again, and a check that runs goes on: each  *)
(* probe has a timeout.                                                    *)
Fairness ==
  /\ \A r \in Loop : WF_vars(BeginLoop(r))
  /\ \A r \in Runner : WF_vars(Advance(r))
Spec == Init /\ [][Next]_vars /\ Fairness

-----------------------------------------------------------------------------
(* Properties *)

TypeOK ==
  /\ answering \subseteq Service
  /\ health \in [Service -> [status : {"not_checked", "healthy", "down"}, failures : 0..CountMax]]
  /\ settings \in [enabled : BOOLEAN, threshold : Threshold]
  /\ review \in [Service -> Review]
  /\ faults \in 0..FaultMax

(* "escalate persistent failures" (service_operations_loop): a service     *)
(* that stays down while automatic checks stay enabled gets a review,      *)
(* although overlapping checks overwrite each other's failure counts;      *)
(* unless the id of its review, or of an earlier service, is taken.        *)
PersistentFailureEscalates ==
  \A s \in Service :
    <>[](s \notin answering /\ settings.enabled)
      => <>(review[s] # "none" \/ \E t \in 1..s : review[t] = "foreign")

(* A service that stays healthy while automatic checks stay enabled is at  *)
(* some time shown healthy and stays so, although a failure found earlier  *)
(* may be stored over the healthy result.                                  *)
RecoverySettles ==
  \A s \in Service :
    <>[](s \in answering /\ settings.enabled)
      => <>[](health[s] = [status |-> "healthy", failures |-> 0])

ChecksConverge == PersistentFailureEscalates /\ RecoverySettles

(* "... prepares approval-required proposals for persistent failures"      *)
(* (CHANGELOG.md): an outage after a recovery has at some time a review    *)
(* that waits for a person.  Expected to be violated: the review approved  *)
(* for an earlier outage is replayed, and never opened again.              *)
EveryOutageIsReviewed ==
  \A s \in Service :
    [](\A t \in Service : review[t] # "foreign")
      => [](health[s].status = "healthy"
              => (<>[](s \notin answering /\ settings.enabled) => <>(review[s] = "awaiting")))
=============================================================================
