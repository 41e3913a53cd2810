------------------------------- MODULE GoLive -------------------------------
(***************************************************************************)
(* The go-live reports (app.py): production controls and owner decisions,  *)
(* which administrators may overrule, the local restore test whose         *)
(* evidence lives in the rotating audit trail, and the brief for the       *)
(* owner, which is put together from reads in transactions of their own    *)
(* while administrators write and evidence ages.                           *)
(***************************************************************************)
EXTENDS Integers, FiniteSets, Sequences

CONSTANTS
  Control, Decision,           \* registered ids of controls and decisions
  ControlState, DecisionState, \* states administrators record
  Deployment,                  \* settings the process may be started with
  SignalChoice,                \* what receipts and the broker may report
  Verifier,                    \* requests for a restore test
  Cadence, Tolerance,          \* hours of the backup cadence; clock tolerance
  Window,                      \* EDGE_READ_WINDOW_ROWS
  None,
  AuditMax, ClockMax           \* bounds: audit rows kept, hours

(* A verified restore test, and the states app.py lets administrators      *)
(* record: OWNER_DECISION_STATES has no "ready".                           *)
Verdict == [ok : BOOLEAN, at : Nat, profile : {d.profile : d \in Deployment}]
GoLiveAssumption ==
  /\ {Cadence, Tolerance, Window, AuditMax, ClockMax} \subseteq Nat
  /\ None \notin ControlState \cup DecisionState \cup Verdict
  /\ "ready" \notin DecisionState

VARIABLES
  deployment,  \* [production, hosts, token, idp, mqtt, tls, policy, profile]
  signals,     \* [offhost, connected]: off-host receipt, broker connection
  audit,       \* rows of audit_events by age
  control,     \* production_readiness_controls: recorded state or None
  decision,    \* owner_decisions: recorded state or None
  verifier,    \* per request: "idle" or the verdict on its copy
  verified,    \* the last recorded restore test: [ok, at, profile] or None
  report,      \* the brief under way
  clock

vars == <<deployment, signals, audit, control, decision, verifier, verified, report, clock>>

-----------------------------------------------------------------------------
(* backup_retention_status, latest_restore_test_evidence *)
Tests == {i \in DOMAIN audit : audit[i].type \in {"completed", "failed"}}
LatestTest_completed == {i \in Tests : audit[i].type = "completed"}
LatestTest == Tests

RestoreState ==
  IF LatestTest = {} THEN "not_recorded"
  ELSE LET row == audit[CHOOSE i \in LatestTest : \A j \in LatestTest : j <= i]
       IN CASE row.type = "failed"                -> "failed"
            [] row.profile # deployment.profile   -> "profile_mismatch"
            [] row.at > clock + Tolerance         -> "invalid_timestamp"
            [] clock - row.at > Cadence           -> "stale"
            [] OTHER                              -> "recorded"

Restored == RestoreState = "recorded" /\ signals.offhost # "missing"

BackupState ==
  CASE ~deployment.policy -> "customer_action_required"
    [] Restored           -> "ready"
    [] OTHER              -> "restore_review_required"

TlsState ==
  CASE deployment.tls = "trusted"    -> "ready"
    [] deployment.tls = "terminated" -> "review_required"
    [] OTHER                         -> "customer_action_required"

(* production_secret_free_preflight: nothing recorded overrules a check. *)
Either(ready, otherwise) == IF ready THEN "ready" ELSE otherwise
MqttRuntimeReady == ~deployment.production \/ signals.connected
Preflight ==
  [reverse_proxy_tls   |-> TlsState,
   backup_retention    |-> BackupState,
   backup_restore_test |-> Either(Restored, "review_required"),
   identity_provider   |-> Either(deployment.idp, "customer_action_required"),
   mqtt_broker         |-> Either(deployment.mqtt /\ MqttRuntimeReady, "customer_action_required")]
PreflightReady == \A c \in DOMAIN Preflight : Preflight[c] = "ready"

(* production_hardening_status *)
BaseControl(c, backup) ==
  CASE c = "runtime-mode" -> Either(deployment.production, "development_visible")
    [] c = "interactive-api-documentation" ->
         Either(deployment.production, "development_visible")
    [] c = "trusted-hosts" -> Either(deployment.hosts, "development_visible")
    [] c = "operator-write-gate" -> Either(deployment.token \/ deployment.idp, "action_required")
    [] c = "identity-provider" -> Either(deployment.idp, "customer_action_required")
    [] c = "mqtt-broker-subscriber" -> Either(deployment.mqtt, "customer_action_required")
    [] c = "reverse-proxy-tls" -> TlsState
    [] c = "backup-retention" -> backup
    [] OTHER -> "ready"

(* production_approval_package *)
BaseDecision(d, backup, feedback) ==
  CASE d = "release-baseline" -> "ready"
    [] d = "production-hardening" -> "owner_review_required"
    [] d = "backup-retention" -> backup
    [] d = "identity-provider" -> Either(deployment.idp, "customer_action_required")
    [] d = "mqtt-broker-subscriber" -> Either(deployment.mqtt, "customer_action_required")
    [] d = "customer-feedback" -> IF feedback THEN "ready_for_review" ELSE "waiting_for_feedback"
    [] d = "phase-2-closure" -> "pending_owner_signoff"
    [] OTHER -> "customer_action_required"

(* What an administrator recorded takes the place of the computed state. *)
Overruled(base, recorded) == IF recorded = None THEN base ELSE recorded

(* list_customer_feedback reads the newest rows of the trail only. *)
FeedbackSeen == \E i \in DOMAIN audit : audit[i].type = "feedback" /\ Len(audit) - i < Window

OpenControls(backup) ==
  {c \in Control : Overruled(BaseControl(c, backup), control[c]) # "ready"}
OpenDecisions(backup, feedback) ==
  {d \in Decision :
     Overruled(BaseDecision(d, backup, feedback), decision[d]) \notin {"ready", "approved"}}

-----------------------------------------------------------------------------
(* production_action_plan: what is known of an action tells its packet. *)
ControlAction(c, backup) ==
  LET state == Overruled(BaseControl(c, backup), control[c])
      runtime == {"identity-provider", "mqtt-broker-subscriber"}
      visible == state = "development_visible"
  IN [type |-> "control", id |-> c,
      category |-> CASE visible -> "development_visible"
                     [] c \in runtime \cup {"reverse-proxy-tls", "backup-retention"} ->
                          "customer_runtime_config"
                     [] OTHER -> "admin_evidence",
      secretFree |-> visible \/ c \notin runtime,
      customer |-> state \in {"customer_action_required", "owner_review_required"}]

DecisionAction(d) ==
  [type |-> "decision", id |-> d,
   category |-> IF d \in {"customer-feedback", "phase-2-closure"}
                THEN "owner_signoff" ELSE "customer_decision",
   secretFree |-> d # "ai-model-route-approval",
   customer |-> TRUE]

(* display_action_packets: packets are the actions that agree in all but   *)
(* their source and state; the owner's agent goes with the type.           *)
Key(a) == <<a.category, a.customer, a.secretFree, a.type>>
Packets(actions) == {{a \in actions : Key(a) = k} : k \in {Key(a) : a \in actions}}
Closeable(a) ==
  a.category \in {"admin_evidence", "development_visible"} /\ a.secretFree /\ ~a.customer

-----------------------------------------------------------------------------
(* What is open now, whoever reads it when. *)
Item == [type : {"control"}, id : Control] \cup [type : {"decision"}, id : Decision]
Open(i) ==
  IF i.type = "control"
  THEN IF control[i.id] = None THEN BaseControl(i.id, BackupState) # "ready"
       ELSE control[i.id] # "ready"
  ELSE IF decision[i.id] = None
       THEN BaseDecision(i.id, BackupState, FeedbackSeen) # "ready"
       ELSE decision[i.id] # "approved"

(* An item that opens or closes while the brief is made is not settled. *)
Disturb ==
  report' = IF report.at = "idle" THEN report
            ELSE [report EXCEPT !.settled = {i \in @ : Open(i)' = Open(i)}]

Idle == [at |-> "idle"]
Undisturbed == UNCHANGED <<deployment, signals, audit, control, decision, verifier, verified, clock>>

(* production_owner_decision_brief reads the plan, which reads controls    *)
(* and then decisions, and the approval package a second time.             *)
BeginBrief ==
  /\ report.at \in {"idle", "done"}
  /\ report' = [at |-> "controls", backup |-> BackupState, settled |-> Item, actions |-> {}]
  /\ Undisturbed

ReadControls ==
  /\ report.at = "controls"
  /\ report' = [report EXCEPT !.at = "feedback",
                  !.actions = {ControlAction(c, report.backup) : c \in OpenControls(report.backup)}]
  /\ Undisturbed

ReadFeedback ==
  /\ report.at \in {"feedback", "gateFeedback"}
  /\ report' = [at |-> IF report.at = "feedback" THEN "backup" ELSE "gateBackup",
                feedback |-> FeedbackSeen, settled |-> report.settled, actions |-> report.actions]
  /\ Undisturbed

ReadBackup ==
  /\ report.at \in {"backup", "gateBackup"}
  /\ report' = [at |-> IF report.at = "backup" THEN "decisions" ELSE "gateDecisions",
                feedback |-> report.feedback, backup |-> BackupState,
                settled |-> report.settled, actions |-> report.actions]
  /\ Undisturbed

ReadDecisions ==
  /\ report.at = "decisions"
  /\ report' = [at |-> "gateFeedback", settled |-> report.settled,
                actions |-> report.actions \cup
                  {DecisionAction(d) : d \in OpenDecisions(report.backup, report.feedback)}]
  /\ Undisturbed

Answer ==
  /\ report.at = "gateDecisions"
  /\ LET packets == Packets(report.actions)
     IN report' =
          [at |-> "done", settled |-> report.settled, packets |-> packets,
           status |-> IF packets = {} THEN "ready" ELSE "action_required",
           gate |-> IF OpenDecisions(report.backup, report.feedback) = {}
                    THEN "phase_3_final_acceptance" ELSE "production_owner_signoff",
           closeable |-> {a \in report.actions : Closeable(a)}]
  /\ Undisturbed

-----------------------------------------------------------------------------
(* The row of an audited write is a transaction of its own and may fail. *)
Row(type) == [type |-> type]
Audited(row) == audit' = Append(audit, row)
MayAudit(row) == Audited(row) \/ UNCHANGED audit

UpdateControl(c, s) ==
  /\ Len(audit) < AuditMax
  /\ control' = [control EXCEPT ![c] = s]
  /\ MayAudit(Row("other"))
  /\ UNCHANGED <<deployment, signals, decision, verifier, verified, clock>>
  /\ Disturb

UpdateDecision(d, s) ==
  /\ Len(audit) < AuditMax
  /\ decision' = [decision EXCEPT ![d] = s]
  /\ MayAudit(Row("other"))
  /\ UNCHANGED <<deployment, signals, control, verifier, verified, clock>>
  /\ Disturb

AddFeedback ==
  /\ Len(audit) < AuditMax
  /\ Audited(Row("feedback"))
  /\ UNCHANGED <<deployment, signals, control, decision, verifier, verified, clock>>
  /\ Disturb

(* run_restore_verification: the copy is made and checked, and the verdict *)
(* recorded later.                                                         *)
CopyDatabase(v) ==
  /\ verifier[v] = "idle"
  /\ \E verdict \in {"completed", "failed"} : verifier' = [verifier EXCEPT ![v] = verdict]
  /\ UNCHANGED <<deployment, signals, audit, control, decision, verified, report, clock>>

RecordTest(v) ==
  /\ verifier[v] # "idle"
  /\ Len(audit) < AuditMax
  /\ Audited(IF verifier[v] = "failed" THEN Row("failed")
             ELSE [type |-> "completed", at |-> clock, profile |-> deployment.profile])
  /\ verified' = [ok |-> verifier[v] = "completed", at |-> clock, profile |-> deployment.profile]
  /\ verifier' = [verifier EXCEPT ![v] = "idle"]
  /\ UNCHANGED <<deployment, signals, control, decision, clock>>
  /\ Disturb

(* The oldest row is rotated out, or a demo reset clears the trail. *)
Rotate ==
  /\ audit # <<>>
  /\ audit' = Tail(audit)
  /\ UNCHANGED <<deployment, signals, control, decision, verifier, verified, clock>>
  /\ Disturb

DemoReset ==
  /\ audit' = <<>>
  /\ UNCHANGED <<deployment, signals, control, decision, verifier, verified, clock>>
  /\ Disturb

(* The broker, the verifier of the mounted backup and the deployment. *)
Signal ==
  /\ signals' \in SignalChoice
  /\ UNCHANGED <<deployment, audit, control, decision, verifier, verified, clock>>
  /\ Disturb

Restart ==
  /\ deployment' \in Deployment
  /\ verifier' = [v \in Verifier |-> "idle"]
  /\ report' = Idle
  /\ UNCHANGED <<signals, audit, control, decision, verified, clock>>

Tick ==
  /\ clock < ClockMax
  /\ clock' = clock + 1
  /\ UNCHANGED <<deployment, signals, audit, control, decision, verifier, verified>>
  /\ Disturb

Init ==
  /\ deployment \in Deployment
  /\ signals \in SignalChoice
  /\ audit = <<>>
  /\ control = [c \in Control |-> None]
  /\ decision = [d \in Decision |-> None]
  /\ verifier = [v \in Verifier |-> "idle"]
  /\ verified = None
  /\ report = Idle
  /\ clock = 0

Next ==
  \/ BeginBrief \/ ReadControls \/ ReadFeedback \/ ReadBackup \/ ReadDecisions \/ Answer
  \/ \E c \in Control, s \in ControlState : UpdateControl(c, s)
  \/ \E d \in Decision, s \in DecisionState : UpdateDecision(d, s)
  \/ AddFeedback
  \/ \E v \in Verifier : CopyDatabase(v) \/ RecordTest(v)
  \/ Rotate \/ DemoReset \/ Signal \/ Restart \/ Tick

Spec == Init /\ [][Next]_vars

-----------------------------------------------------------------------------
(* Properties *)

TypeOK ==
  /\ deployment \in Deployment
  /\ control \in [Control -> ControlState \cup {None}]
  /\ decision \in [Decision -> DecisionState \cup {None}]
  /\ verifier \in [Verifier -> {"idle", "completed", "failed"}]
  /\ verified \in Verdict \cup {None}
  /\ report.at \in {"idle", "controls", "feedback", "backup", "decisions",
                    "gateFeedback", "gateBackup", "gateDecisions", "done"}

(* A brief asks about every item that was open all the time it was made,   *)
(* and about none that was closed all the time; and if no decision moved,  *)
(* it names the final gate just when none was open                         *)
(* (production_owner_decision_brief).                                      *)
Asked == {[type |-> a.type, id |-> a.id] : a \in UNION report.packets}
SettledDecisions == \A d \in Decision : [type |-> "decision", id |-> d] \in report.settled
BriefIsTrue ==
  report.at = "done" =>
    /\ \A i \in report.settled : i \in Asked <=> Open(i)
    /\ SettledDecisions =>
         (report.gate = "phase_3_final_acceptance" <=>
            \A d \in Decision : ~Open([type |-> "decision", id |-> d]))

(* The backup counts as ready only while the last restore test that was    *)
(* recorded succeeded, within the cadence and on this table profile        *)
(* (backup_retention_status); rotation and resets can only take it away.   *)
ReadyMeansRestored ==
  BackupState = "ready" =>
    /\ verified # None /\ verified.ok
    /\ verified.profile = deployment.profile
    /\ clock - verified.at <= Cadence

(* A ready preflight leaves none of the controls it stands for open, and   *)
(* lets somebody write (production_secret_free_preflight).                 *)
PreflightImpliesControls ==
  PreflightReady =>
    \A c \in {"reverse-proxy-tls", "backup-retention", "identity-provider",
              "mqtt-broker-subscriber", "operator-write-gate"} :
      BaseControl(c, BackupState) = "ready"

GoLiveSound == BriefIsTrue /\ ReadyMeansRestored /\ PreflightImpliesControls
=============================================================================
