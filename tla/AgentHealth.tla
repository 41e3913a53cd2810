---------------------------- MODULE AgentHealth ----------------------------
(***************************************************************************)
(* The agent and model health check (app.py): an administrator's check     *)
(* probes the local model endpoints, binds the result to the agents and    *)
(* stores it as a receipt, which is believed while it is fresh and the     *)
(* settings it carries a fingerprint of are the current ones.              *)
(***************************************************************************)
EXTENDS Naturals, FiniteSets

CONSTANTS
  Endpoint,     \* configured primary endpoints
  Secondary,    \* the endpoint of AGENTIOT_OLLAMA_SECONDARY_URL, or None
  Model,        \* model names
  Agent,        \* dashboard agents
  Check,        \* checks in progress
  None,
  Ttl,          \* MODEL_CONNECTIVITY_CHECK_TTL_SECONDS, in ticks
  ClockMax, ChangeMax   \* bounds

HealthAssumption ==
  /\ None \notin Endpoint \cup Model /\ Ttl \in Nat /\ ClockMax \in Nat /\ ChangeMax \in Nat

VARIABLES
  settings,   \* [endpoint, model, updated]: local credential and policy
  enabled,    \* the agents enabled
  latest,     \* the newest ai.agent_llm_health row, or None
  check,      \* Check -> the check in progress
  changes,    \* changes of settings so far; the updated_at of the next
  clock

vars == <<settings, enabled, latest, check, changes, clock>>

Idle == [at |-> "idle"]

(***************************************************************************)
(* What changes meanwhile: the credential, the policy, the agents.         *)
(***************************************************************************)
ChangeSettings(e, m) ==
  /\ changes < ChangeMax /\ changes' = changes + 1
  /\ settings' = [endpoint |-> e, model |-> m, updated |-> changes + 1]
  /\ UNCHANGED <<enabled, latest, check, clock>>

ChangeAgent(a) ==
  /\ changes < ChangeMax /\ changes' = changes + 1
  /\ enabled' = IF a \in enabled THEN enabled \ {a} ELSE enabled \cup {a}
  /\ UNCHANGED <<settings, latest, check, clock>>

(* agent_llm_health_configuration_fingerprint, a hash of what it names.    *)
Fingerprint_noEndpoint(model) ==
  [agents |-> enabled, settings |-> settings.model, selected |-> model]
Fingerprint(model) ==
  [agents |-> enabled, settings |-> settings, selected |-> model]

Row(state, receipt) == [state |-> state, receipt |-> receipt, at |-> clock]

(***************************************************************************)
(* run_agent_llm_health_check: the model and the endpoints are read first, *)
(* the probes follow, agents and fingerprint are read when they are done.  *)
(***************************************************************************)
Start(c) ==
  /\ check[c] = Idle
  /\ latest' = Row("started", None)
  /\ check' = [check EXCEPT ![c] = [at |-> "started"]]
  /\ UNCHANGED <<settings, enabled, changes, clock>>

ReadSettings(c) ==
  /\ check[c].at = "started"
  /\ check' = [check EXCEPT ![c] =
       [at |-> "probing", settings |-> settings, probed |-> <<>>]]
  /\ UNCHANGED <<settings, enabled, latest, changes, clock>>

Endpoints(s) == {s.endpoint, Secondary} \ {None}    \* ollama_endpoint_candidates

(* healthy: it answered; reachable: inference was not asked for; else down.*)
Probe(c, e, status) ==
  /\ check[c].at = "probing"
  /\ e \in Endpoints(check[c].settings) \ DOMAIN check[c].probed
  /\ check' = [check EXCEPT ![c].probed =
       [x \in DOMAIN @ \cup {e} |-> IF x = e THEN status ELSE @[x]]]
  /\ UNCHANGED <<settings, enabled, latest, changes, clock>>

LlmStatus(probed) ==
  LET with(S) == {e \in DOMAIN probed : probed[e] \in S} IN
    IF with({"healthy"}) = DOMAIN probed THEN "healthy"
    ELSE IF with({"healthy", "reachable"}) # {} THEN "degraded" ELSE "down"

AgentStatus(probed) ==
  [a \in Agent |-> IF a \notin enabled THEN "disabled"
                   ELSE IF LlmStatus(probed) = "down" THEN "down" ELSE "degraded"]

ReadAgents(c) ==
  /\ check[c].at = "probing"
  /\ DOMAIN check[c].probed = Endpoints(check[c].settings)
  /\ check' = [check EXCEPT ![c] =
       [at |-> "bound", settings |-> @.settings, agents |-> AgentStatus(@.probed),
        llm |-> LlmStatus(@.probed)]]
  /\ UNCHANGED <<settings, enabled, latest, changes, clock>>

Named(agents) == {a \in Agent : agents[a] # "disabled"}

Complete(c) ==
  /\ check[c].at = "bound"
  /\ latest' = Row("completed",
       [fingerprint |-> Fingerprint(check[c].settings.model), llm |-> check[c].llm,
        agents |-> check[c].agents, measured |-> check[c].settings,
        quiet |-> check[c].settings = settings /\ Named(check[c].agents) = enabled])
  /\ check' = [check EXCEPT ![c] = Idle]
  /\ UNCHANGED <<settings, enabled, changes, clock>>

(* The route records any exception and raises it again.                    *)
Fail(c) ==
  /\ check[c].at \in {"probing", "bound"}
  /\ latest' = Row("failed", None)
  /\ check' = [check EXCEPT ![c] = Idle]
  /\ UNCHANGED <<settings, enabled, changes, clock>>

(* The process restarts: checks in progress are gone, rows stay.           *)
Restart ==
  /\ \E c \in Check : check[c] # Idle
  /\ check' = [c \in Check |-> Idle]
  /\ UNCHANGED <<settings, enabled, latest, changes, clock>>

Tick ==
  /\ clock < ClockMax /\ clock' = clock + 1
  /\ UNCHANGED <<settings, enabled, latest, check, changes>>

(* latest_agent_llm_health: what a reader is told of the newest row.       *)
Evidence ==
  IF latest = None THEN "not_run"
  ELSE IF latest.state = "started" THEN "running"
  ELSE IF latest.state = "failed" THEN "failed"
  ELSE IF latest.receipt.fingerprint # Fingerprint(latest.receipt.fingerprint.selected)
    THEN "configuration_changed"
  ELSE IF clock <= latest.at + Ttl THEN "fresh" ELSE "stale"

Init ==
  /\ settings \in [endpoint : Endpoint, model : Model, updated : {0}]
  /\ enabled = Agent /\ latest = None /\ check = [c \in Check |-> Idle]
  /\ changes = 0 /\ clock = 0

Next ==
  \/ \E e \in Endpoint, m \in Model : ChangeSettings(e, m)
  \/ \E a \in Agent : ChangeAgent(a)
  \/ \E c \in Check : Start(c) \/ ReadSettings(c) \/ ReadAgents(c) \/ Complete(c) \/ Fail(c)
  \/ \E c \in Check, e \in Endpoint \cup {Secondary}, s \in {"healthy", "reachable", "down"} : Probe(c, e, s)
  \/ Restart \/ Tick

Spec == Init /\ [][Next]_vars

-----------------------------------------------------------------------------
(* Properties *)

TypeOK ==
  /\ settings \in [endpoint : Endpoint, model : Model, updated : 0..ChangeMax]
  /\ enabled \subseteq Agent /\ changes \in 0..ChangeMax
  /\ latest # None => latest.state \in {"started", "completed", "failed"} /\ latest.at \in 0..clock
  /\ \A c \in Check :
       /\ check[c].at \in {"idle", "started", "probing", "bound"}
       /\ check[c].at = "probing" => DOMAIN check[c].probed \subseteq Endpoint \cup {Secondary}

(* A receipt shown as fresh of a check nothing was changed under describes *)
(* the endpoint and model in force now, and the agents enabled now         *)
(* (latest_agent_llm_health), whatever changed and changed back since.     *)
QuietReceiptTrue ==
  Evidence = "fresh" /\ latest.receipt.quiet =>
    /\ latest.receipt.measured = settings
    /\ enabled = Named(latest.receipt.agents)
=============================================================================
