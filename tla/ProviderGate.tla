---------------------------- MODULE ProviderGate ----------------------------
(***************************************************************************)
(* The gates in front of a model provider (app.py): the administrator's    *)
(* provider policy and credentials, the connectivity test whose audit row  *)
(* opens the chat gate, and chats, which call the provider only behind it. *)
(***************************************************************************)
EXTENDS Naturals

CONSTANTS
  Provider,       \* AI_MODEL_PROVIDERS
  Cloud,          \* those that need a credential: all but the local runtime
  Model,          \* model names
  Chat,           \* chat requests of authenticated operators
  Test,           \* connectivity tests of administrators
  PolicyChoice,   \* bound: the policies administrators set
  None,           \* "not_configured", no row
  Ttl,            \* MODEL_CONNECTIVITY_CHECK_TTL_SECONDS, in ticks
  ClockMax        \* bound

Fallback == "grounded_fallback"
Policy == [provider: Provider \cup {Fallback}, model: Model \cup {None}, enabled: BOOLEAN]

ProviderAssumption ==
  /\ Cloud \subseteq Provider /\ PolicyChoice \subseteq Policy /\ None \notin Model \cup Provider
  /\ Fallback \notin Provider
  /\ Ttl \in Nat /\ ClockMax \in Nat


VARIABLES
  policy,        \* ai_provider_policies
  credential,    \* providers with usable secret material
  checks,        \* provider -> the latest ai.model_connection_test row
  usages,        \* request -> its rows of ai_token_usage_events
  test,          \* Test -> the test in progress
  chat,          \* Chat -> the chat in progress
  clock,
  verified       \* history: the providers and models a test has completed for

vars == <<policy, credential, checks, usages, test, chat, clock, verified>>

Default == [provider |-> Fallback, model |-> None, enabled |-> FALSE]
Idle == [at |-> "idle"]

(***************************************************************************)
(* Policy and credentials.  update_model_credential replaces the whole row,*)
(* so the new one may hold less than the old.                              *)
(***************************************************************************)
UpdatePolicy(p) ==
  /\ policy' = p
  /\ UNCHANGED <<credential, checks, usages, test, chat, clock, verified>>

UpdateCredential(p, usable) ==
  /\ credential' = IF usable THEN credential \cup {p} ELSE credential \ {p}
  /\ UNCHANGED <<policy, checks, usages, test, chat, clock, verified>>

(* model_runtime_allowed; the environment allows calls.                    *)
RuntimeAllowed(p) ==
  /\ p.provider \in Provider /\ p.model # None /\ p.enabled
  /\ p.provider \in Cloud => p.provider \in credential

(***************************************************************************)
(* ai_model_connection_test: the policy is read once, the blocked answer is*)
(* one row, an open one calls the provider and records usage, then the row.*)
(***************************************************************************)
Row(status, p, usage) ==
  [status |-> status, model |-> p.model, usage |-> usage, at |-> clock]

TestBlocked(t, p) ==
  /\ test[t] = Idle
  /\ policy.provider # p \/ ~RuntimeAllowed(policy)
  /\ checks' = [checks EXCEPT ![p] = Row("blocked", policy, FALSE)]
  /\ UNCHANGED <<policy, credential, usages, test, chat, clock, verified>>

BeginTest(t) ==
  /\ test[t] = Idle /\ RuntimeAllowed(policy)
  /\ test' = [test EXCEPT ![t] = [at |-> "calling", policy |-> policy]]
  /\ UNCHANGED <<policy, credential, checks, usages, chat, clock, verified>>

(* invoke_model_provider reads the secret again; a failed call has usage   *)
(* too, an error outside its except clause ends the request with nothing.  *)
Outcome(p) == {"failed", "raised"} \cup
              IF p.provider \in Cloud \ credential THEN {} ELSE {"completed"}

TestCalled(t, outcome) ==
  /\ test[t].at = "calling" /\ outcome \in Outcome(test[t].policy)
  /\ IF outcome = "raised" THEN test' = [test EXCEPT ![t] = Idle]
     ELSE test' = [test EXCEPT ![t] = [@ EXCEPT !.at = outcome]]
  /\ UNCHANGED <<policy, credential, checks, usages, chat, clock, verified>>

TestRecorded(t) ==
  /\ test[t].at \in {"completed", "failed"}
  /\ LET p == test[t].policy IN
       /\ checks' = [checks EXCEPT ![p.provider] = Row(test[t].at, p, TRUE)]
       /\ verified' = IF test[t].at = "completed"
                        THEN verified \cup {<<p.provider, p.model>>} ELSE verified
  /\ test' = [test EXCEPT ![t] = Idle]
  /\ UNCHANGED <<policy, credential, usages, chat, clock>>

(* The audit log's retention removes the rows of the check.                *)
CheckForgotten(p) ==
  /\ checks' = [checks EXCEPT ![p] = None]
  /\ UNCHANGED <<policy, credential, usages, test, chat, clock, verified>>

(***************************************************************************)
(* grounded_diagnosis: ai_routing_status reads the policy and computes the *)
(* gate, then the policy is read again, and it is the second one a call    *)
(* uses.                                                                   *)
(***************************************************************************)
GateReady_anyModel(p) ==
  LET check == checks[p.provider] IN
    /\ p.provider \in Provider /\ p.model # None /\ RuntimeAllowed(p)
    /\ check # None
    /\ check.status = "completed" /\ clock <= check.at + Ttl /\ check.usage

GateReady(p) ==        \* provider_chat_gate
  LET check == checks[p.provider] IN
    /\ p.provider \in Provider /\ p.model # None /\ RuntimeAllowed(p)
    /\ check # None
    /\ check.status = "completed" /\ clock <= check.at + Ttl
    /\ check.model = p.model /\ check.usage

Route(c) ==
  /\ chat[c].at = "idle"
  /\ chat' = [chat EXCEPT ![c] = [at |-> "routed", ready |-> GateReady(policy), routed |-> policy]]
  /\ UNCHANGED <<policy, credential, checks, usages, test, clock, verified>>

(* No runtime record to ground on, or the gate is shut: no call.           *)
Decide(c) ==
  /\ chat[c].at = "routed"
  /\ \E grounded \in BOOLEAN :
       chat' = [chat EXCEPT ![c] =
         [at |-> IF grounded /\ chat[c].ready /\ RuntimeAllowed(policy) THEN "calling" ELSE "skipped",
          ready |-> chat[c].ready, routed |-> chat[c].routed, called |-> policy]]
  /\ UNCHANGED <<policy, credential, checks, usages, test, clock, verified>>

(* add_model_token_usage follows the call; a failed call falls through to  *)
(* the fallback answer.                                                    *)
Called(c, outcome) ==
  /\ chat[c].at = "calling" /\ outcome \in Outcome(chat[c].called)
  /\ chat' = [chat EXCEPT ![c].at = CASE outcome = "completed" -> "answered"
                                       [] outcome = "failed" -> "fell_back"
                                       [] OTHER -> "error"]
  /\ usages' = [usages EXCEPT ![c] = IF outcome = "raised" THEN @ ELSE @ + 1]
  /\ UNCHANGED <<policy, credential, checks, test, clock, verified>>

NoProvider(c) ==
  chat[c].at \in {"skipped", "fell_back"} /\ chat[c].called.provider = Fallback

(* build_chat_response: an answer without a provider counts as local use.  *)
Finish(c) ==
  /\ chat[c].at \in {"skipped", "answered", "fell_back"}
  /\ usages' = [usages EXCEPT ![c] = IF NoProvider(c) THEN @ + 1 ELSE @]
  /\ chat' = [chat EXCEPT ![c] =
       [at |-> "done", ready |-> chat[c].ready, routed |-> chat[c].routed,
        called |-> chat[c].called, was |-> chat[c].at]]
  /\ UNCHANGED <<policy, credential, checks, test, clock, verified>>

Tick ==
  /\ clock < ClockMax /\ clock' = clock + 1
  /\ UNCHANGED <<policy, credential, checks, usages, test, chat, verified>>

Init ==
  /\ policy = Default /\ credential = {}
  /\ checks = [p \in Provider |-> None]
  /\ usages = [c \in Chat |-> 0]
  /\ test = [t \in Test |-> Idle] /\ chat = [c \in Chat |-> Idle]
  /\ clock = 0 /\ verified = {}

Next ==
  \/ \E p \in PolicyChoice : UpdatePolicy(p)
  \/ \E p \in Cloud, usable \in BOOLEAN : UpdateCredential(p, usable)
  \/ \E p \in Provider : CheckForgotten(p)
  \/ \E t \in Test, p \in Provider : TestBlocked(t, p)
  \/ \E t \in Test : BeginTest(t) \/ TestRecorded(t)
  \/ \E t \in Test, o \in {"completed", "failed", "raised"} : TestCalled(t, o)
  \/ \E c \in Chat : Route(c) \/ Decide(c) \/ Finish(c)
  \/ \E c \in Chat, o \in {"completed", "failed", "raised"} : Called(c, o)
  \/ Tick

Spec == Init /\ [][Next]_vars

-----------------------------------------------------------------------------
(* Properties *)

TypeOK ==
  /\ policy \in Policy /\ credential \subseteq Cloud
  /\ \A p \in Provider : checks[p] # None =>
       /\ checks[p].status \in {"blocked", "completed", "failed"}
       /\ checks[p].model \in Model \cup {None} /\ checks[p].at \in 0..clock
  /\ usages \in [Chat -> 0..2]
  /\ \A t \in Test : test[t].at \in {"idle", "calling", "completed", "failed"}
  /\ \A c \in Chat : chat[c].at \in
       {"idle", "routed", "calling", "skipped", "answered", "fell_back", "error", "done"}
  /\ verified \subseteq Provider \X Model /\ clock \in 0..ClockMax

(* A gate found open was opened by a completed test of the very provider   *)
(* and model of the policy it was computed for (provider_chat_gate),       *)
(* whatever tests and policy changes ran side by side.                     *)
ReadyMeansVerified ==
  \A c \in Chat : chat[c].at # "idle" /\ chat[c].ready =>
    <<chat[c].routed.provider, chat[c].routed.model>> \in verified

(* A finished chat has one usage record if it called a provider or if none *)
(* is chosen, and no record otherwise: never two (build_chat_response).    *)
ChatAccounting ==
  \A c \in Chat : chat[c].at = "done" =>
    usages[c] = IF chat[c].was # "skipped" \/ chat[c].called.provider = Fallback THEN 1 ELSE 0

GateSound == ReadyMeansVerified /\ ChatAccounting

(* "Provider chat remains blocked when connectivity evidence is missing,   *)
(* failed, model-mismatched" (CHANGELOG.md): what a chat calls has been    *)
(* tested.  Expected to be violated.                                       *)
CallsWereChecked ==
  \A c \in Chat : chat[c].at = "calling" =>
    <<chat[c].called.provider, chat[c].called.model>> \in verified
=============================================================================
