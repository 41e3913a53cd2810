------------------------------- MODULE Platform -------------------------------
(* The components whose properties are proved for all values of their      *)
(* constants and checked together on one small instance.  They share no    *)
(* variable, so `active` names the component of a behaviour; its variables *)
(* are held in the places v1, v2, ..., under their own names, and the      *)
(* places it does not need hold None.  A constant that several modules     *)
(* name alike and that must differ is named for its component here.        *)
EXTENDS Integers, FiniteSets, Sequences

CONSTANTS
  Active,        \* the components of a run
  None,
  Candidate, Approver, RegistrationMax,                                \* HardwareApproval
  ReadinessProbe, Nonce, OffhostReceipt, NoEntry, Life, ClockMax,
  StampMax, CacheMax,                                                  \* OffhostReceipts
  Role, Scope, DefaultScopes, Request, Administrator, AssignChoice,
  RoleChoice,                                                          \* AccessControl
  Provider, Cloud, Model, Chat, Test, PolicyChoice, Ttl,               \* ProviderGate
  Device, MessageMax,                                                  \* MqttAdapter
  Network, Port, MaxHosts, Concurrency,                                \* NetworkScan
  Worker, PasswordKey, TokenKey, PasswordLimit, TokenLimit,
  PasswordWindow, TokenWindow, KeyMax, LockWait,                       \* AuthLimiter
  MaxBytes, ChunkMax, ChunkCount,                                      \* BodyLimit
  Endpoint, Secondary, HealthModel, HealthAgent, HealthCheck,
  ChangeMax,                                                           \* AgentHealth
  Field, Text, Editor, VersionMax,                                     \* PromptVersions
  Operator, Lane, HealthChoice, Version, FailScore, WorkMax,           \* ReleaseMission
  Control, Decision, ControlState, DecisionState, Deployment,
  SignalChoice, Verifier, Cadence, Tolerance, ReadWindow, AuditMax,    \* GoLive
  Interaction, ChatSession, MemoryChoice, ProposalMax, HoursMax,       \* AssistantMemory
  Asset, Profile, NamedProfile, Firmware, Rows, Patches, Offers, Runs,
  MaxWrites,                                                           \* Inventory
  Agents, Coordinator, Objective, CycleMax, MissionMax                 \* AgenticControl

VARIABLES active, v1, v2, v3, v4, v5, v6, v7, v8, v9, v10
all == <<active, v1, v2, v3, v4, v5, v6, v7, v8, v9, v10>>

production == v1
status == v2
written == v3
registered == v4
reposted == v5
lost == v6
req == v7
Approval == INSTANCE HardwareApproval WITH Worker <- Approver

clock == v1
receipt == v2
liveness == v3
issued == v4
object == v5
cache == v6
ledger == v7
lock == v8
probe == v9
consumed == v10
Offhost == INSTANCE OffhostReceipts WITH Probe <- ReadinessProbe, Receipt <- OffhostReceipt

override == v1
request == v2
assignment == v3
update == v4
seen == v5
Access == INSTANCE AccessControl WITH Admin <- Administrator, PolicyChoice <- RoleChoice

policy == v2
credential == v3
checks == v4
usages == v5
test == v6
chat == v7
verified == v8
Gate == INSTANCE ProviderGate

config == v1
adapter == v2
call == v3
session == v4
subscribed == v5
devices == v6
stored == v7
Mqtt == INSTANCE MqttAdapter

open == v1
task == v3
receipts == v4
queued == v5
Scan == INSTANCE NetworkScan WITH Scope <- Network

bucket == v1
failed == v3
Limiter == INSTANCE AuthLimiter

scope == v1
sent == v2
ended == v3
taken == v4
stage == v5
body == v6
received == v7
response == v8
Body == INSTANCE BodyLimit

settings == v2
enabled == v3
latest == v4
check == v5
changes == v6
Health == INSTANCE AgentHealth
  WITH Model <- HealthModel, Agent <- HealthAgent, Check <- HealthCheck

kind == v1
content == v2
history == v3
edit == v4
dropped == v5
Prompts == INSTANCE PromptVersions WITH Admin <- Editor

version == v1
health == v2
suites == v3
agentRuns == v4
findings == v5
work == v6
started == v7
Release == INSTANCE ReleaseMission WITH ledger <- suites

deployment == v2
signals == v3
audit == v4
control == v5
decision == v6
verifier == v7
report == v9
Reports == INSTANCE GoLive WITH Window <- ReadWindow

interactions == v3
feedback == v4
proposals == v5
rating == v6
Memory == INSTANCE AssistantMemory
  WITH Session <- ChatSession, Operator <- Administrator, PolicyChoice <- MemoryChoice,
       ClockMax <- HoursMax

Stock == INSTANCE Inventory
  WITH Named <- NamedProfile, assets <- v1, devices <- v2, profiles <- v3, evidence <- v4,
       measured <- v5, work <- v6, overtaken <- v7, crossed <- v8, view <- v9

document == v1
cycles == v2
missions == v4
todo == v5
Agentic == INSTANCE AgenticControl WITH Request <- Operator

ASSUME PlatformAssumption ==
  /\ Approval!BoundAssumption /\ Offhost!OffhostAssumption /\ Access!AccessAssumption
  /\ Gate!ProviderAssumption /\ Mqtt!MqttAssumption /\ Scan!NetworkAssumption
  /\ Limiter!LimitAssumption /\ Body!BodyAssumption /\ Health!HealthAssumption
  /\ Prompts!PromptAssumption /\ Release!ReleaseAssumption
  /\ Reports!GoLiveAssumption /\ Memory!MemoryAssumption /\ Stock!InventoryAssumption
  /\ Agentic!ControlAssumption

-----------------------------------------------------------------------------
No(u) == u = None
From6 == No(v6) /\ No(v7) /\ No(v8) /\ No(v9) /\ No(v10)
From8 == No(v8) /\ No(v9) /\ No(v10)
PlatformInit ==
  /\ active \in Active
  /\ \/ active = "approval" /\ Approval!Init /\ From8
     \/ active = "offhost" /\ Offhost!Init
     \/ active = "access" /\ Access!Init /\ From6
     \/ active = "provider" /\ Gate!Init /\ No(v9) /\ No(v10)
     \/ active = "mqtt" /\ Mqtt!Init /\ From8
     \/ active = "scan" /\ Scan!Init /\ No(v7) /\ From8
     \/ active = "limiter" /\ Limiter!Init /\ No(v4) /\ No(v5) /\ From6
     \/ active = "body" /\ Body!Init /\ No(v9) /\ No(v10)
     \/ active = "health" /\ Health!Init /\ No(v7) /\ From8
     \/ active = "prompts" /\ Prompts!Init /\ From6
     \/ active = "release" /\ Release!Init /\ From8
     \/ active = "golive" /\ Reports!Init /\ No(v10)
     \/ active = "memory" /\ Memory!Init /\ From8
     \/ active = "inventory" /\ Stock!Init /\ No(v10)
     \/ active = "control" /\ Agentic!Init /\ From6

PlatformNext ==
  \/ active = "approval" /\ Approval!Next /\ UNCHANGED <<active, v8, v9, v10>>
  \/ active = "offhost" /\ Offhost!Next /\ UNCHANGED active
  \/ active = "access" /\ Access!Next /\ UNCHANGED <<active, v6, v7, v8, v9, v10>>
  \/ active = "provider" /\ Gate!Next /\ UNCHANGED <<active, v9, v10>>
  \/ active = "mqtt" /\ Mqtt!Next /\ UNCHANGED <<active, v8, v9, v10>>
  \/ active = "scan" /\ Scan!Next /\ UNCHANGED <<active, v7, v8, v9, v10>>
  \/ active = "limiter" /\ Limiter!Next /\ UNCHANGED <<active, v4, v5, v6, v7, v8, v9, v10>>
  \/ active = "body" /\ Body!Next /\ UNCHANGED <<active, v9, v10>>
  \/ active = "health" /\ Health!Next /\ UNCHANGED <<active, v7, v8, v9, v10>>
  \/ active = "prompts" /\ Prompts!Next /\ UNCHANGED <<active, v6, v7, v8, v9, v10>>
  \/ active = "release" /\ Release!Next /\ UNCHANGED <<active, v8, v9, v10>>
  \/ active = "golive" /\ Reports!Next /\ UNCHANGED <<active, v10>>
  \/ active = "memory" /\ Memory!Next /\ UNCHANGED <<active, v8, v9, v10>>
  \/ active = "inventory" /\ Stock!Next /\ UNCHANGED <<active, v10>>
  \/ active = "control" /\ Agentic!Next /\ UNCHANGED <<active, v6, v7, v8, v9, v10>>

PlatformSpec == PlatformInit /\ [][PlatformNext]_all

-----------------------------------------------------------------------------
(* Properties.  Each is the one of its module, for the behaviours of that  *)
(* component; the code behaviour it is about is named there.               *)

(* Every component keeps its variables in their types. *)
TypesOK ==
  /\ active = "approval" => Approval!TypeOK
  /\ active = "offhost" => Offhost!TypeOK
  /\ active = "access" => Access!TypeOK
  /\ active = "provider" => Gate!TypeOK
  /\ active = "mqtt" => Mqtt!TypeOK
  /\ active = "scan" => Scan!TypeOK
  /\ active = "limiter" => Limiter!TypeOK
  /\ active = "body" => Body!TypeOK
  /\ active = "health" => Health!TypeOK
  /\ active = "prompts" => Prompts!TypeOK
  /\ active = "release" => Release!TypeOK
  /\ active = "golive" => Reports!TypeOK
  /\ active = "memory" => Memory!TypeOK
  /\ active = "inventory" => Stock!TypeOK
  /\ active = "control" => Agentic!TypeOK

(* PromptVersions: what is in force is in the history of artifacts and     *)
(* contracts, a rollback restores its target exactly, and versions keep    *)
(* their numbers and contents.                                             *)
PromptsSound ==
  /\ [](active = "prompts" => Prompts!PromptHistorySound)
  /\ [][active = "prompts" => Prompts!HistoryOnlyGrowsStep]_all

(* MqttAdapter: the status of the subscriber is that of its session.       *)
BrokerStatusTrue == active = "mqtt" => Mqtt!BrokerStatusTrue

(* BodyLimit: a write's body reaches the application whole and bounded, or *)
(* not at all.                                                             *)
BodyWholeAndBounded == active = "body" => Body!BodyWholeAndBounded

(* OffhostReceipts: no cached digest vouches for a rewritten backup, and   *)
(* observations of the mount are consumed in their order.                  *)
OffhostSound ==
  /\ [](active = "offhost" => Offhost!CacheTrue)
  /\ [][active = "offhost" => Offhost!InOrder]_all

(* ProviderGate: an open gate was opened by a completed test, and a chat   *)
(* is accounted for once.                                                  *)
GateSound == active = "provider" => Gate!GateSound

(* ProviderGate: what a chat calls has been tested.  Expected to be        *)
(* violated.                                                               *)
CallsWereChecked == active = "provider" => Gate!CallsWereChecked

(* AgentHealth: a fresh receipt of an undisturbed check describes the      *)
(* settings in force.                                                      *)
QuietReceiptTrue == active = "health" => Health!QuietReceiptTrue

(* AccessControl: a granted scope was assigned and permitted.              *)
GrantedByBoth == active = "access" => Access!GrantedByBoth

(* AuthLimiter: guesses per window and the rows of the table are bounded.  *)
LimiterSound == active = "limiter" => Limiter!FailuresPerWindow /\ Limiter!TableBounded

(* HardwareApproval: approved evidence is registered completely, by one    *)
(* registrar, and no late failure, repost or approver takes it back.       *)
ApprovalSound ==
  /\ [](active = "approval" => Approval!ApprovedIsComplete /\ Approval!OneRegistrar)
  /\ [][active = "approval" => Approval!StaysApproved]_all

(* NetworkScan: probes stay in the admitted range and end with their scan, *)
(* whose receipts tell its outcome.                                        *)
ScanSound == active = "scan" => Scan!ScanSound

(* ReleaseMission: a release reported as completed rests on rows of its    *)
(* own that nothing newer contradicts.                                     *)
ReleaseSound == active = "release" => Release!ReleaseSound

(* GoLive: the owner's brief asks about what is open, and a ready backup   *)
(* rests on the last restore test.                                         *)
GoLiveSound == active = "golive" => Reports!GoLiveSound

(* AssistantMemory: a sweep removes the oldest sessions only, keeps what a *)
(* chat protects, fits the budget and leaves no orphans.                   *)
SweepSound == [][active = "memory" => Memory!SweepKeepsNewest]_all

(* Inventory: rows name registered ones, and the views show what the       *)
(* tables hold.                                                            *)
InventorySound == active = "inventory" => Stock!InventorySound

(* AgenticControl: overlapping guard cycles, notes and missions neither    *)
(* tear agentic_control_state nor re-enter control.                        *)
ControlConsistent == active = "control" => Agentic!ControlConsistent
=============================================================================
