------------------------------ MODULE EdgeStore ------------------------------
(***************************************************************************)
(* The telemetry, alert and recovery tables of CoreStore (app.py) and the  *)
(* operations that write them: telemetry ingestion with its quotas and its *)
(* anomaly rule, approval of a recovery proposal, manual resolution of an  *)
(* alert, the demo reset and the retention pass of startup and each hour.  *)
(*                                                                         *)
(* Every operation that opens its connection with BEGIN IMMEDIATE, or that *)
(* writes in one statement, is one step.  An operation that uses several   *)
(* connections is several steps of a worker thread, so that what it read   *)
(* first may be stale when it writes.                                      *)
(*                                                                         *)
(* A row's id is the telemetry_id of the sample that caused it: the code   *)
(* names alerts "alert-<id>" and proposals "proposal-<id>".  The only      *)
(* metric of the catalogue that can be an anomaly is temperature_c, so an  *)
(* alert series is identified by its device.                               *)
(***************************************************************************)
EXTENDS Integers, FiniteSets

CONSTANTS
  Device,         \* device identifiers
  Worker,         \* request threads of the server processes
  Actor,          \* people whose names an approval records
  Kind,           \* the samples posted, a subset of AnyKind
  Sample,         \* source sample ids of the device-credential route
  NoSample,       \* what the operator and MQTT routes pass instead
  NoRow,          \* a table slot that holds no row
  Production,     \* production mode refuses the demo reset
  PerDeviceMax, TelemetryMax, ActiveMax, AlertMax, ProposalMax, Batch,
  TelemetryAge, AnomalyAge,
  MaxId,          \* bound: telemetry ids handed out in a behaviour
  MaxClock        \* bound: clock ticks in a behaviour

AnyKind == {"normal", "warning", "critical"}
Id == 1..MaxId
Time == 0..MaxClock

(* As configured, the proposals kept are no more than the alerts kept.     *)
ASSUME ConstantsAssumption ==
  /\ Kind \subseteq AnyKind
  /\ NoSample \notin Sample
  /\ Production \in BOOLEAN
  /\ PerDeviceMax \in Nat /\ TelemetryMax \in Nat \ {0}
  /\ ActiveMax \in Nat /\ AlertMax \in Nat /\ ProposalMax \in Nat
  /\ ActiveMax <= ProposalMax /\ ProposalMax <= AlertMax
  /\ Batch \in Nat /\ TelemetryAge \in Nat /\ AnomalyAge \in Nat
  /\ MaxId \in Nat /\ MaxClock \in Nat

TelemetryRow == [device : Device, kind : AnyKind, sample : Sample \cup {NoSample},
                 stamp : Time, recorded : Time]
AlertRow == [device : Device, severity : {"warning", "critical"},
             status : {"open", "resolved"}, created : Time]
ProposalRow == [alert : Id, status : {"pending", "approved"},
                by : Actor \cup {NoRow}, created : Time]
IdleRequest == [op |-> "idle"]
IngestRequest == [op : {"ingest"}, device : Device, kind : Kind,
                  sample : Sample \cup {NoSample}, stamp : Time, since : Time]
ResolveRequest == [op : {"resolve", "audit"}, alert : Id]

ASSUME NoRowAssumption ==
  NoRow \notin TelemetryRow \cup AlertRow \cup ProposalRow \cup Actor

VARIABLES
  devices,      \* registered devices
  lastId,       \* AUTOINCREMENT high-water mark of telemetry
  telemetry, alerts, proposals,   \* tables, indexed by Id
  approvals,    \* recovery.approved audit rows ever written, per proposal
  resolutions,  \* alerts an alert.resolved audit row was ever written for
  clock,        \* wall clock
  req           \* the request each worker is serving

tables == <<telemetry, alerts, proposals>>
ledger == <<approvals, resolutions>>
vars == <<devices, lastId, telemetry, alerts, proposals, approvals, resolutions,
          clock, req>>

-----------------------------------------------------------------------------
(* Rows of the tables *)

Stored == {i \in Id : telemetry[i] # NoRow}
StoredOf(d) == {i \in Stored : telemetry[i].device = d}
AlertIds == {i \in Id : alerts[i] # NoRow}
Open == {i \in AlertIds : alerts[i].status = "open"}
OpenOf_severity(d) ==
  {i \in Open : alerts[i].device = d /\ alerts[i].severity = "warning"}
OpenOf(d) == {i \in Open : alerts[i].device = d}
ProposalIds == {i \in Id : proposals[i] # NoRow}
Pending == {i \in ProposalIds : proposals[i].status = "pending"}
Approved == {i \in ProposalIds : proposals[i].status = "approved"}

(* Resolved alerts that none of the proposals in keep refers to: the only  *)
(* alerts that rotation and retention may delete.                          *)
Unreferenced(keep) ==
  {a \in AlertIds : /\ alerts[a].status = "resolved"
                    /\ \A p \in keep : proposals[p].alert # a}

ById == [i \in Id |-> i]
AlertCreated == [i \in AlertIds |-> alerts[i].created]
ProposalCreated == [i \in ProposalIds |-> proposals[i].created]

(* The ways ORDER BY key LIMIT n can pick n of the rows; rows with equal   *)
(* keys may be taken in any order.                                         *)
Earliest(rows, key, n) ==
  {V \in SUBSET rows : /\ Cardinality(V) = n
                       /\ \A x \in V, y \in rows \ V : key[x] <= key[y]}
UpTo(rows, key, n) ==
  Earliest(rows, key, IF Cardinality(rows) < n THEN Cardinality(rows) ELSE n)

(* Rows to delete so that one more fits under the limit. *)
Surplus(count, limit) == IF count >= limit THEN count - limit + 1 ELSE 0

DeviceLimit ==
  LET least == IF PerDeviceMax < TelemetryMax THEN PerDeviceMax ELSE TelemetryMax
  IN IF least < 1 THEN 1 ELSE least

Cleared(table, gone) == [i \in Id |-> IF i \in gone THEN NoRow ELSE table[i]]

-----------------------------------------------------------------------------
(* Devices *)

Register(d) ==
  /\ devices' = devices \cup {d}
  /\ UNCHANGED <<lastId, tables, ledger, clock, req>>

-----------------------------------------------------------------------------
(* Telemetry ingestion *)

(* add_telemetry up to its transaction: the device is looked up on a       *)
(* connection of its own.  A sample id comes with its source timestamp.    *)
BeginIngest(w, d) ==
  /\ req[w] = IdleRequest
  /\ d \in devices
  /\ \E k \in Kind, s \in Sample \cup {NoSample}, t \in 0..clock :
       /\ s = NoSample => t = 0
       /\ req' = [req EXCEPT ![w] = [op |-> "ingest", device |-> d, kind |-> k,
                                     sample |-> s, stamp |-> t, since |-> clock]]
  /\ UNCHANGED <<devices, lastId, tables, ledger, clock>>

Ingesting(w) == req[w].op = "ingest"
Done(w) == req' = [req EXCEPT ![w] = IdleRequest]

Twin_sameKind(r) ==
  {i \in StoredOf(r.device) : /\ r.sample # NoSample /\ telemetry[i].sample = r.sample
                              /\ telemetry[i].kind = r.kind}
(* The stored row with this device and sample id, if it is still stored. *)
Twin(r) ==
  {i \in StoredOf(r.device) : r.sample # NoSample /\ telemetry[i].sample = r.sample}

(* An identical replay and a conflicting sample (409) both store nothing. *)
IngestDuplicate(w) ==
  /\ Ingesting(w)
  /\ Twin(req[w]) # {}
  /\ Done(w)
  /\ UNCHANGED <<devices, lastId, tables, ledger, clock>>

Evictions(d) ==
  Earliest(StoredOf(d), ById, Surplus(Cardinality(StoredOf(d)), DeviceLimit))

(* _ensure_anomaly_capacity: who is needed, what may be rotated for them.  *)
TargetAlert(i, d) ==
  IF OpenOf(d) = {} THEN {i}
  ELSE {a \in OpenOf(d) : \A b \in OpenOf(d) : alerts[b].created <= alerts[a].created}
PendingOf(a) == {p \in Pending : proposals[p].alert = a}
ActiveRoom(d, a) ==
  /\ OpenOf(d) = {} => Cardinality(Open) < ActiveMax
  /\ PendingOf(a) = {} => Cardinality(Pending) < ActiveMax
RotatedProposals_pendingToo(a) ==
  IF {p \in Pending : proposals[p].alert = a} # {} THEN {{}}
  ELSE Earliest(ProposalIds, ProposalCreated,
                Surplus(Cardinality(ProposalIds), ProposalMax))
RotatedProposals(a) ==
  IF PendingOf(a) # {} THEN {{}}
  ELSE Earliest(Approved, ProposalCreated,
                Surplus(Cardinality(ProposalIds), ProposalMax))
RotatedAlerts_first(d, gone) ==
  IF OpenOf(d) # {} THEN {{}}
  ELSE Earliest(Unreferenced(ProposalIds), AlertCreated,
                Surplus(Cardinality(AlertIds), AlertMax))
RotatedAlerts(d, gone) ==
  IF OpenOf(d) # {} THEN {{}}
  ELSE Earliest(Unreferenced(ProposalIds \ gone), AlertCreated,
                Surplus(Cardinality(AlertIds), AlertMax))

Severity(d, a, k) ==
  IF k = "critical" \/ (OpenOf(d) # {} /\ alerts[a].severity = "critical")
  THEN "critical" ELSE "warning"

(* The anomaly branch of add_telemetry for the sample stored under id i. *)
RaiseAnomaly(i, d, k, now) ==
  \E a \in TargetAlert(i, d) :
    /\ ActiveRoom(d, a)
    /\ \E gone \in RotatedProposals(a) : \E old \in RotatedAlerts(d, gone) :
         /\ alerts' = [Cleared(alerts, old) EXCEPT ![a] =
              [device |-> d, severity |-> Severity(d, a, k),
               status |-> "open", created |-> now]]
         /\ proposals' =
              IF PendingOf(a) # {} THEN proposals
              ELSE [Cleared(proposals, gone) EXCEPT ![i] =
                     [alert |-> a, status |-> "pending", by |-> NoRow, created |-> now]]

(* The transaction commits: the oldest rows of the device make room, the   *)
(* sample is inserted and an anomalous one raises or refreshes its alert.  *)
IngestCommit(w) ==
  /\ Ingesting(w)
  /\ lastId < MaxId
  /\ LET r == req[w]
         i == lastId + 1
     IN /\ Twin(r) = {}
        /\ \E out \in Evictions(r.device), now \in r.since..clock :
             /\ Cardinality(Stored \ out) < TelemetryMax
             /\ telemetry' = [Cleared(telemetry, out) EXCEPT ![i] =
                  [device |-> r.device, kind |-> r.kind, sample |-> r.sample,
                   stamp |-> r.stamp,
                   recorded |-> IF r.sample = NoSample THEN now ELSE r.stamp]]
             /\ IF r.kind = "normal" THEN UNCHANGED <<alerts, proposals>>
                ELSE RaiseAnomaly(i, r.device, r.kind, now)
        /\ lastId' = i
  /\ Done(w)
  /\ UNCHANGED <<devices, ledger, clock>>

(* A 507 rolls the whole transaction back, the evictions included. *)
TelemetryFull(d) == \E out \in Evictions(d) : Cardinality(Stored \ out) >= TelemetryMax
AnomalyFull(i, d) ==
  \E a \in TargetAlert(i, d) :
    \/ ~ActiveRoom(d, a)
    \/ RotatedProposals(a) = {}
    \/ \E gone \in RotatedProposals(a) : RotatedAlerts(d, gone) = {}

IngestRefused(w) ==
  /\ Ingesting(w)
  /\ Twin(req[w]) = {}
  /\ \/ TelemetryFull(req[w].device)
     \/ req[w].kind # "normal" /\ AnomalyFull(lastId + 1, req[w].device)
  /\ Done(w)
  /\ UNCHANGED <<devices, lastId, tables, ledger, clock>>

-----------------------------------------------------------------------------
(* Operator decisions *)

(* approve_proposal, one transaction: the guarded UPDATE, the alert and    *)
(* the audit row.  An approved proposal is returned unchanged; one whose   *)
(* alert row is missing aborts.                                            *)
Resolve(a) == [alerts EXCEPT ![a].status = "resolved"]
ApproveRow(p, by) == [proposals EXCEPT ![p].status = "approved", ![p].by = by]

ApproveProposal_again(p, by) ==
  /\ p \in ProposalIds
  /\ proposals[p].alert \in AlertIds
  /\ proposals' = ApproveRow(p, by)
  /\ alerts' = Resolve(proposals[p].alert)
  /\ approvals' = [approvals EXCEPT ![p] = @ + 1]
  /\ UNCHANGED <<devices, lastId, telemetry, resolutions, clock, req>>

ApproveProposal(p, by) ==
  /\ p \in Pending
  /\ proposals[p].alert \in AlertIds
  /\ proposals' = ApproveRow(p, by)
  /\ alerts' = Resolve(proposals[p].alert)
  /\ approvals' = [approvals EXCEPT ![p] = @ + 1]
  /\ UNCHANGED <<devices, lastId, telemetry, resolutions, clock, req>>

(* resolve_alert: lookup, UPDATE, and audit row on three connections.  The *)
(* UPDATE hits no row when the alert was deleted in between, and the audit *)
(* row is written all the same.                                            *)
BeginResolve(w, a) ==
  /\ req[w] = IdleRequest
  /\ a \in AlertIds
  /\ req' = [req EXCEPT ![w] = [op |-> "resolve", alert |-> a]]
  /\ UNCHANGED <<devices, lastId, tables, ledger, clock>>

ResolveAlert(w) ==
  /\ req[w].op = "resolve"
  /\ LET a == req[w].alert
     IN /\ alerts' = IF a \in AlertIds THEN Resolve(a) ELSE alerts
        /\ req' = [req EXCEPT ![w] = [op |-> "audit", alert |-> a]]
  /\ UNCHANGED <<devices, lastId, telemetry, proposals, ledger, clock>>

AuditResolve(w) ==
  /\ req[w].op = "audit"
  /\ resolutions' = resolutions \cup {req[w].alert}
  /\ Done(w)
  /\ UNCHANGED <<devices, lastId, tables, approvals, clock>>

-----------------------------------------------------------------------------
(* Reset, retention, failures and time *)

(* reset_demo_data: one transaction empties every demo table; telemetry    *)
(* ids go on from where they were.                                         *)
ResetDemo ==
  /\ ~Production
  /\ devices' = {}
  /\ telemetry' = Cleared(telemetry, Id)
  /\ alerts' = Cleared(alerts, Id)
  /\ proposals' = Cleared(proposals, Id)
  /\ UNCHANGED <<lastId, ledger, clock, req>>

(* cleanup_edge_data_retention, run by each process at startup and hourly. *)
ExpiredTelemetry == {i \in Stored : telemetry[i].recorded < clock - TelemetryAge}
Expired(rows, key) == {i \in rows : key[i] < clock - AnomalyAge}
Beyond(rows, key, keep) ==
  {i \in rows : Cardinality({j \in rows : \/ key[j] > key[i]
                                          \/ key[j] = key[i] /\ j > i}) >= keep}

RetainTelemetry ==
  \E expired \in UpTo(ExpiredTelemetry, ById, Batch) :
    LET kept == Stored \ expired
        ranked == {i \in kept : i \in Beyond(StoredOf(telemetry[i].device) \cap kept,
                                             ById, PerDeviceMax)}
    IN \E excess \in UpTo(ranked, ById, Batch) :
         \E overflow \in UpTo(Beyond(kept \ excess, ById, TelemetryMax), ById, Batch) :
           telemetry' = Cleared(telemetry, expired \cup excess \cup overflow)

RetainAnomalies ==
  \E expired \in UpTo(Expired(Approved, ProposalCreated), ProposalCreated, Batch) :
  \E excess \in UpTo(Beyond(Approved \ expired, ProposalCreated, ProposalMax),
                     ProposalCreated, Batch) :
    LET gone == expired \cup excess
        idle == Unreferenced(ProposalIds \ gone)
    IN \E old \in UpTo(Expired(idle, AlertCreated), AlertCreated, Batch) :
       \E over \in UpTo(Beyond(idle \ old, AlertCreated, AlertMax), AlertCreated, Batch) :
         /\ proposals' = Cleared(proposals, gone)
         /\ alerts' = Cleared(alerts, old \cup over)

RetentionPass ==
  /\ RetainTelemetry
  /\ RetainAnomalies
  /\ UNCHANGED <<devices, lastId, ledger, clock, req>>

(* A process dies between two connections of a request. *)
Crash(w) ==
  /\ req[w] # IdleRequest
  /\ Done(w)
  /\ UNCHANGED <<devices, lastId, tables, ledger, clock>>

Tick ==
  /\ clock < MaxClock
  /\ clock' = clock + 1
  /\ UNCHANGED <<devices, lastId, tables, ledger, req>>

-----------------------------------------------------------------------------
Init ==
  /\ devices = {}
  /\ lastId = 0
  /\ telemetry = [i \in Id |-> NoRow]
  /\ alerts = [i \in Id |-> NoRow]
  /\ proposals = [i \in Id |-> NoRow]
  /\ approvals = [i \in Id |-> 0]
  /\ resolutions = {}
  /\ clock = 0
  /\ req = [w \in Worker |-> IdleRequest]

WorkerStep(w) ==
  \/ \E d \in Device : BeginIngest(w, d)
  \/ IngestDuplicate(w) \/ IngestCommit(w) \/ IngestRefused(w)
  \/ \E a \in Id : BeginResolve(w, a)
  \/ ResolveAlert(w) \/ AuditResolve(w)
  \/ Crash(w)

Next ==
  \/ \E w \in Worker : WorkerStep(w)
  \/ \E d \in Device : Register(d)
  \/ \E p \in Id, by \in Actor : ApproveProposal(p, by)
  \/ ResetDemo \/ RetentionPass \/ Tick

Spec == Init /\ [][Next]_vars
-----------------------------------------------------------------------------
(* Properties *)

(* Every variable keeps its type: a table slot holds a row or nothing, and *)
(* a worker is idle or in one of the steps above.                          *)
TypeOK ==
  /\ devices \subseteq Device
  /\ lastId \in 0..MaxId
  /\ telemetry \in [Id -> TelemetryRow \cup {NoRow}]
  /\ alerts \in [Id -> AlertRow \cup {NoRow}]
  /\ proposals \in [Id -> ProposalRow \cup {NoRow}]
  /\ approvals \in [Id -> Nat]
  /\ resolutions \subseteq Id
  /\ clock \in Time
  /\ req \in [Worker -> {IdleRequest} \cup IngestRequest \cup ResolveRequest]

(* Concurrent anomalous samples of one device never open two alerts: the   *)
(* lookup of the open alert and its insertion are one transaction.         *)
OneOpenAlertPerDevice ==
  \A a, b \in Open : alerts[a].device = alerts[b].device => a = b

(* An open alert always has exactly one proposal an operator can approve,  *)
(* whatever was rotated, retained or resolved since it was raised.         *)
OpenAlertIsActionable ==
  \A a \in Open : \E p \in Pending : {q \in Pending : proposals[q].alert = a} = {p}

(* No proposal outlives its alert, so an approval never meets the "alert   *)
(* is missing" integrity error; and an approved proposal's alert is closed.*)
ProposalHasAlert ==
  \A p \in ProposalIds :
    /\ proposals[p].alert \in AlertIds
    /\ p \in Approved => alerts[proposals[p].alert].status = "resolved"

(* Telemetry quotas hold after every ingestion and retention pass: the     *)
(* rows of one device and the rows of all devices stay bounded.            *)
TelemetryWithinQuota ==
  /\ \A d \in Device : Cardinality(StoredOf(d)) <= DeviceLimit
  /\ Cardinality(Stored) <= TelemetryMax

(* Alert and proposal ceilings hold: the open and pending rows that wait   *)
(* for an operator, and the history kept beside them.                      *)
AnomaliesWithinCeilings ==
  /\ Cardinality(Open) <= ActiveMax /\ Cardinality(Pending) <= ActiveMax
  /\ Cardinality(AlertIds) <= AlertMax /\ Cardinality(ProposalIds) <= ProposalMax

(* A full history never refuses an anomaly: as long as the active ceilings *)
(* leave room, rotation finds its rows, so the two "history capacity        *)
(* reached" refusals cannot happen.                                        *)
HistoryNeverBlocks ==
  lastId < MaxId =>
    \A d \in Device : \A a \in TargetAlert(lastId + 1, d) :
      ActiveRoom(d, a) =>
        /\ RotatedProposals(a) # {}
        /\ \A gone \in RotatedProposals(a) : RotatedAlerts(d, gone) # {}

(* One approval is recorded per proposal, however often and by whomever it *)
(* is approved: an approved row has one audit row, a pending one none.     *)
ApprovedExactlyOnce ==
  \A p \in Id : /\ approvals[p] <= 1
                /\ p \in Approved => approvals[p] = 1
                /\ p \in Pending => approvals[p] = 0

(* A source sample id is stored at most once per device, however its       *)
(* delivery is retried by concurrent requests.                             *)
SampleStoredOnce ==
  \A i, j \in Stored :
    /\ telemetry[i].device = telemetry[j].device
    /\ telemetry[i].sample = telemetry[j].sample
    /\ telemetry[i].sample # NoSample
    => i = j

(* An audited manual resolution is never contradicted by its alert.        *)
ResolutionStands ==
  resolutions \cap Open = {}

(* Alert rows, proposal rows and the audit of decisions agree with each    *)
(* other, whatever threads, resets, rotation and crashes do in between.    *)
RowsAgree == OneOpenAlertPerDevice /\ OpenAlertIsActionable /\ ProposalHasAlert
TablesAgree == RowsAgree /\ ApprovedExactlyOnce /\ ResolutionStands

(* The ceilings hold, and the history under them never refuses an anomaly. *)
CeilingsHold == AnomaliesWithinCeilings /\ HistoryNeverBlocks

(* Row quotas hold, and a sample is stored once. *)
TelemetrySound == TelemetryWithinQuota /\ SampleStoredOnce

(* Rotation, retention and crashes never drop work that waits for a human: *)
(* in production a proposal stops pending only by an approval that is      *)
(* recorded, and an open alert is never deleted.                           *)
WaitingWorkIsKept ==
  [][Production =>
       /\ \A p \in Pending : \/ proposals'[p] = proposals[p]
                              \/ /\ p \in Approved'
                                 /\ approvals'[p] = approvals[p] + 1
       /\ \A a \in Open : alerts'[a] # NoRow]_vars

(* The tables implement the approval gate that RecoveryGate promises. *)
GateState ==
  [i \in Id |-> IF i \in Pending THEN "pending" ELSE IF i \in Approved THEN "approved"
               ELSE IF i <= lastId THEN "gone" ELSE "unused"]
Gate == INSTANCE RecoveryGate WITH gate <- GateState, decisions <- approvals
GateSpec == Gate!Spec
=============================================================================
