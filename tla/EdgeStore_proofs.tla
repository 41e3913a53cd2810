--------------------------- MODULE EdgeStore_proofs ---------------------------
(***************************************************************************)
(* Proofs about EdgeStore: its type invariant; from one inductive          *)
(* invariant, the consistency of alerts, proposals and their audit rows;   *)
(* from what a step can do to the tables, that it implements the approval  *)
(* gate, keeps the work that waits and keeps the ceilings and quotas.      *)
(***************************************************************************)
EXTENDS EdgeStore, FiniteSetTheorems, WellFoundedInduction, TLAPS

USE DEF Id, Time

(* Emptying slots of a table keeps its type. *)
LEMMA ClearedType ==
  ASSUME NEW Row, NEW table \in [Id -> Row \cup {NoRow}], NEW gone
  PROVE  Cleared(table, gone) \in [Id -> Row \cup {NoRow}]
BY DEF Cleared

(* A worker whose request says "ingest" holds an ingest request. *)
LEMMA IngestingType ==
  ASSUME TypeOK, NEW w \in Worker, Ingesting(w)
  PROVE  /\ req[w] \in IngestRequest
         /\ req[w].device \in Device /\ req[w].kind \in AnyKind
         /\ req[w].since \in Nat
<1>1. req[w] \in IngestRequest
  BY ConstantsAssumption DEF TypeOK, Ingesting, IdleRequest, IngestRequest, ResolveRequest
<1> QED BY <1>1, ConstantsAssumption DEF IngestRequest

LEMMA ResolvingType ==
  ASSUME TypeOK, NEW w \in Worker, req[w].op \in {"resolve", "audit"}
  PROVE  req[w].alert \in Id /\ req[w] \in ResolveRequest
BY DEF TypeOK, IdleRequest, IngestRequest, ResolveRequest

LEMMA InitType == ASSUME Init PROVE TypeOK
BY ConstantsAssumption DEF Init, TypeOK

(* The anomaly branch writes rows of the right shape. *)
LEMMA RaiseAnomalyType ==
  ASSUME TypeOK, NEW i \in Id, NEW d \in Device, NEW k \in AnyKind,
         NEW now \in Time, RaiseAnomaly(i, d, k, now)
  PROVE  /\ alerts' \in [Id -> AlertRow \cup {NoRow}]
         /\ proposals' \in [Id -> ProposalRow \cup {NoRow}]
<1>1. PICK a \in TargetAlert(i, d) : \E gone, old :
         /\ alerts' = [Cleared(alerts, old) EXCEPT ![a] =
              [device |-> d, severity |-> Severity(d, a, k),
               status |-> "open", created |-> now]]
         /\ proposals' =
              IF PendingOf(a) # {} THEN proposals
              ELSE [Cleared(proposals, gone) EXCEPT ![i] =
                     [alert |-> a, status |-> "pending", by |-> NoRow, created |-> now]]
  BY DEF RaiseAnomaly
<1>2. PICK gone, old :
         /\ alerts' = [Cleared(alerts, old) EXCEPT ![a] =
              [device |-> d, severity |-> Severity(d, a, k),
               status |-> "open", created |-> now]]
         /\ proposals' =
              IF PendingOf(a) # {} THEN proposals
              ELSE [Cleared(proposals, gone) EXCEPT ![i] =
                     [alert |-> a, status |-> "pending", by |-> NoRow, created |-> now]]
  BY <1>1
<1>3. a \in Id
  BY DEF TargetAlert, OpenOf, Open, AlertIds
<1>4. /\ Cleared(alerts, old) \in [Id -> AlertRow \cup {NoRow}]
      /\ Cleared(proposals, gone) \in [Id -> ProposalRow \cup {NoRow}]
  BY ClearedType DEF TypeOK
<1>5. [device |-> d, severity |-> Severity(d, a, k), status |-> "open", created |-> now]
        \in AlertRow
  BY DEF AlertRow, Severity
<1>6. [alert |-> a, status |-> "pending", by |-> NoRow, created |-> now] \in ProposalRow
  BY <1>3 DEF ProposalRow
<1>7. alerts' \in [Id -> AlertRow \cup {NoRow}]
  BY <1>2, <1>3, <1>4, <1>5
<1>8. proposals' \in [Id -> ProposalRow \cup {NoRow}]
  BY <1>2, <1>4, <1>6 DEF TypeOK
<1> QED BY <1>7, <1>8

LEMMA WorkerType ==
  ASSUME TypeOK, NEW w \in Worker, WorkerStep(w)
  PROVE  TypeOK'
<1> USE ConstantsAssumption
<1>0. [req EXCEPT ![w] = IdleRequest]
         \in [Worker -> {IdleRequest} \cup IngestRequest \cup ResolveRequest]
  BY DEF TypeOK
<1>1. ASSUME NEW d \in Device, BeginIngest(w, d) PROVE TypeOK'
  <2>1. PICK k \in Kind, s \in Sample \cup {NoSample}, t \in 0..clock :
          req' = [req EXCEPT ![w] = [op |-> "ingest", device |-> d, kind |-> k,
                                     sample |-> s, stamp |-> t, since |-> clock]]
    BY <1>1 DEF BeginIngest
  <2>2. [op |-> "ingest", device |-> d, kind |-> k, sample |-> s, stamp |-> t,
         since |-> clock] \in IngestRequest
    BY DEF TypeOK, IngestRequest
  <2>3. req' \in [Worker -> {IdleRequest} \cup IngestRequest \cup ResolveRequest]
    BY <2>1, <2>2 DEF TypeOK
  <2> QED BY <1>1, <2>3 DEF TypeOK, BeginIngest, tables, ledger
<1>2. ASSUME IngestDuplicate(w) \/ IngestRefused(w) \/ Crash(w) PROVE TypeOK'
  BY <1>0, <1>2 DEF TypeOK, IngestDuplicate, IngestRefused, Crash, Done, tables, ledger
<1>3. ASSUME IngestCommit(w) PROVE TypeOK'
  <2>1. req[w] \in IngestRequest /\ Ingesting(w)
    BY <1>3, IngestingType DEF IngestCommit
  <2> DEFINE i == lastId + 1
             d == req[w].device
             k == req[w].kind
  <2>2. PICK out \in Evictions(req[w].device), now \in req[w].since..clock :
          /\ telemetry' = [Cleared(telemetry, out) EXCEPT ![i] =
                  [device |-> req[w].device, kind |-> req[w].kind,
                   sample |-> req[w].sample, stamp |-> req[w].stamp,
                   recorded |-> IF req[w].sample = NoSample THEN now ELSE req[w].stamp]]
          /\ IF req[w].kind = "normal" THEN UNCHANGED <<alerts, proposals>>
             ELSE RaiseAnomaly(i, req[w].device, req[w].kind, now)
    BY <1>3 DEF IngestCommit
  <2>3. i \in Id /\ i \in 0..MaxId
    BY <1>3 DEF IngestCommit, TypeOK
  <2>4. now \in Time /\ d \in Device /\ k \in AnyKind
    BY <2>1 DEF TypeOK, IngestRequest
  <2>5. [device |-> req[w].device, kind |-> req[w].kind, sample |-> req[w].sample,
         stamp |-> req[w].stamp,
         recorded |-> IF req[w].sample = NoSample THEN now ELSE req[w].stamp]
          \in TelemetryRow
    BY <2>1, <2>4 DEF TelemetryRow, IngestRequest
  <2>6. Cleared(telemetry, out) \in [Id -> TelemetryRow \cup {NoRow}]
    BY ClearedType DEF TypeOK
  <2>7. telemetry' \in [Id -> TelemetryRow \cup {NoRow}]
    BY <2>2, <2>5, <2>6
  <2>8. /\ alerts' \in [Id -> AlertRow \cup {NoRow}]
        /\ proposals' \in [Id -> ProposalRow \cup {NoRow}]
    BY <2>2, <2>3, <2>4, RaiseAnomalyType DEF TypeOK
  <2> QED BY <1>0, <1>3, <2>3, <2>7, <2>8 DEF TypeOK, IngestCommit, Done, ledger
<1>4. ASSUME NEW a \in Id, BeginResolve(w, a) PROVE TypeOK'
  <2>1. [op |-> "resolve", alert |-> a] \in ResolveRequest
    BY DEF ResolveRequest
  <2> QED BY <1>4, <2>1 DEF TypeOK, BeginResolve, tables, ledger
<1>5. ASSUME ResolveAlert(w) PROVE TypeOK'
  <2>1. req[w].alert \in Id
    BY <1>5, ResolvingType DEF ResolveAlert
  <2>2. [op |-> "audit", alert |-> req[w].alert] \in ResolveRequest
    BY <2>1 DEF ResolveRequest
  <2>3. req' \in [Worker -> {IdleRequest} \cup IngestRequest \cup ResolveRequest]
    BY <1>5, <2>2 DEF TypeOK, ResolveAlert
  <2>4. alerts' \in [Id -> AlertRow \cup {NoRow}]
    <3>1. CASE req[w].alert \notin AlertIds
      BY <1>5, <3>1 DEF TypeOK, ResolveAlert
    <3>2. CASE req[w].alert \in AlertIds
      <4>1. alerts[req[w].alert] \in AlertRow
        BY <2>1, <3>2 DEF TypeOK, AlertIds
      <4>2. [alerts[req[w].alert] EXCEPT !.status = "resolved"] \in AlertRow
        BY <4>1 DEF AlertRow
      <4> QED BY <1>5, <2>1, <3>2, <4>2 DEF TypeOK, ResolveAlert, Resolve
    <3> QED BY <3>1, <3>2
  <2> QED BY <1>5, <2>3, <2>4 DEF TypeOK, ResolveAlert, ledger
<1>6. ASSUME AuditResolve(w) PROVE TypeOK'
  <2>1. req[w].alert \in Id
    BY <1>6, ResolvingType DEF AuditResolve
  <2> QED BY <1>0, <1>6, <2>1 DEF TypeOK, AuditResolve, Done, tables
<1> QED BY <1>1, <1>2, <1>3, <1>4, <1>5, <1>6 DEF WorkerStep

LEMMA ApproveType ==
  ASSUME TypeOK, NEW p \in Id, NEW by \in Actor, ApproveProposal(p, by)
  PROVE  TypeOK'
<1> DEFINE a == proposals[p].alert
<1>1. proposals[p] \in ProposalRow /\ p \in ProposalIds
  BY DEF ApproveProposal, Pending, ProposalIds, TypeOK
<1>2. a \in Id /\ alerts[a] \in AlertRow
  BY <1>1 DEF ApproveProposal, ProposalRow, AlertIds, TypeOK
<1>3. [alerts[a] EXCEPT !.status = "resolved"] \in AlertRow
  BY <1>2 DEF AlertRow
<1>4. alerts' \in [Id -> AlertRow \cup {NoRow}]
  BY <1>2, <1>3 DEF ApproveProposal, Resolve, TypeOK
<1>5. proposals' \in [Id -> ProposalRow \cup {NoRow}]
  BY <1>1 DEF ApproveProposal, ApproveRow, ProposalRow, TypeOK
<1>6. approvals' \in [Id -> Nat]
  BY DEF ApproveProposal, TypeOK
<1> QED BY <1>4, <1>5, <1>6 DEF ApproveProposal, TypeOK

LEMMA NextType == ASSUME TypeOK, [Next]_vars PROVE TypeOK'
<1> USE ConstantsAssumption
<1>1. ASSUME NEW w \in Worker, WorkerStep(w) PROVE TypeOK'
  BY <1>1, WorkerType
<1>2. ASSUME NEW d \in Device, Register(d) PROVE TypeOK'
  BY <1>2 DEF TypeOK, Register, tables, ledger
<1>3. ASSUME NEW p \in Id, NEW by \in Actor, ApproveProposal(p, by) PROVE TypeOK'
  BY <1>3, ApproveType
<1>4. ASSUME ResetDemo PROVE TypeOK'
  <2>1. /\ telemetry' \in [Id -> TelemetryRow \cup {NoRow}]
        /\ alerts' \in [Id -> AlertRow \cup {NoRow}]
        /\ proposals' \in [Id -> ProposalRow \cup {NoRow}]
    BY <1>4, ClearedType DEF TypeOK, ResetDemo
  <2> QED BY <1>4, <2>1 DEF TypeOK, ResetDemo, ledger
<1>5. ASSUME RetentionPass PROVE TypeOK'
  <2>1. PICK out : telemetry' = Cleared(telemetry, out)
    BY <1>5, Zenon DEF RetentionPass, RetainTelemetry
  <2>2. PICK gone, old : /\ proposals' = Cleared(proposals, gone)
                         /\ alerts' = Cleared(alerts, old)
    BY <1>5 DEF RetentionPass, RetainAnomalies
  <2>3. /\ Cleared(telemetry, out) \in [Id -> TelemetryRow \cup {NoRow}]
        /\ Cleared(alerts, old) \in [Id -> AlertRow \cup {NoRow}]
        /\ Cleared(proposals, gone) \in [Id -> ProposalRow \cup {NoRow}]
    BY ClearedType DEF TypeOK
  <2> QED BY <1>5, <2>1, <2>2, <2>3 DEF TypeOK, RetentionPass, ledger
<1>6. ASSUME Tick PROVE TypeOK'
  BY <1>6 DEF TypeOK, Tick, tables, ledger
<1>7. ASSUME UNCHANGED vars PROVE TypeOK'
  BY <1>7 DEF TypeOK, vars
<1> QED BY <1>1, <1>2, <1>3, <1>4, <1>5, <1>6, <1>7 DEF Next

(* Every table, ledger and request of the store keeps its type, for any    *)
(* number of devices, workers and rows and any quotas.                     *)
THEOREM TypeCorrect == Spec => []TypeOK
BY InitType, NextType, PTL DEF Spec

-----------------------------------------------------------------------------
(* Identifiers above the high-water mark have never been used. *)
FreshIds ==
  \A i \in Id : i > lastId =>
    /\ alerts[i] = NoRow /\ proposals[i] = NoRow
    /\ approvals[i] = 0 /\ i \notin resolutions

(* A resolution under way is about an alert that has existed and, once the *)
(* UPDATE is done, is not open.                                            *)
ResolutionsUnderWay ==
  \A w \in Worker :
    /\ req[w].op \in {"resolve", "audit"} => req[w].alert <= lastId
    /\ req[w].op = "audit" => req[w].alert \notin Open

(* What every step preserves. *)
IInv ==
  /\ TypeOK /\ FreshIds
  /\ RowsAgree /\ ApprovedExactlyOnce
  /\ ResolutionStands /\ ResolutionsUnderWay

LEMMA UpToSubset ==
  ASSUME NEW rows, NEW key, NEW n, NEW V \in UpTo(rows, key, n)
  PROVE  V \subseteq rows
BY DEF UpTo, Earliest

LEMMA BeyondSubset ==
  ASSUME NEW rows, NEW key, NEW n
  PROVE  Beyond(rows, key, n) \subseteq rows
BY DEF Beyond

(* Deleting approved proposals, and resolved alerts no kept proposal needs,*)
(* disturbs nothing that is open or pending.                               *)
LEMMA PruneSets ==
  ASSUME TypeOK, NEW gone \in SUBSET Approved,
         NEW old \in SUBSET Unreferenced(ProposalIds \ gone),
         alerts' = Cleared(alerts, old), proposals' = Cleared(proposals, gone)
  PROVE  /\ AlertIds' = AlertIds \ old /\ Open' = Open
         /\ ProposalIds' = ProposalIds \ gone
         /\ Pending' = Pending /\ Approved' = Approved \ gone
         /\ \A a \in AlertIds' : alerts'[a] = alerts[a]
         /\ \A p \in ProposalIds' : proposals'[p] = proposals[p]
<1>1. AlertIds' = AlertIds \ old /\ ProposalIds' = ProposalIds \ gone
  BY DEF AlertIds, ProposalIds, Cleared
<1>2. /\ \A a \in AlertIds' : alerts'[a] = alerts[a]
      /\ \A p \in ProposalIds' : proposals'[p] = proposals[p]
  BY <1>1 DEF AlertIds, ProposalIds, Cleared
<1>3. Open' = Open
  BY <1>1, <1>2 DEF Open, Unreferenced
<1>4. Pending' = Pending /\ Approved' = Approved \ gone
  BY <1>1, <1>2 DEF Pending, Approved
<1> QED BY <1>1, <1>2, <1>3, <1>4

LEMMA PrunePreserves ==
  ASSUME IInv, NEW gone \in SUBSET Approved,
         NEW old \in SUBSET Unreferenced(ProposalIds \ gone),
         alerts' = Cleared(alerts, old), proposals' = Cleared(proposals, gone),
         UNCHANGED <<lastId, ledger, req>>, TypeOK'
  PROVE  IInv'
<1>0. /\ AlertIds' = AlertIds \ old /\ Open' = Open
      /\ ProposalIds' = ProposalIds \ gone
      /\ Pending' = Pending /\ Approved' = Approved \ gone
      /\ \A a \in AlertIds' : alerts'[a] = alerts[a]
      /\ \A p \in ProposalIds' : proposals'[p] = proposals[p]
  BY PruneSets DEF IInv
<1>1. FreshIds'
  BY DEF IInv, FreshIds, Cleared, ledger
<1>2. OneOpenAlertPerDevice'
  BY <1>0 DEF IInv, RowsAgree, OneOpenAlertPerDevice, Open
<1>3. OpenAlertIsActionable'
  <2>1. \A q \in Pending : proposals'[q] = proposals[q]
    BY <1>0 DEF Pending
  <2> QED BY <1>0, <2>1 DEF IInv, RowsAgree, OpenAlertIsActionable
<1>4. ProposalHasAlert'
  <2> SUFFICES ASSUME NEW p \in ProposalIds'
               PROVE  /\ proposals'[p].alert \in AlertIds'
                      /\ p \in Approved' => alerts'[proposals'[p].alert].status = "resolved"
    BY DEF ProposalHasAlert
  <2>1. proposals'[p] = proposals[p] /\ p \in ProposalIds \ gone
    BY <1>0
  <2>2. /\ proposals[p].alert \in AlertIds
        /\ p \in Approved => alerts[proposals[p].alert].status = "resolved"
    BY <2>1 DEF IInv, RowsAgree, ProposalHasAlert
  <2>3. proposals[p].alert \notin old
    BY <2>1 DEF Unreferenced
  <2> QED BY <1>0, <2>1, <2>2, <2>3
<1>5. ApprovedExactlyOnce'
  BY <1>0 DEF IInv, ApprovedExactlyOnce, ledger
<1>6. ResolutionStands' /\ ResolutionsUnderWay'
  BY <1>0 DEF IInv, ResolutionStands, ResolutionsUnderWay, ledger
<1> QED BY <1>1, <1>2, <1>3, <1>4, <1>5, <1>6 DEF IInv, RowsAgree

LEMMA RetentionPrunes ==
  ASSUME RetentionPass
  PROVE  \E gone \in SUBSET Approved : \E old \in SUBSET Unreferenced(ProposalIds \ gone) :
           alerts' = Cleared(alerts, old) /\ proposals' = Cleared(proposals, gone)
<1>1. PICK expired \in UpTo(Expired(Approved, ProposalCreated), ProposalCreated, Batch) :
      \E excess \in UpTo(Beyond(Approved \ expired, ProposalCreated, ProposalMax),
                     ProposalCreated, Batch) :
      LET gone == expired \cup excess
          idle == Unreferenced(ProposalIds \ gone)
      IN \E old \in UpTo(Expired(idle, AlertCreated), AlertCreated, Batch) :
         \E over \in UpTo(Beyond(idle \ old, AlertCreated, AlertMax), AlertCreated, Batch) :
           /\ proposals' = Cleared(proposals, gone)
           /\ alerts' = Cleared(alerts, old \cup over)
  BY Zenon DEF RetentionPass, RetainAnomalies
<1>2. PICK excess \in UpTo(Beyond(Approved \ expired, ProposalCreated, ProposalMax),
                     ProposalCreated, Batch) :
      LET gone == expired \cup excess
          idle == Unreferenced(ProposalIds \ gone)
      IN \E old \in UpTo(Expired(idle, AlertCreated), AlertCreated, Batch) :
         \E over \in UpTo(Beyond(idle \ old, AlertCreated, AlertMax), AlertCreated, Batch) :
           /\ proposals' = Cleared(proposals, gone)
           /\ alerts' = Cleared(alerts, old \cup over)
  BY <1>1, Zenon
<1> DEFINE gone == expired \cup excess
           idle == Unreferenced(ProposalIds \ gone)
<1>3. PICK old \in UpTo(Expired(idle, AlertCreated), AlertCreated, Batch) :
      \E over \in UpTo(Beyond(idle \ old, AlertCreated, AlertMax), AlertCreated, Batch) :
        /\ proposals' = Cleared(proposals, gone)
        /\ alerts' = Cleared(alerts, old \cup over)
  BY <1>2, Zenon
<1>4. PICK over \in UpTo(Beyond(idle \ old, AlertCreated, AlertMax), AlertCreated, Batch) :
        /\ proposals' = Cleared(proposals, gone)
        /\ alerts' = Cleared(alerts, old \cup over)
  BY <1>3, Zenon
<1>5. expired \subseteq Approved /\ excess \subseteq Approved
  <2>1. Expired(Approved, ProposalCreated) \subseteq Approved
    BY DEF Expired
  <2> QED BY <2>1, UpToSubset, BeyondSubset
<1>6. old \subseteq idle /\ over \subseteq idle
  <2> HIDE DEF idle
  <2>1. Expired(idle, AlertCreated) \subseteq idle
    BY DEF Expired
  <2> QED BY <2>1, UpToSubset, BeyondSubset
<1>7. gone \in SUBSET Approved /\ old \cup over \in SUBSET Unreferenced(ProposalIds \ gone)
  BY <1>5, <1>6
<1> QED BY <1>4, <1>7

LEMMA RetentionPreserves == ASSUME IInv, RetentionPass, TypeOK' PROVE IInv'
<1>1. UNCHANGED <<lastId, ledger, req>>
  BY DEF RetentionPass
<1> QED BY <1>1, RetentionPrunes, PrunePreserves

(* An anomaly of a device with no open alert opens alert i, with pending   *)
(* proposal i, and rotates approved proposals and unreferenced alerts.     *)
NewAlert(i, d, gone, old) ==
  /\ OpenOf(d) = {} /\ PendingOf(i) = {} /\ ActiveRoom(d, i)
  /\ gone \in Earliest(Approved, ProposalCreated,
                       Surplus(Cardinality(ProposalIds), ProposalMax))
  /\ old \in Earliest(Unreferenced(ProposalIds \ gone), AlertCreated,
                      Surplus(Cardinality(AlertIds), AlertMax))
  /\ AlertIds' = (AlertIds \ old) \cup {i} /\ Open' = Open \cup {i}
  /\ ProposalIds' = (ProposalIds \ gone) \cup {i}
  /\ Pending' = Pending \cup {i} /\ Approved' = Approved \ gone
  /\ alerts'[i].device = d /\ proposals'[i].alert = i
  /\ \A b \in AlertIds' : b # i => alerts'[b] = alerts[b]
  /\ \A p \in ProposalIds' : p # i => proposals'[p] = proposals[p]

(* An anomaly of a device with an open alert refreshes that alert. *)
Refreshed(d) ==
  /\ UNCHANGED proposals /\ AlertIds' = AlertIds /\ Open' = Open
  /\ \E a \in OpenOf(d) : /\ alerts'[a].device = d
                          /\ \A b \in Id : b # a => alerts'[b] = alerts[b]

LEMMA RaiseEffect ==
  ASSUME IInv, NEW i \in Id, i = lastId + 1, NEW d \in Device, NEW k \in AnyKind,
         NEW now \in Time, RaiseAnomaly(i, d, k, now)
  PROVE  (\E gone, old : NewAlert(i, d, gone, old)) \/ Refreshed(d)
<1>1. PICK a \in TargetAlert(i, d) : ActiveRoom(d, a) /\
        \E gone \in RotatedProposals(a) : \E old \in RotatedAlerts(d, gone) :
         /\ alerts' = [Cleared(alerts, old) EXCEPT ![a] =
              [device |-> d, severity |-> Severity(d, a, k),
               status |-> "open", created |-> now]]
         /\ proposals' =
              IF PendingOf(a) # {} THEN proposals
              ELSE [Cleared(proposals, gone) EXCEPT ![i] =
                     [alert |-> a, status |-> "pending", by |-> NoRow, created |-> now]]
  BY DEF RaiseAnomaly
<1>2. PICK gone \in RotatedProposals(a) : \E old \in RotatedAlerts(d, gone) :
         /\ alerts' = [Cleared(alerts, old) EXCEPT ![a] =
              [device |-> d, severity |-> Severity(d, a, k),
               status |-> "open", created |-> now]]
         /\ proposals' =
              IF PendingOf(a) # {} THEN proposals
              ELSE [Cleared(proposals, gone) EXCEPT ![i] =
                     [alert |-> a, status |-> "pending", by |-> NoRow, created |-> now]]
  BY <1>1
<1>3. PICK old \in RotatedAlerts(d, gone) :
         /\ alerts' = [Cleared(alerts, old) EXCEPT ![a] =
              [device |-> d, severity |-> Severity(d, a, k),
               status |-> "open", created |-> now]]
         /\ proposals' =
              IF PendingOf(a) # {} THEN proposals
              ELSE [Cleared(proposals, gone) EXCEPT ![i] =
                     [alert |-> a, status |-> "pending", by |-> NoRow, created |-> now]]
  BY <1>2
<1> DEFINE alertRow == [device |-> d, severity |-> Severity(d, a, k),
                        status |-> "open", created |-> now]
           proposalRow == [alert |-> a, status |-> "pending", by |-> NoRow,
                           created |-> now]
<1>4. alertRow \in AlertRow /\ a \in Id /\ alertRow # NoRow
  BY NoRowAssumption DEF AlertRow, Severity, TargetAlert, OpenOf, Open, AlertIds
<1>5. proposalRow \in ProposalRow /\ proposalRow # NoRow
  BY <1>4, NoRowAssumption DEF ProposalRow
<1>6. /\ alerts[i] = NoRow /\ proposals[i] = NoRow
      /\ i \notin AlertIds /\ i \notin ProposalIds
  BY DEF IInv, FreshIds, AlertIds, ProposalIds, TypeOK
<1>8. CASE OpenOf(d) = {}
  <2>1. a = i
    BY <1>8 DEF TargetAlert
  <2>2. PendingOf(i) = {}
    BY <1>6 DEF IInv, RowsAgree, ProposalHasAlert, PendingOf, Pending
  <2>a. /\ ActiveRoom(d, i)
        /\ gone \in Earliest(Approved, ProposalCreated,
                             Surplus(Cardinality(ProposalIds), ProposalMax))
        /\ old \in Earliest(Unreferenced(ProposalIds \ gone), AlertCreated,
                            Surplus(Cardinality(AlertIds), AlertMax))
    BY <1>1, <1>8, <2>1, <2>2 DEF RotatedProposals, RotatedAlerts
  <2>3. gone \subseteq Approved
    BY <2>a DEF Earliest
  <2>4. old \subseteq Unreferenced(ProposalIds \ gone)
    BY <2>a DEF Earliest
  <2>5. /\ alerts' = [Cleared(alerts, old) EXCEPT ![i] = alertRow]
        /\ proposals' = [Cleared(proposals, gone) EXCEPT ![i] = proposalRow]
    BY <1>3, <2>1, <2>2
  <2> HIDE DEF alertRow, proposalRow
  <2>6. /\ AlertIds' = (AlertIds \ old) \cup {i}
        /\ ProposalIds' = (ProposalIds \ gone) \cup {i}
    BY <1>4, <1>5, <1>6, <2>3, <2>4, <2>5 DEF AlertIds, ProposalIds, Cleared, IInv, TypeOK
  <2>7. /\ alerts'[i] = alertRow /\ proposals'[i] = proposalRow
        /\ \A b \in AlertIds' : b # i => alerts'[b] = alerts[b]
        /\ \A p \in ProposalIds' : p # i => proposals'[p] = proposals[p]
    BY <2>5, <2>6 DEF AlertIds, ProposalIds, Cleared
  <2>8. /\ alertRow.status = "open" /\ alertRow.device = d
        /\ proposalRow.status = "pending" /\ proposalRow.alert = i
    BY <2>1 DEF alertRow, proposalRow
  <2>9. Open' = Open \cup {i}
    BY <2>4, <2>6, <2>7, <2>8, <1>6 DEF Open, Unreferenced
  <2>10. Pending' = Pending \cup {i} /\ Approved' = Approved \ gone
    BY <2>3, <2>6, <2>7, <2>8, <1>6 DEF Pending, Approved
  <2> QED BY <1>8, <2>a, <2>2, <2>6, <2>7, <2>8, <2>9, <2>10 DEF NewAlert
<1>9. CASE OpenOf(d) # {}
  <2>1. a \in OpenOf(d) /\ old = {} /\ a \in Open /\ alerts[a].device = d
    BY <1>9 DEF TargetAlert, RotatedAlerts, OpenOf
  <2>2. PendingOf(a) # {}
    BY <2>1 DEF IInv, RowsAgree, OpenAlertIsActionable, PendingOf
  <2>3. alerts' = [alerts EXCEPT ![a] = alertRow] /\ proposals' = proposals
    BY <1>3, <2>1, <2>2 DEF Cleared, IInv, TypeOK
  <2>5. alertRow.status = "open" /\ alertRow.device = d
    OBVIOUS
  <2> HIDE DEF alertRow, proposalRow
  <2>6. /\ alerts'[a] = alertRow
        /\ \A b \in Id : b # a => alerts'[b] = alerts[b]
    BY <1>4, <2>3 DEF IInv, TypeOK
  <2>7. AlertIds' = AlertIds
    BY <1>4, <2>1, <2>6 DEF AlertIds, Open
  <2>8. Open' = Open
    BY <1>4, <2>1, <2>5, <2>6, <2>7 DEF Open, AlertIds
  <2> QED BY <2>1, <2>3, <2>5, <2>6, <2>7, <2>8 DEF Refreshed
<1> QED BY <1>8, <1>9

LEMMA NewAlertPreserves ==
  ASSUME IInv, NEW i \in Id, i = lastId + 1, NEW d \in Device, NEW gone, NEW old,
         NewAlert(i, d, gone, old), lastId' = i,
         UNCHANGED ledger, NEW w \in Worker, Done(w), Ingesting(w), TypeOK'
  PROVE  IInv'
<1>1. /\ i \notin AlertIds /\ i \notin ProposalIds /\ i \notin resolutions
      /\ approvals[i] = 0
  BY DEF IInv, FreshIds, AlertIds, ProposalIds, TypeOK
<1>2. /\ \A x \in Worker : req'[x].op # "idle" => x # w /\ req'[x] = req[x]
      /\ \A b \in Id : b > lastId' => b > lastId
  BY DEF IInv, TypeOK, Done, IdleRequest
<1>3. /\ OpenOf(d) = {}
      /\ gone \subseteq Approved /\ old \subseteq Unreferenced(ProposalIds \ gone)
  BY DEF NewAlert, Earliest
<1>4. /\ AlertIds' = (AlertIds \ old) \cup {i} /\ Open' = Open \cup {i}
      /\ ProposalIds' = (ProposalIds \ gone) \cup {i}
      /\ Pending' = Pending \cup {i} /\ Approved' = Approved \ gone
  BY DEF NewAlert
<1>5. /\ alerts'[i].device = d /\ proposals'[i].alert = i
      /\ \A b \in AlertIds' : b # i => alerts'[b] = alerts[b]
      /\ \A p \in ProposalIds' : p # i => proposals'[p] = proposals[p]
  BY DEF NewAlert
<1>6. FreshIds'
  <2> SUFFICES ASSUME NEW j \in Id, j > lastId'
               PROVE  /\ alerts'[j] = NoRow /\ proposals'[j] = NoRow
                      /\ approvals'[j] = 0 /\ j \notin resolutions'
    BY DEF FreshIds
  <2>1. /\ j # i /\ j \notin AlertIds /\ j \notin ProposalIds
        /\ approvals[j] = 0 /\ j \notin resolutions
    BY <1>2 DEF IInv, FreshIds, AlertIds, ProposalIds
  <2>2. j \notin AlertIds' /\ j \notin ProposalIds'
    BY <1>4, <2>1
  <2> QED BY <2>1, <2>2 DEF AlertIds, ProposalIds, ledger
<1>7. OneOpenAlertPerDevice'
  <2>1. \A b \in Open : b # i /\ alerts'[b] = alerts[b] /\ alerts[b].device # d
    BY <1>1, <1>3, <1>5, <1>4 DEF OpenOf, Open
  <2> QED BY <1>5, <1>4, <2>1 DEF IInv, RowsAgree, OneOpenAlertPerDevice
<1>8. OpenAlertIsActionable'
  <2>1. \A q \in Pending : q # i /\ proposals'[q] = proposals[q] /\ proposals[q].alert # i
    BY <1>1, <1>5, <1>4 DEF Pending, IInv, RowsAgree, ProposalHasAlert
  <2>2. {q \in Pending' : proposals'[q].alert = i} = {i}
    BY <1>5, <1>4, <2>1
  <2>3. \A b \in Open : {q \in Pending' : proposals'[q].alert = b}
                         = {q \in Pending : proposals[q].alert = b}
    <3> SUFFICES ASSUME NEW b \in Open
                 PROVE {q \in Pending' : proposals'[q].alert = b}
                         = {q \in Pending : proposals[q].alert = b}
      OBVIOUS
    <3>1. b # i
      BY <1>1 DEF Open
    <3> QED BY <1>5, <1>4, <2>1, <3>1
  <2> QED BY <1>4, <2>2, <2>3 DEF IInv, RowsAgree, OpenAlertIsActionable
<1>9. ProposalHasAlert'
  <2> SUFFICES ASSUME NEW p \in ProposalIds'
               PROVE  /\ proposals'[p].alert \in AlertIds'
                      /\ p \in Approved' =>
                           alerts'[proposals'[p].alert].status = "resolved"
    BY DEF ProposalHasAlert
  <2>1. CASE p = i
    BY <1>1, <1>4, <1>5, <2>1 DEF Approved
  <2>2. CASE p # i
    <3>1. proposals'[p] = proposals[p] /\ p \in ProposalIds \ gone
      BY <1>4, <1>5, <2>2
    <3>2. /\ proposals[p].alert \in AlertIds
          /\ p \in Approved => alerts[proposals[p].alert].status = "resolved"
      BY <3>1 DEF IInv, RowsAgree, ProposalHasAlert
    <3>3. proposals[p].alert \notin old /\ proposals[p].alert # i
      BY <1>1, <1>3, <3>1, <3>2 DEF Unreferenced
    <3> QED BY <1>4, <1>5, <3>1, <3>2, <3>3
  <2> QED BY <2>1, <2>2
<1>10. ApprovedExactlyOnce'
  BY <1>1, <1>4 DEF IInv, ApprovedExactlyOnce, ledger
<1>11. ResolutionStands'
  BY <1>1, <1>4 DEF IInv, ResolutionStands, ledger
<1>12. ResolutionsUnderWay'
  <2> SUFFICES ASSUME NEW x \in Worker, req'[x].op \in {"resolve", "audit"}
               PROVE  /\ req'[x].alert <= lastId'
                      /\ req'[x].op = "audit" => req'[x].alert \notin Open'
    BY DEF ResolutionsUnderWay
  <2>1. req'[x] = req[x] /\ req[x].alert \in Id /\ req[x].alert <= lastId
    BY <1>2, ResolvingType DEF IInv, ResolutionsUnderWay
  <2>2. lastId <= lastId' /\ req[x].alert # i /\ req[x].alert <= lastId'
    BY <2>1 DEF IInv, TypeOK
  <2> QED BY <1>4, <2>1, <2>2 DEF IInv, ResolutionsUnderWay
<1> QED BY <1>6, <1>7, <1>8, <1>9, <1>10, <1>11, <1>12 DEF IInv, RowsAgree

LEMMA RefreshPreserves ==
  ASSUME IInv, NEW i \in Id, i = lastId + 1, NEW d \in Device, Refreshed(d), lastId' = i,
         UNCHANGED ledger, NEW w \in Worker, Done(w), Ingesting(w), TypeOK'
  PROVE  IInv'
<1>1. /\ \A x \in Worker : req'[x].op # "idle" => x # w /\ req'[x] = req[x]
      /\ \A b \in Id : b > lastId' => b > lastId
  BY DEF IInv, TypeOK, Done, IdleRequest
<1>2. PICK a \in OpenOf(d) : /\ alerts'[a].device = d
                            /\ \A b \in Id : b # a => alerts'[b] = alerts[b]
  BY DEF Refreshed
<1>3. a \in Open /\ a \in Id /\ alerts[a].device = d
  BY DEF OpenOf, Open, AlertIds
<1>4. /\ proposals' = proposals /\ AlertIds' = AlertIds /\ Open' = Open
      /\ ProposalIds' = ProposalIds /\ Pending' = Pending /\ Approved' = Approved
  BY DEF Refreshed, ProposalIds, Pending, Approved
<1>5. FreshIds'
  BY <1>1, <1>2, <1>3, <1>4 DEF IInv, FreshIds, ledger, Open, AlertIds
<1>6. OneOpenAlertPerDevice'
  BY <1>2, <1>3, <1>4 DEF IInv, RowsAgree, OneOpenAlertPerDevice, Open, AlertIds
<1>7. OpenAlertIsActionable'
  BY <1>4 DEF IInv, RowsAgree, OpenAlertIsActionable
<1>8. ProposalHasAlert'
  <2>1. \A p \in Approved : proposals[p].alert # a
    BY <1>3 DEF IInv, RowsAgree, ProposalHasAlert, Open, Approved
  <2> QED BY <1>2, <1>4, <2>1 DEF IInv, RowsAgree, ProposalHasAlert, AlertIds
<1>9. ApprovedExactlyOnce' /\ ResolutionStands'
  BY <1>4 DEF IInv, ApprovedExactlyOnce, ResolutionStands, ledger
<1>10. ResolutionsUnderWay'
  <2> SUFFICES ASSUME NEW x \in Worker, req'[x].op \in {"resolve", "audit"}
               PROVE  /\ req'[x].alert <= lastId'
                      /\ req'[x].op = "audit" => req'[x].alert \notin Open'
    BY DEF ResolutionsUnderWay
  <2>1. req'[x] = req[x] /\ req[x].alert \in Id /\ req[x].alert <= lastId
    BY <1>1, ResolvingType DEF IInv, ResolutionsUnderWay
  <2>2. req[x].alert <= lastId'
    BY <2>1 DEF IInv, TypeOK
  <2> QED BY <1>4, <2>1, <2>2 DEF IInv, ResolutionsUnderWay
<1> QED BY <1>5, <1>6, <1>7, <1>8, <1>9, <1>10 DEF IInv, RowsAgree

(* A step that leaves alerts, proposals and ledgers alone only has to      *)
(* account for the requests.                                               *)
LEMMA QuietPreserves ==
  ASSUME IInv, UNCHANGED <<alerts, proposals, ledger>>, lastId' \in {lastId, lastId + 1},
         \A x \in Worker :
           /\ req'[x].op \in {"resolve", "audit"} => req'[x].alert <= lastId
           /\ req'[x].op = "audit" => req'[x].alert \in Id /\ req'[x].alert \notin Open,
         TypeOK'
  PROVE  IInv'
<1>1. /\ AlertIds' = AlertIds /\ Open' = Open /\ ProposalIds' = ProposalIds
      /\ Pending' = Pending /\ Approved' = Approved
  BY DEF AlertIds, Open, ProposalIds, Pending, Approved
<1>2. FreshIds'
  BY DEF IInv, FreshIds, ledger, TypeOK
<1>3. RowsAgree'
  BY <1>1 DEF IInv, RowsAgree, OneOpenAlertPerDevice, OpenAlertIsActionable,
              ProposalHasAlert
<1>4. ApprovedExactlyOnce' /\ ResolutionStands'
  BY <1>1 DEF IInv, ApprovedExactlyOnce, ResolutionStands, ledger
<1>5. ResolutionsUnderWay'
  <2> SUFFICES ASSUME NEW x \in Worker, req'[x].op \in {"resolve", "audit"}
               PROVE  /\ req'[x].alert <= lastId'
                      /\ req'[x].op = "audit" => req'[x].alert \notin Open'
    BY DEF ResolutionsUnderWay
  <2>1. req'[x] \in ResolveRequest
    BY DEF TypeOK, IdleRequest, IngestRequest, ResolveRequest
  <2>2. req'[x].alert \in Id
    BY <2>1 DEF ResolveRequest
  <2>3. req'[x].alert <= lastId'
    BY <2>2 DEF IInv, TypeOK
  <2> QED BY <1>1, <2>3
<1> QED BY <1>2, <1>3, <1>4, <1>5 DEF IInv

(* Closing alert a, and approving its proposals in gone, keeps the rows in *)
(* agreement: a is not open any more, and nothing else changes.            *)
LEMMA CloseSets ==
  ASSUME TypeOK, NEW a \in AlertIds, alerts' = Resolve(a)
  PROVE  /\ AlertIds' = AlertIds /\ Open' = Open \ {a}
         /\ \A b \in Id : b # a => alerts'[b] = alerts[b]
         /\ alerts'[a].status = "resolved"
         /\ alerts'[a].device = alerts[a].device
         /\ a \in Id
<1>1. a \in Id /\ alerts[a] \in AlertRow
  BY DEF AlertIds, TypeOK
<1>2. /\ alerts'[a] = [alerts[a] EXCEPT !.status = "resolved"]
      /\ \A b \in Id : b # a => alerts'[b] = alerts[b]
  BY <1>1 DEF Resolve, TypeOK
<1>3. /\ alerts'[a] \in AlertRow /\ alerts'[a].status = "resolved"
      /\ alerts'[a].device = alerts[a].device
  BY <1>1, <1>2 DEF AlertRow
<1>4. AlertIds' = AlertIds
  BY <1>1, <1>2, <1>3, NoRowAssumption DEF AlertIds
<1>5. Open' = Open \ {a}
  BY <1>2, <1>3, <1>4 DEF Open, AlertIds
<1> QED BY <1>1, <1>2, <1>3, <1>4, <1>5

LEMMA ApprovePreserves ==
  ASSUME IInv, NEW p \in Id, NEW by \in Actor, ApproveProposal(p, by), TypeOK'
  PROVE  IInv'
<1> DEFINE a == proposals[p].alert
<1>0. TypeOK /\ p \in Pending /\ p \in ProposalIds /\ a \in AlertIds
  BY DEF IInv, ApproveProposal, Pending
<1>1. proposals[p] \in ProposalRow
  BY <1>0 DEF ProposalIds, TypeOK
<1>2. /\ AlertIds' = AlertIds /\ Open' = Open \ {a}
      /\ \A b \in Id : b # a => alerts'[b] = alerts[b]
      /\ alerts'[a].status = "resolved" /\ alerts'[a].device = alerts[a].device
      /\ a \in Id
  BY <1>0, CloseSets DEF ApproveProposal
<1>3. /\ proposals'[p] \in ProposalRow /\ proposals'[p].alert = a
      /\ proposals'[p].status = "approved"
      /\ \A q \in Id : q # p => proposals'[q] = proposals[q]
  <2>1. proposals' = [proposals EXCEPT ![p] =
                        [proposals[p] EXCEPT !.status = "approved", !.by = by]]
    BY DEF ApproveProposal, ApproveRow, IInv, TypeOK
  <2>2. [proposals[p] EXCEPT !.status = "approved", !.by = by] \in ProposalRow
    BY <1>1 DEF ProposalRow
  <2> QED BY <1>1, <2>1, <2>2 DEF IInv, TypeOK, ProposalRow
<1>4. /\ ProposalIds' = ProposalIds /\ Pending' = Pending \ {p}
      /\ Approved' = Approved \cup {p}
  BY <1>0, <1>3, NoRowAssumption DEF ProposalIds, Pending, Approved
<1>5. approvals[p] = 0 /\ approvals' = [approvals EXCEPT ![p] = 1]
  <2>1. approvals[p] = 0
    BY <1>0 DEF IInv, ApprovedExactlyOnce
  <2>2. approvals' = [approvals EXCEPT ![p] = approvals[p] + 1]
    BY DEF ApproveProposal
  <2> QED BY <2>1, <2>2
<1>6. UNCHANGED <<lastId, resolutions, req>>
  BY DEF ApproveProposal
<1>7. FreshIds'
  <2>1. p <= lastId /\ a <= lastId
    BY <1>0, <1>2 DEF IInv, FreshIds, ProposalIds, AlertIds, TypeOK
  <2> QED BY <1>2, <1>3, <1>5, <1>6, <2>1 DEF IInv, FreshIds, TypeOK
<1>8. OneOpenAlertPerDevice'
  BY <1>2 DEF IInv, RowsAgree, OneOpenAlertPerDevice, Open, AlertIds
<1>9. OpenAlertIsActionable'
  <2> SUFFICES ASSUME NEW b \in Open, b # a
               PROVE  \E r \in Pending' : {q \in Pending' : proposals'[q].alert = b} = {r}
    BY <1>2 DEF OpenAlertIsActionable
  <2>1. {q \in Pending' : proposals'[q].alert = b}
           = {q \in Pending : proposals[q].alert = b}
    BY <1>3, <1>4 DEF Pending, ProposalIds
  <2>2. PICK r \in Pending : {q \in Pending : proposals[q].alert = b} = {r}
    BY DEF IInv, RowsAgree, OpenAlertIsActionable
  <2>3. r # p
    BY <2>2
  <2> QED BY <1>4, <2>1, <2>2, <2>3
<1>10. ProposalHasAlert'
  <2> SUFFICES ASSUME NEW q \in ProposalIds'
               PROVE  /\ proposals'[q].alert \in AlertIds'
                      /\ q \in Approved' => alerts'[proposals'[q].alert].status = "resolved"
    BY DEF ProposalHasAlert
  <2>1. CASE q = p
    BY <1>0, <1>2, <1>3, <2>1
  <2>2. CASE q # p
    BY <1>2, <1>3, <1>4, <2>2 DEF IInv, RowsAgree, ProposalHasAlert, ProposalIds, AlertIds
  <2> QED BY <2>1, <2>2
<1>11. ApprovedExactlyOnce'
  BY <1>0, <1>4, <1>5 DEF IInv, ApprovedExactlyOnce, TypeOK
<1>12. ResolutionStands' /\ ResolutionsUnderWay'
  BY <1>2, <1>6 DEF IInv, ResolutionStands, ResolutionsUnderWay
<1> QED BY <1>7, <1>8, <1>9, <1>10, <1>11, <1>12 DEF IInv, RowsAgree

LEMMA ResolvePreserves ==
  ASSUME IInv, NEW w \in Worker, ResolveAlert(w), TypeOK'
  PROVE  IInv'
<1> DEFINE a == req[w].alert
<1>1. a \in Id /\ a <= lastId
  BY ResolvingType DEF ResolveAlert, IInv, ResolutionsUnderWay
<1>2. /\ AlertIds' = AlertIds /\ Open' = Open \ {a}
      /\ \A b \in Id : b # a => alerts'[b] = alerts[b]
      /\ a \in AlertIds => alerts'[a].status = "resolved"
      /\ a \notin AlertIds => alerts' = alerts
  <2>1. CASE a \in AlertIds
    BY <2>1, CloseSets DEF ResolveAlert, IInv
  <2>2. CASE a \notin AlertIds
    BY <2>2 DEF ResolveAlert, AlertIds, Open
  <2> QED BY <2>1, <2>2
<1>3. /\ ProposalIds' = ProposalIds /\ Pending' = Pending /\ Approved' = Approved
      /\ UNCHANGED <<proposals, approvals, resolutions, lastId>>
  BY DEF ResolveAlert, ledger, ProposalIds, Pending, Approved
<1>4. FreshIds'
  BY <1>1, <1>2, <1>3 DEF IInv, FreshIds, TypeOK
<1>5. OneOpenAlertPerDevice'
  BY <1>2 DEF IInv, RowsAgree, OneOpenAlertPerDevice, Open, AlertIds
<1>6. OpenAlertIsActionable'
  BY <1>2, <1>3 DEF IInv, RowsAgree, OpenAlertIsActionable
<1>7. ProposalHasAlert'
  BY <1>1, <1>2, <1>3 DEF IInv, RowsAgree, ProposalHasAlert, AlertIds
<1>8. ApprovedExactlyOnce' /\ ResolutionStands'
  BY <1>2, <1>3 DEF IInv, ApprovedExactlyOnce, ResolutionStands
<1>9. ResolutionsUnderWay'
  <2> SUFFICES ASSUME NEW x \in Worker
               PROVE  /\ req'[x].op \in {"resolve", "audit"} => req'[x].alert <= lastId'
                      /\ req'[x].op = "audit" => req'[x].alert \notin Open'
    BY DEF ResolutionsUnderWay
  <2>1. CASE x = w
    <3>1. req'[x] = [op |-> "audit", alert |-> a]
      BY <2>1 DEF ResolveAlert, IInv, TypeOK
    <3> QED BY <1>1, <1>2, <1>3, <3>1
  <2>2. CASE x # w
    BY <1>2, <1>3, <2>2 DEF ResolveAlert, IInv, TypeOK, ResolutionsUnderWay
  <2> QED BY <2>1, <2>2
<1> QED BY <1>4, <1>5, <1>6, <1>7, <1>8, <1>9 DEF IInv, RowsAgree

LEMMA AuditPreserves ==
  ASSUME IInv, NEW w \in Worker, AuditResolve(w), TypeOK'
  PROVE  IInv'
<1>1. /\ req[w].alert \in Id /\ req[w].alert <= lastId /\ req[w].alert \notin Open
  BY ResolvingType DEF AuditResolve, IInv, ResolutionsUnderWay
<1>2. /\ UNCHANGED <<alerts, proposals, approvals, lastId>>
      /\ resolutions' = resolutions \cup {req[w].alert}
  BY DEF AuditResolve, tables
<1>3. /\ AlertIds' = AlertIds /\ Open' = Open /\ ProposalIds' = ProposalIds
      /\ Pending' = Pending /\ Approved' = Approved
  BY <1>2 DEF AlertIds, Open, ProposalIds, Pending, Approved
<1>4. FreshIds'
  BY <1>1, <1>2 DEF IInv, FreshIds, TypeOK
<1>5. RowsAgree'
  BY <1>2, <1>3 DEF IInv, RowsAgree, OneOpenAlertPerDevice, OpenAlertIsActionable,
              ProposalHasAlert
<1>6. ApprovedExactlyOnce' /\ ResolutionStands'
  BY <1>1, <1>2, <1>3 DEF IInv, ApprovedExactlyOnce, ResolutionStands
<1>7. ResolutionsUnderWay'
  BY <1>2, <1>3 DEF AuditResolve, Done, IInv, TypeOK, ResolutionsUnderWay, IdleRequest
<1> QED BY <1>4, <1>5, <1>6, <1>7 DEF IInv

LEMMA WorkerPreserves ==
  ASSUME IInv, NEW w \in Worker, WorkerStep(w), TypeOK'
  PROVE  IInv'
<1>0. \A x \in Worker :
        /\ req[x].op \in {"resolve", "audit"} => req[x].alert <= lastId
        /\ req[x].op = "audit" => req[x].alert \in Id /\ req[x].alert \notin Open
  BY ResolvingType DEF IInv, ResolutionsUnderWay
<1>1. ASSUME NEW d \in Device, BeginIngest(w, d) PROVE IInv'
  <2>1. req'[w].op = "ingest" /\ \A x \in Worker : x # w => req'[x] = req[x]
    BY <1>1 DEF BeginIngest, IInv, TypeOK
  <2>2. UNCHANGED <<lastId, alerts, proposals, ledger>>
    BY <1>1 DEF BeginIngest, tables
  <2> QED BY <1>0, <2>1, <2>2, QuietPreserves
<1>2. ASSUME IngestDuplicate(w) \/ IngestRefused(w) \/ Crash(w) PROVE IInv'
  <2>1. req'[w].op = "idle" /\ \A x \in Worker : x # w => req'[x] = req[x]
    BY <1>2 DEF IngestDuplicate, IngestRefused, Crash, Done, IdleRequest, IInv, TypeOK
  <2>2. UNCHANGED <<lastId, alerts, proposals, ledger>>
    BY <1>2 DEF IngestDuplicate, IngestRefused, Crash, tables
  <2> QED BY <1>0, <2>1, <2>2, QuietPreserves
<1>3. ASSUME IngestCommit(w) PROVE IInv'
  <2> DEFINE i == lastId + 1
  <2>1. Ingesting(w) /\ Done(w) /\ lastId' = i /\ UNCHANGED ledger /\ i \in Id
    BY <1>3 DEF IngestCommit, IInv, TypeOK
  <2>2. /\ req[w].device \in Device /\ req[w].kind \in AnyKind
        /\ req[w].since \in Nat
    BY <2>1, IngestingType DEF IInv
  <2>3. PICK now \in req[w].since..clock :
          IF req[w].kind = "normal" THEN UNCHANGED <<alerts, proposals>>
          ELSE RaiseAnomaly(i, req[w].device, req[w].kind, now)
    BY <1>3 DEF IngestCommit
  <2>4. CASE req[w].kind = "normal"
    <3>1. req'[w].op = "idle" /\ \A x \in Worker : x # w => req'[x] = req[x]
      BY <2>1 DEF Done, IdleRequest, IInv, TypeOK
    <3>2. UNCHANGED <<alerts, proposals>>
      BY <2>3, <2>4
    <3> QED BY <1>0, <2>1, <3>1, <3>2, QuietPreserves
  <2>5. CASE req[w].kind # "normal"
    <3>1. RaiseAnomaly(i, req[w].device, req[w].kind, now)
      BY <2>3, <2>5
    <3>2. now \in Time
      BY <2>2, ConstantsAssumption DEF IInv, TypeOK
    <3>3. CASE \E gone, old : NewAlert(i, req[w].device, gone, old)
      BY <2>1, <2>2, <3>3, NewAlertPreserves
    <3>4. CASE Refreshed(req[w].device)
      BY <2>1, <2>2, <3>4, RefreshPreserves
    <3> QED BY <2>1, <2>2, <3>1, <3>2, <3>3, <3>4, RaiseEffect
  <2> QED BY <2>4, <2>5
<1>4. ASSUME NEW a \in Id, BeginResolve(w, a) PROVE IInv'
  <2>1. /\ req'[w] = [op |-> "resolve", alert |-> a]
        /\ \A x \in Worker : x # w => req'[x] = req[x]
    BY <1>4 DEF BeginResolve, IInv, TypeOK
  <2>2. a <= lastId
    BY <1>4 DEF BeginResolve, AlertIds, IInv, FreshIds, TypeOK
  <2>3. UNCHANGED <<lastId, alerts, proposals, ledger>>
    BY <1>4 DEF BeginResolve, tables
  <2> QED BY <1>0, <2>1, <2>2, <2>3, QuietPreserves
<1>5. ASSUME ResolveAlert(w) PROVE IInv'
  BY <1>5, ResolvePreserves
<1>6. ASSUME AuditResolve(w) PROVE IInv'
  BY <1>6, AuditPreserves
<1> QED BY <1>1, <1>2, <1>3, <1>4, <1>5, <1>6 DEF WorkerStep

LEMMA ResetPreserves == ASSUME IInv, ResetDemo, TypeOK' PROVE IInv'
<1>1. /\ AlertIds' = {} /\ Open' = {} /\ ProposalIds' = {}
      /\ Pending' = {} /\ Approved' = {}
  BY DEF ResetDemo, Cleared, AlertIds, Open, ProposalIds, Pending, Approved
<1>2. UNCHANGED <<lastId, approvals, resolutions, req>>
  BY DEF ResetDemo, ledger
<1>3. FreshIds'
  BY <1>2 DEF IInv, FreshIds, ResetDemo, Cleared
<1>4. RowsAgree' /\ ResolutionStands'
  BY <1>1 DEF RowsAgree, OneOpenAlertPerDevice, OpenAlertIsActionable, ProposalHasAlert,
              ResolutionStands
<1>5. ApprovedExactlyOnce' /\ ResolutionsUnderWay'
  BY <1>1, <1>2 DEF IInv, ApprovedExactlyOnce, ResolutionsUnderWay
<1> QED BY <1>3, <1>4, <1>5 DEF IInv

LEMMA InitInv == ASSUME Init PROVE IInv
<1>1. AlertIds = {} /\ Open = {} /\ ProposalIds = {} /\ Pending = {} /\ Approved = {}
  BY DEF Init, AlertIds, Open, ProposalIds, Pending, Approved
<1>2. FreshIds
  BY DEF Init, FreshIds
<1>3. RowsAgree /\ ResolutionStands /\ ApprovedExactlyOnce
  BY <1>1 DEF RowsAgree, OneOpenAlertPerDevice, OpenAlertIsActionable, ProposalHasAlert,
              ResolutionStands, ApprovedExactlyOnce, Init
<1>4. ResolutionsUnderWay
  BY DEF Init, ResolutionsUnderWay, IdleRequest
<1> QED BY <1>2, <1>3, <1>4, InitType DEF IInv

LEMMA NextInv == ASSUME IInv, [Next]_vars PROVE IInv'
<1>0. TypeOK'
  BY NextType DEF IInv
<1>q. ASSUME UNCHANGED <<lastId, alerts, proposals, ledger, req>> PROVE IInv'
  <2>1. \A x \in Worker :
          /\ req'[x].op \in {"resolve", "audit"} => req'[x].alert <= lastId
          /\ req'[x].op = "audit" => req'[x].alert \in Id /\ req'[x].alert \notin Open
    BY <1>q, ResolvingType DEF IInv, ResolutionsUnderWay
  <2> QED BY <1>0, <1>q, <2>1, QuietPreserves
<1>1. ASSUME NEW w \in Worker, WorkerStep(w) PROVE IInv'
  BY <1>0, <1>1, WorkerPreserves
<1>2. ASSUME NEW d \in Device, Register(d) PROVE IInv'
  BY <1>2, <1>q DEF Register, tables
<1>3. ASSUME NEW p \in Id, NEW by \in Actor, ApproveProposal(p, by) PROVE IInv'
  BY <1>0, <1>3, ApprovePreserves
<1>4. ASSUME ResetDemo PROVE IInv'
  BY <1>0, <1>4, ResetPreserves
<1>5. ASSUME RetentionPass PROVE IInv'
  BY <1>0, <1>5, RetentionPreserves
<1>6. ASSUME Tick PROVE IInv'
  BY <1>6, <1>q DEF Tick, tables
<1>7. ASSUME UNCHANGED vars PROVE IInv'
  BY <1>7, <1>q DEF vars, ledger
<1> QED BY <1>1, <1>2, <1>3, <1>4, <1>5, <1>6, <1>7 DEF Next

THEOREM Inductive == Spec => []IInv
BY InitInv, NextInv, PTL DEF Spec

(* Two concurrent anomalous samples of a device never open two alerts. *)
THEOREM OneOpenAlert == Spec => []OneOpenAlertPerDevice
<1>1. IInv => OneOpenAlertPerDevice
  BY DEF IInv, RowsAgree
<1> QED BY <1>1, Inductive, PTL

(* Every open alert has exactly one proposal that an operator can approve. *)
THEOREM OpenAlertsActionable == Spec => []OpenAlertIsActionable
<1>1. IInv => OpenAlertIsActionable
  BY DEF IInv, RowsAgree
<1> QED BY <1>1, Inductive, PTL

(* No proposal outlives its alert; an approved one's alert is closed. *)
THEOREM ProposalsHaveAlerts == Spec => []ProposalHasAlert
<1>1. IInv => ProposalHasAlert
  BY DEF IInv, RowsAgree
<1> QED BY <1>1, Inductive, PTL

(* A proposal's approval is recorded once, however often it is repeated. *)
THEOREM ApprovalRecordedOnce == Spec => []ApprovedExactlyOnce
<1>1. IInv => ApprovedExactlyOnce
  BY DEF IInv
<1> QED BY <1>1, Inductive, PTL

(* An alert whose manual resolution was audited stays closed. *)
THEOREM ResolutionsStand == Spec => []ResolutionStands
<1>1. IInv => ResolutionStands
  BY DEF IInv
<1> QED BY <1>1, Inductive, PTL

(* Alerts, proposals and the audited decisions agree (CoreStore.           *)
(* add_telemetry, approve_proposal, resolve_alert, retention and reset).   *)
THEOREM TablesAlwaysAgree == Spec => []TablesAgree
<1>1. IInv => TablesAgree
  BY DEF IInv, TablesAgree
<1> QED BY <1>1, Inductive, PTL

-----------------------------------------------------------------------------
(* What a step can do to alerts, proposals and recorded approvals *)

(* Nothing but closing or refreshing alerts. *)
Quiet ==
  /\ UNCHANGED <<proposals, approvals>>
  /\ AlertIds' = AlertIds /\ Open' \subseteq Open
  /\ \/ lastId' = lastId
     \/ lastId' = lastId + 1 /\ lastId' \in Id

Raise ==
  /\ lastId' = lastId + 1 /\ lastId' \in Id /\ UNCHANGED approvals
  /\ \E d \in Device : \E gone, old : NewAlert(lastId + 1, d, gone, old)

Approval(p) ==
  /\ p \in Pending /\ UNCHANGED lastId
  /\ AlertIds' = AlertIds /\ Open' \subseteq Open
  /\ ProposalIds' = ProposalIds
  /\ Pending' = Pending \ {p} /\ Approved' = Approved \cup {p}
  /\ \A q \in Id : q # p => proposals'[q] = proposals[q]
  /\ approvals' = [approvals EXCEPT ![p] = approvals[p] + 1]

Prune(gone, old) ==
  /\ gone \subseteq Approved /\ old \subseteq Unreferenced(ProposalIds \ gone)
  /\ UNCHANGED <<lastId, approvals>>
  /\ AlertIds' = AlertIds \ old /\ Open' = Open
  /\ ProposalIds' = ProposalIds \ gone
  /\ Pending' = Pending /\ Approved' = Approved \ gone
  /\ \A p \in ProposalIds' : proposals'[p] = proposals[p]

Emptied ==
  /\ ~Production /\ UNCHANGED <<lastId, approvals>>
  /\ AlertIds' = {} /\ Open' = {} /\ ProposalIds' = {}
  /\ Pending' = {} /\ Approved' = {}

LEMMA CommitEffect ==
  ASSUME IInv, NEW w \in Worker, IngestCommit(w)
  PROVE  Quiet \/ Raise
<1> DEFINE i == lastId + 1
           d == req[w].device
<1>1. Ingesting(w) /\ lastId' = i /\ UNCHANGED ledger /\ i \in Id
  <2>1. lastId \in 0..MaxId /\ lastId < MaxId
    BY DEF IngestCommit, IInv, TypeOK
  <2> QED BY <2>1, ConstantsAssumption DEF IngestCommit
<1>2. d \in Device /\ req[w].kind \in AnyKind /\ req[w].since \in Nat
  BY <1>1, IngestingType DEF IInv
<1>3. PICK now \in req[w].since..clock :
        IF req[w].kind = "normal" THEN UNCHANGED <<alerts, proposals>>
        ELSE RaiseAnomaly(i, d, req[w].kind, now)
  BY DEF IngestCommit
<1>4. now \in Time
  BY <1>2, ConstantsAssumption DEF IInv, TypeOK
<1>5. CASE req[w].kind = "normal"
  <2>1. UNCHANGED <<alerts, proposals>>
    BY <1>3, <1>5
  <2>2. AlertIds' = AlertIds /\ Open' = Open
    BY <2>1 DEF AlertIds, Open
  <2> QED BY <1>1, <2>1, <2>2 DEF Quiet, ledger
<1>6. CASE req[w].kind # "normal"
  <2>1. (\E gone, old : NewAlert(i, d, gone, old)) \/ Refreshed(d)
    BY <1>1, <1>2, <1>3, <1>4, <1>6, RaiseEffect
  <2>2. CASE Refreshed(d)
    BY <1>1, <2>2 DEF Refreshed, Quiet, ledger
  <2>3. CASE \E gone, old : NewAlert(i, d, gone, old)
    BY <1>1, <1>2, <2>3 DEF Raise, ledger
  <2> QED BY <2>1, <2>2, <2>3
<1> QED BY <1>5, <1>6

LEMMA StepEffect ==
  ASSUME IInv, [Next]_vars
  PROVE  \/ Quiet \/ Raise \/ Emptied
         \/ \E p \in Id : Approval(p)
         \/ \E gone, old : Prune(gone, old)
<1>0. TypeOK
  BY DEF IInv
<1>1. ASSUME UNCHANGED <<lastId, alerts, proposals, approvals>> PROVE Quiet
  BY <1>1 DEF Quiet, AlertIds, Open
<1>2. ASSUME NEW w \in Worker, WorkerStep(w) PROVE Quiet \/ Raise
  <2>1. CASE IngestCommit(w)
    BY <2>1, CommitEffect
  <2>2. CASE ResolveAlert(w)
    <3>1. AlertIds' = AlertIds /\ Open' \subseteq Open
      <4>1. CASE req[w].alert \in AlertIds
        BY <1>0, <2>2, <4>1, CloseSets DEF ResolveAlert
      <4>2. CASE req[w].alert \notin AlertIds
        BY <2>2, <4>2 DEF ResolveAlert, AlertIds, Open
      <4> QED BY <4>1, <4>2
    <3> QED BY <2>2, <3>1 DEF ResolveAlert, Quiet, ledger
  <2>3. CASE \/ \E d \in Device : BeginIngest(w, d)
             \/ IngestDuplicate(w) \/ IngestRefused(w)
             \/ \E a \in Id : BeginResolve(w, a)
             \/ AuditResolve(w) \/ Crash(w)
    BY <1>1, <2>3 DEF BeginIngest, IngestDuplicate, IngestRefused, BeginResolve,
                      AuditResolve, Crash, tables, ledger
  <2> QED BY <1>2, <2>1, <2>2, <2>3 DEF WorkerStep
<1>3. ASSUME NEW p \in Id, NEW by \in Actor, ApproveProposal(p, by) PROVE Approval(p)
  <2> DEFINE a == proposals[p].alert
  <2>1. p \in Pending /\ p \in ProposalIds /\ a \in AlertIds
    BY <1>3 DEF ApproveProposal, Pending
  <2>2. proposals[p] \in ProposalRow
    BY <1>0, <2>1 DEF ProposalIds, TypeOK
  <2>3. AlertIds' = AlertIds /\ Open' \subseteq Open
    BY <1>0, <1>3, <2>1, CloseSets DEF ApproveProposal
  <2>4. /\ proposals'[p] \in ProposalRow /\ proposals'[p].status = "approved"
        /\ \A q \in Id : q # p => proposals'[q] = proposals[q]
    <3>1. proposals' = [proposals EXCEPT ![p] =
                          [proposals[p] EXCEPT !.status = "approved", !.by = by]]
      BY <1>0, <1>3 DEF ApproveProposal, ApproveRow, TypeOK
    <3>2. [proposals[p] EXCEPT !.status = "approved", !.by = by] \in ProposalRow
      BY <2>2 DEF ProposalRow
    <3> QED BY <1>0, <2>2, <3>1, <3>2 DEF TypeOK, ProposalRow
  <2>5. /\ ProposalIds' = ProposalIds /\ Pending' = Pending \ {p}
        /\ Approved' = Approved \cup {p}
    BY <2>1, <2>4, NoRowAssumption DEF ProposalIds, Pending, Approved
  <2>6. approvals' = [approvals EXCEPT ![p] = approvals[p] + 1] /\ UNCHANGED lastId
    BY <1>3 DEF ApproveProposal
  <2> QED BY <2>1, <2>3, <2>4, <2>5, <2>6 DEF Approval
<1>4. ASSUME RetentionPass PROVE \E gone, old : Prune(gone, old)
  <2>0. PICK gone \in SUBSET Approved : \E old \in SUBSET Unreferenced(ProposalIds \ gone) :
          alerts' = Cleared(alerts, old) /\ proposals' = Cleared(proposals, gone)
    BY <1>4, RetentionPrunes
  <2>1. PICK old \in SUBSET Unreferenced(ProposalIds \ gone) :
          alerts' = Cleared(alerts, old) /\ proposals' = Cleared(proposals, gone)
    BY <2>0
  <2>2. UNCHANGED <<lastId, approvals>>
    BY <1>4 DEF RetentionPass, ledger
  <2>3. Prune(gone, old)
    BY <1>0, <2>1, <2>2, PruneSets DEF Prune
  <2> QED BY <2>3
<1>5. ASSUME ResetDemo PROVE Emptied
  BY <1>5 DEF ResetDemo, Emptied, Cleared, AlertIds, Open, ProposalIds, Pending,
              Approved, ledger
<1>6. CASE \/ \E d \in Device : Register(d)
           \/ Tick \/ UNCHANGED vars
  BY <1>1, <1>6 DEF Register, Tick, vars, tables, ledger
<1> QED BY <1>2, <1>3, <1>4, <1>5, <1>6 DEF Next

(* In production a proposal stops pending only by an approval that is      *)
(* recorded, and an open alert is never deleted, for every quota and       *)
(* whatever is ingested, rotated, retained or lost in a crash.             *)
THEOREM WaitingWorkStays == Spec => WaitingWorkIsKept
<1> DEFINE Kept == Production =>
             /\ \A p \in Pending : \/ proposals'[p] = proposals[p]
                                    \/ /\ p \in Approved'
                                       /\ approvals'[p] = approvals[p] + 1
             /\ \A a \in Open : alerts'[a] # NoRow
<1>1. ASSUME IInv, [Next]_vars PROVE Kept
  <2>1. Open \subseteq AlertIds /\ Pending \subseteq ProposalIds /\ Pending \cap Approved = {}
    BY DEF Open, Pending, Approved
  <2>2. \A a \in AlertIds' : alerts'[a] # NoRow
    BY DEF AlertIds
  <2>3. CASE Quiet
    BY <2>1, <2>2, <2>3 DEF Quiet
  <2>4. CASE Raise
    <3>0. PICK d \in Device : \E gone, old : NewAlert(lastId + 1, d, gone, old)
      BY <2>4 DEF Raise
    <3>1. PICK gone, old : NewAlert(lastId + 1, d, gone, old)
      BY <3>0
    <3>2. gone \subseteq Approved /\ old \subseteq Unreferenced(ProposalIds \ gone)
      BY <3>1 DEF NewAlert, Earliest
    <3>3. Open \subseteq AlertIds'
      BY <3>1, <3>2 DEF NewAlert, Unreferenced, Open
    <3>4. \A p \in Pending : p \in ProposalIds' /\ p # lastId + 1
      BY <1>1, <2>1, <3>1, <3>2 DEF NewAlert, ProposalIds, IInv, FreshIds, TypeOK
    <3>5. \A p \in Pending : proposals'[p] = proposals[p]
      BY <3>1, <3>4 DEF NewAlert
    <3> QED BY <2>2, <3>3, <3>5
  <2>5. ASSUME NEW q \in Id, Approval(q) PROVE Kept
    <3>1. /\ AlertIds' = AlertIds /\ Approved' = Approved \cup {q}
          /\ \A p \in Id : p # q => proposals'[p] = proposals[p]
          /\ approvals'[q] = approvals[q] + 1
      BY <1>1, <2>5 DEF Approval, IInv, TypeOK
    <3> QED BY <2>1, <2>2, <3>1 DEF Pending, ProposalIds
  <2>6. ASSUME NEW gone, NEW old, Prune(gone, old) PROVE Kept
    <3>1. Pending \subseteq ProposalIds' /\ Open \subseteq AlertIds'
      BY <2>1, <2>6 DEF Prune, Unreferenced, Open
    <3> QED BY <2>2, <2>6, <3>1 DEF Prune
  <2>7. CASE Emptied
    BY <2>7 DEF Emptied
  <2> QED BY <1>1, <2>3, <2>4, <2>5, <2>6, <2>7, StepEffect
<1>2. ASSUME IInv, [Next]_vars PROVE [Kept]_vars
  BY <1>1, <1>2
<1> QED BY <1>2, Inductive, PTL DEF Spec, WaitingWorkIsKept

-----------------------------------------------------------------------------
(* The approval gate *)

LEMMA GateTypes ==
  ASSUME IInv
  PROVE  /\ lastId \in Nat
         /\ Pending \cup Approved = ProposalIds /\ Pending \cap Approved = {}
         /\ ProposalIds \subseteq Id
         /\ \A p \in ProposalIds : p <= lastId
         /\ lastId + 1 \notin ProposalIds
         /\ GateState \in [Id -> Gate!State]
<1>1. lastId \in Nat
  BY ConstantsAssumption DEF IInv, TypeOK
<1>2. \A p \in ProposalIds : p \in Id /\ p <= lastId
  BY <1>1 DEF ProposalIds, IInv, FreshIds
<1>3. Pending \cup Approved = ProposalIds /\ Pending \cap Approved = {}
  <2>1. \A p \in ProposalIds : proposals[p].status \in {"pending", "approved"}
    BY DEF ProposalIds, IInv, TypeOK, ProposalRow
  <2> QED BY <2>1 DEF Pending, Approved
<1>4. GateState \in [Id -> Gate!State]
  BY DEF GateState, Gate!State
<1> QED BY <1>1, <1>2, <1>3, <1>4

LEMMA GateStep == ASSUME IInv, IInv', [Next]_vars PROVE [Gate!Next]_(Gate!gateVars)
<1>0. /\ lastId \in Nat
      /\ Pending \cup Approved = ProposalIds /\ Pending \cap Approved = {}
      /\ ProposalIds \subseteq Id
      /\ \A p \in ProposalIds : p <= lastId
      /\ lastId + 1 \notin ProposalIds
      /\ GateState' \in [Id -> Gate!State]
  <2>1. GateState' \in [Id -> Gate!State]
    BY DEF GateState, Gate!State
  <2> QED BY <2>1, GateTypes
<1>1. \A j \in Id : /\ GateState[j] = IF j \in Pending THEN "pending"
                                      ELSE IF j \in Approved THEN "approved"
                                      ELSE IF j <= lastId THEN "gone" ELSE "unused"
                    /\ GateState'[j] = IF j \in Pending' THEN "pending"
                                       ELSE IF j \in Approved' THEN "approved"
                                       ELSE IF j <= lastId' THEN "gone" ELSE "unused"
  BY DEF GateState
<1>2. CASE Quiet
  <2>1. Pending' = Pending /\ Approved' = Approved /\ UNCHANGED approvals
    BY <1>2 DEF Quiet, Pending, Approved, ProposalIds
  <2>2. CASE lastId' = lastId
    BY <2>1, <2>2 DEF GateState, Gate!gateVars
  <2>3. CASE lastId' = lastId + 1 /\ lastId' \in Id
    <3>1. GateState[lastId + 1] = "unused" /\ GateState'[lastId + 1] = "gone"
      BY <1>0, <1>1, <2>1, <2>3
    <3>2. ASSUME NEW j \in Id \ {lastId + 1} PROVE GateState'[j] = GateState[j]
      BY <1>0, <1>1, <2>1, <2>3, <3>2
    <3>3. Gate!Use(lastId + 1)
      BY <1>0, <2>1, <3>1, <3>2 DEF Gate!Use, Gate!KeptOrForgotten
    <3> QED BY <2>3, <3>3 DEF Gate!Next
  <2> QED BY <1>2, <2>2, <2>3 DEF Quiet
<1>3. CASE Raise
  <2>1. PICK d \in Device : \E gone, old : NewAlert(lastId + 1, d, gone, old)
    BY <1>3 DEF Raise
  <2>2. PICK gone, old : NewAlert(lastId + 1, d, gone, old)
    BY <2>1
  <2>3. /\ gone \subseteq Approved
        /\ Pending' = Pending \cup {lastId + 1} /\ Approved' = Approved \ gone
    BY <2>2 DEF NewAlert, Earliest
  <2>4. lastId' = lastId + 1 /\ lastId' \in Id /\ UNCHANGED approvals
    BY <1>3 DEF Raise
  <2>5. GateState[lastId + 1] = "unused" /\ GateState'[lastId + 1] = "pending"
    BY <1>0, <1>1, <2>3, <2>4
  <2>6. ASSUME NEW j \in Id \ {lastId + 1} PROVE Gate!KeptOrForgotten(j)
    BY <1>0, <1>1, <2>3, <2>4, <2>6 DEF Gate!KeptOrForgotten
  <2>7. Gate!Use(lastId + 1)
    BY <1>0, <2>4, <2>5, <2>6 DEF Gate!Use
  <2> QED BY <2>4, <2>7 DEF Gate!Next
<1>4. ASSUME NEW p \in Id, Approval(p) PROVE Gate!Next
  <2>1. /\ p \in Pending /\ lastId' = lastId
        /\ Pending' = Pending \ {p} /\ Approved' = Approved \cup {p}
        /\ approvals' = [approvals EXCEPT ![p] = approvals[p] + 1]
    BY <1>4 DEF Approval
  <2>2. GateState[p] = "pending" /\ GateState'[p] = "approved"
    BY <1>1, <2>1
  <2>3. ASSUME NEW j \in Id \ {p} PROVE GateState'[j] = GateState[j]
    BY <1>1, <2>1, <2>3
  <2>4. GateState' = [GateState EXCEPT ![p] = "approved"]
    <3>1. GateState = [j \in Id |-> GateState[j]] /\ GateState' = [j \in Id |-> GateState'[j]]
      BY DEF GateState
    <3> QED BY <2>2, <2>3, <3>1
  <2>5. Gate!Decide(p)
    BY <2>1, <2>2, <2>4 DEF Gate!Decide
  <2> QED BY <2>5 DEF Gate!Next
<1>5. ASSUME NEW gone, NEW old, Prune(gone, old) PROVE Gate!Next
  <2>1. /\ gone \subseteq Approved /\ lastId' = lastId /\ UNCHANGED approvals
        /\ Pending' = Pending /\ Approved' = Approved \ gone
    BY <1>5 DEF Prune
  <2>2. ASSUME NEW j \in Id PROVE Gate!KeptOrForgotten(j)
    BY <1>0, <1>1, <2>1, <2>2 DEF Gate!KeptOrForgotten
  <2>3. Gate!Forget
    BY <1>0, <2>1, <2>2 DEF Gate!Forget
  <2> QED BY <2>3 DEF Gate!Next
<1>6. CASE Emptied
  <2>1. /\ ~Production /\ lastId' = lastId /\ UNCHANGED approvals
        /\ Pending' = {} /\ Approved' = {}
    BY <1>6 DEF Emptied
  <2>2. ASSUME NEW j \in Id
        PROVE  GateState'[j] = IF GateState[j] = "unused" THEN "unused" ELSE "gone"
    BY <1>0, <1>1, <2>1, <2>2
  <2>3. GateState' = [j \in Id |-> IF GateState[j] = "unused" THEN "unused" ELSE "gone"]
    <3>1. GateState' = [j \in Id |-> GateState'[j]]
      BY DEF GateState
    <3> QED BY <2>2, <3>1
  <2>4. Gate!Wipe
    BY <2>1, <2>3 DEF Gate!Wipe
  <2> QED BY <2>4 DEF Gate!Next
<1> QED BY <1>2, <1>3, <1>4, <1>5, <1>6, StepEffect

(* The tables implement the approval gate: a proposal waits until a person *)
(* decides it, is decided once, is forgotten only after that, and no id    *)
(* returns, for any number of devices, workers and rows.                   *)
THEOREM GateImplemented == Spec => GateSpec
<1>1. ASSUME Init PROVE Gate!Init
  <2>1. Pending = {} /\ Approved = {} /\ lastId = 0
    BY <1>1 DEF Init, Pending, Approved, ProposalIds
  <2>2. GateState = [p \in Id |-> "unused"]
    BY <2>1, ConstantsAssumption DEF GateState
  <2> QED BY <1>1, <2>2 DEF Init, Gate!Init
<1> QED BY <1>1, GateStep, Inductive, PTL DEF Spec, GateSpec, Gate!Spec

-----------------------------------------------------------------------------
(* Ceilings and quotas *)

LEMMA IdsFinite ==
  ASSUME NEW S \in SUBSET Id
  PROVE  IsFiniteSet(S) /\ Cardinality(S) \in Nat
<1>1. IsFiniteSet(1..MaxId)
  BY ConstantsAssumption, FS_Interval
<1> QED BY <1>1, FS_Subset, FS_CardinalityType

LEMMA SmallerSet ==
  ASSUME NEW T \in SUBSET Id, NEW S \in SUBSET T
  PROVE  /\ Cardinality(S) \in Nat /\ Cardinality(T) \in Nat
         /\ Cardinality(S) <= Cardinality(T)
<1>1. IsFiniteSet(T)
  BY IdsFinite
<1> QED BY <1>1, FS_Subset, FS_CardinalityType

LEMMA TableSets ==
  /\ AlertIds \in SUBSET Id /\ ProposalIds \in SUBSET Id /\ Stored \in SUBSET Id
  /\ Open \in SUBSET AlertIds /\ Pending \in SUBSET ProposalIds
  /\ Approved \in SUBSET ProposalIds
BY DEF AlertIds, ProposalIds, Stored, Open, Pending, Approved

LEMMA SurplusType ==
  ASSUME NEW n \in Nat, NEW m \in Nat
  PROVE  /\ Surplus(n, m) \in Nat
         /\ n <= m => Surplus(n, m) \in {0, 1} /\ (Surplus(n, m) = 1 => n = m)
         /\ m > 0 => n - Surplus(n, m) + 1 <= m
BY DEF Surplus

LEMMA OneMore ==
  ASSUME NEW S \in SUBSET Id, NEW i \in Id
  PROVE  /\ Cardinality(S) \in Nat /\ Cardinality(S \cup {i}) \in Nat
         /\ Cardinality(S \cup {i}) <= Cardinality(S) + 1
<1>1. IsFiniteSet(S) /\ Cardinality(S) \in Nat
  BY IdsFinite
<1>2. Cardinality(S \cup {i}) \in {Cardinality(S), Cardinality(S) + 1}
  BY <1>1, FS_AddElement
<1> QED BY <1>1, <1>2

(* Taking out as many rows as Surplus says leaves room for one more. *)
LEMMA RoomForOne ==
  ASSUME NEW S \in SUBSET Id, NEW out \in SUBSET S, NEW m \in Nat, m > 0,
         NEW i \in Id, Cardinality(out) = Surplus(Cardinality(S), m)
  PROVE  Cardinality((S \ out) \cup {i}) <= m
<1> DEFINE D == S \ out
<1>1. /\ IsFiniteSet(S) /\ IsFiniteSet(out)
      /\ Cardinality(S) \in Nat /\ Cardinality(out) \in Nat
      /\ D \in SUBSET Id
  BY IdsFinite
<1>2. Cardinality(D) = Cardinality(S) - Cardinality(out)
  <2>1. S \cap out = out
    OBVIOUS
  <2> QED BY <1>1, <2>1, FS_Difference
<1> HIDE DEF D
<1>3. Cardinality(D \cup {i}) \in Nat /\ Cardinality(D \cup {i}) <= Cardinality(D) + 1
  BY <1>1, OneMore
<1>4. Cardinality(S) - Cardinality(out) + 1 <= m
  BY <1>1, SurplusType
<1> QED BY <1>1, <1>2, <1>3, <1>4 DEF D

LEMMA CeilingStep ==
  ASSUME IInv, AnomaliesWithinCeilings, [Next]_vars
  PROVE  AnomaliesWithinCeilings'
<1> USE ConstantsAssumption
<1>1. ASSUME Open' \subseteq Open, Pending' \subseteq Pending,
             AlertIds' \subseteq AlertIds, ProposalIds' \subseteq ProposalIds
      PROVE  AnomaliesWithinCeilings'
  <2>1. ASSUME NEW T \in SUBSET Id, NEW S \in SUBSET T, NEW m \in Nat,
               Cardinality(T) <= m
        PROVE  Cardinality(S) <= m
    BY <2>1, SmallerSet
  <2>2. Open \in SUBSET Id /\ Pending \in SUBSET Id
    BY TableSets
  <2> QED BY <1>1, <2>1, <2>2, TableSets DEF AnomaliesWithinCeilings
<1>2. CASE Quiet
  BY <1>1, <1>2 DEF Quiet, Pending, ProposalIds
<1>3. CASE Raise
  <2> DEFINE i == lastId + 1
  <2>1. PICK d \in Device : \E gone, old : NewAlert(i, d, gone, old)
    BY <1>3 DEF Raise
  <2>2. PICK gone, old : NewAlert(i, d, gone, old)
    BY <2>1
  <2>3. i \in Id
    BY <1>3 DEF Raise
  <2>4. /\ gone \in SUBSET ProposalIds
        /\ Cardinality(gone) = Surplus(Cardinality(ProposalIds), ProposalMax)
        /\ old \in SUBSET AlertIds
        /\ Cardinality(old) = Surplus(Cardinality(AlertIds), AlertMax)
    BY <2>2, TableSets DEF NewAlert, Earliest, Unreferenced
  <2>5. Cardinality(Open) < ActiveMax /\ Cardinality(Pending) < ActiveMax
    BY <2>2 DEF NewAlert, ActiveRoom
  <2>6. /\ Cardinality(Open) \in Nat /\ Cardinality(Pending) \in Nat
        /\ ActiveMax > 0 /\ ProposalMax > 0 /\ AlertMax > 0
    BY <2>5, TableSets, IdsFinite
  <2>7. /\ AlertIds' = (AlertIds \ old) \cup {i} /\ Open' = Open \cup {i}
        /\ ProposalIds' = (ProposalIds \ gone) \cup {i} /\ Pending' = Pending \cup {i}
    BY <2>2 DEF NewAlert
  <2> HIDE DEF i
  <2>8. Cardinality(Open') <= ActiveMax /\ Cardinality(Pending') <= ActiveMax
    <3>1. /\ Cardinality(Open \cup {i}) \in Nat /\ Cardinality(Pending \cup {i}) \in Nat
          /\ Cardinality(Open \cup {i}) <= Cardinality(Open) + 1
          /\ Cardinality(Pending \cup {i}) <= Cardinality(Pending) + 1
      BY <2>3, TableSets, OneMore
    <3> QED BY <2>5, <2>6, <2>7, <3>1
  <2>9. Cardinality(AlertIds') <= AlertMax /\ Cardinality(ProposalIds') <= ProposalMax
    BY <2>3, <2>4, <2>6, <2>7, TableSets, RoomForOne
  <2> QED BY <2>8, <2>9 DEF AnomaliesWithinCeilings
<1>4. ASSUME NEW p \in Id, Approval(p) PROVE AnomaliesWithinCeilings'
  BY <1>1, <1>4 DEF Approval
<1>5. ASSUME NEW gone, NEW old, Prune(gone, old) PROVE AnomaliesWithinCeilings'
  BY <1>1, <1>5 DEF Prune
<1>6. CASE Emptied
  BY <1>1, <1>6 DEF Emptied
<1> QED BY <1>2, <1>3, <1>4, <1>5, <1>6, StepEffect

(* A set of naturals has a least element.                                  *)
LEMMA LeastExists ==
  ASSUME NEW T \in SUBSET Nat, T # {}
  PROVE  \E m \in T : \A k \in T : m <= k
<1>1. IsWellFoundedOn(OpToRel(<, Nat), Nat)
  BY NatLessThanWellFounded
<1>2. PICK m \in T : \A k \in T : <<k, m>> \notin OpToRel(<, Nat)
  BY <1>1, WFMin
<1>3. \A k \in T : ~(k < m)
  BY <1>2 DEF OpToRel
<1> QED BY <1>3

(* ORDER BY key LIMIT n finds no row, or one if there is one. *)
LEMMA EarliestExists ==
  ASSUME NEW rows, NEW key, \A x \in rows : key[x] \in Nat,
         NEW n \in {0, 1}, n = 1 => rows # {}
  PROVE  Earliest(rows, key, n) # {}
<1>1. CASE n = 0
  <2>1. {} \in Earliest(rows, key, n)
    BY <1>1, FS_EmptySet DEF Earliest
  <2> QED BY <2>1
<1>2. CASE n = 1
  <2> DEFINE T == {k \in Nat : \E x \in rows : key[x] = k}
  <2>1. T \in SUBSET Nat /\ T # {} /\ \A x \in rows : key[x] \in T
    BY <1>2
  <2>2. PICK m \in T : \A k \in T : m <= k
    <3> HIDE DEF T
    <3> QED BY <2>1, LeastExists
  <2>3. PICK x \in rows : key[x] = m
    OBVIOUS
  <2>4. {x} \in SUBSET rows /\ \A y \in rows : key[x] <= key[y]
    BY <2>1, <2>2, <2>3
  <2>5. Cardinality({x}) = n
    BY <1>2, FS_Singleton
  <2>6. {x} \in Earliest(rows, key, n)
    <3> HIDE DEF T
    <3> QED BY <2>4, <2>5 DEF Earliest
  <2> QED BY <2>6
<1> QED BY <1>1, <1>2

(* No more alerts are referenced than there are proposals. *)
LEMMA FewReferenced ==
  ASSUME NEW keep \in SUBSET Id, NEW f
  PROVE  LET named == {a \in Id : \E p \in keep : f[p] = a}
         IN Cardinality(named) <= Cardinality(keep)
<1> DEFINE named == {a \in Id : \E p \in keep : f[p] = a}
           used == {p \in keep : f[p] \in Id}
           g == [p \in used |-> f[p]]
<1>1. g \in Surjection(used, named)
  BY DEF Surjection
<1>2. used \in SUBSET keep /\ named \in SUBSET Id
  OBVIOUS
<1> HIDE DEF g, used, named
<1>3. IsFiniteSet(used)
  BY <1>2, IdsFinite
<1>4. Cardinality(named) <= Cardinality(used)
  BY <1>1, <1>3, FS_Surjection
<1>5. /\ Cardinality(used) \in Nat /\ Cardinality(keep) \in Nat
      /\ Cardinality(used) <= Cardinality(keep)
  BY <1>2, SmallerSet
<1>6. Cardinality(named) \in Nat
  BY <1>2, IdsFinite
<1>7. Cardinality(named) <= Cardinality(keep)
  BY <1>4, <1>5, <1>6
<1> QED BY <1>7 DEF named

(* A device's first open alert finds a place: with the alert history full, *)
(* some alert is closed and referenced by no proposal that stays, for the  *)
(* proposals that stay are fewer than the alerts.                          *)
LEMMA SomeUnreferenced ==
  ASSUME IInv, NEW gone \in SUBSET Approved, Cardinality(ProposalIds \ gone) < AlertMax,
         Cardinality(AlertIds) = AlertMax
  PROVE  Unreferenced(ProposalIds \ gone) # {}
<1> DEFINE keep == ProposalIds \ gone
           f == [p \in Id |-> proposals[p].alert]
           named == {a \in Id : \E p \in keep : f[p] = a}
<1>1. ASSUME Unreferenced(keep) = {} PROVE AlertIds \subseteq named
  <2> SUFFICES ASSUME NEW a \in AlertIds PROVE a \in named
    OBVIOUS
  <2>1. a \in Id /\ alerts[a].status \in {"open", "resolved"}
    BY DEF AlertIds, IInv, TypeOK, AlertRow
  <2>2. CASE alerts[a].status = "resolved"
    BY <1>1, <2>1, <2>2 DEF Unreferenced, ProposalIds
  <2>3. CASE alerts[a].status = "open"
    <3>1. PICK p \in Pending : {q \in Pending : proposals[q].alert = a} = {p}
      BY <2>3 DEF Open, IInv, RowsAgree, OpenAlertIsActionable
    <3>2. p \in Pending /\ proposals[p].alert = a
      BY <3>1
    <3>3. p \in keep
      BY <3>2 DEF Pending, Approved
    <3> QED BY <2>1, <3>2, <3>3 DEF ProposalIds
  <2> QED BY <2>1, <2>2, <2>3
<1>2. keep \in SUBSET Id /\ named \in SUBSET Id
  BY TableSets
<1>3. Cardinality(named) <= Cardinality(keep)
  <2> HIDE DEF keep, f
  <2> QED BY <1>2, FewReferenced
<1>4. Cardinality(keep) < AlertMax
  OBVIOUS
<1> HIDE DEF keep, f, named
<1>5. ASSUME AlertIds \subseteq named PROVE FALSE
  <2>1. Cardinality(AlertIds) \in Nat /\ Cardinality(named) \in Nat
        /\ Cardinality(AlertIds) <= Cardinality(named)
    BY <1>2, <1>5, SmallerSet
  <2>2. Cardinality(keep) \in Nat
    BY <1>2, IdsFinite
  <2> QED BY <1>3, <1>4, <2>1, <2>2, ConstantsAssumption
<1> QED BY <1>1, <1>5 DEF keep

LEMMA RotationFindsRows ==
  ASSUME IInv, AnomaliesWithinCeilings, lastId < MaxId, NEW d \in Device,
         NEW a \in TargetAlert(lastId + 1, d), ActiveRoom(d, a)
  PROVE  /\ RotatedProposals(a) # {}
         /\ \A gone \in RotatedProposals(a) : RotatedAlerts(d, gone) # {}
<1> USE ConstantsAssumption
<1>1. /\ Cardinality(AlertIds) \in Nat /\ Cardinality(ProposalIds) \in Nat
      /\ Cardinality(AlertIds) <= AlertMax /\ Cardinality(ProposalIds) <= ProposalMax
  BY TableSets, IdsFinite DEF AnomaliesWithinCeilings
<1> DEFINE np == Surplus(Cardinality(ProposalIds), ProposalMax)
           na == Surplus(Cardinality(AlertIds), AlertMax)
<1>2. /\ np \in {0, 1} /\ na \in {0, 1}
      /\ np = 1 => Cardinality(ProposalIds) = ProposalMax
      /\ na = 1 => Cardinality(AlertIds) = AlertMax
  BY <1>1, SurplusType
<1>3. \A p \in Approved : ProposalCreated[p] \in Nat
  BY DEF Approved, ProposalCreated, ProposalIds, IInv, TypeOK, ProposalRow
<1>4. ASSUME NEW keep PROVE \A b \in Unreferenced(keep) : AlertCreated[b] \in Nat
  BY DEF Unreferenced, AlertCreated, AlertIds, IInv, TypeOK, AlertRow
<1>5. RotatedProposals(a) # {}
  <2>1. CASE PendingOf(a) # {}
    BY <2>1 DEF RotatedProposals
  <2>2. CASE PendingOf(a) = {}
    <3>1. Cardinality(Pending) < ActiveMax /\ Cardinality(Pending) \in Nat
      BY <2>2, TableSets, IdsFinite DEF ActiveRoom
    <3>2. Pending \cup Approved = ProposalIds
      BY GateTypes
    <3>3. np = 1 => Approved # {}
      BY <1>2, <3>1, <3>2
    <3> HIDE DEF np
    <3>4. Earliest(Approved, ProposalCreated, np) # {}
      BY <1>2, <1>3, <3>3, EarliestExists
    <3> QED BY <2>2, <3>4 DEF RotatedProposals, np
  <2> QED BY <2>1, <2>2
<1>6. ASSUME NEW gone \in RotatedProposals(a) PROVE RotatedAlerts(d, gone) # {}
  <2>1. CASE OpenOf(d) # {}
    BY <2>1 DEF RotatedAlerts
  <2>2. CASE OpenOf(d) = {}
    <3>1. a = lastId + 1 /\ a \in Id
      BY <2>2 DEF TargetAlert, IInv, TypeOK
    <3>2. PendingOf(a) = {}
      BY <3>1 DEF IInv, RowsAgree, ProposalHasAlert, PendingOf, Pending, FreshIds,
                  AlertIds, TypeOK
    <3>3. /\ gone \in SUBSET Approved /\ Cardinality(gone) = np
          /\ Cardinality(Pending) < ActiveMax
      BY <3>2 DEF RotatedProposals, Earliest, ActiveRoom
    <3>4. ProposalMax > 0 /\ ProposalMax <= AlertMax
      BY <3>3, TableSets, IdsFinite
    <3>5. Cardinality(ProposalIds \ gone) < AlertMax
      <4>1. /\ IsFiniteSet(ProposalIds) /\ IsFiniteSet(gone)
            /\ ProposalIds \cap gone = gone
        BY <3>3, TableSets, IdsFinite
      <4>2. Cardinality(ProposalIds \ gone) = Cardinality(ProposalIds) - np
        <5>1. Cardinality(ProposalIds \ gone)
                = Cardinality(ProposalIds) - Cardinality(ProposalIds \cap gone)
          BY <4>1, FS_Difference
        <5>2. Cardinality(ProposalIds \cap gone) = np
          BY <3>3, <4>1
        <5> HIDE DEF np
        <5> QED BY <5>1, <5>2
      <4>3. np \in Nat /\ Cardinality(ProposalIds) - np + 1 <= ProposalMax
        BY <1>1, <3>4, SurplusType
      <4> HIDE DEF np
      <4> QED BY <1>1, <3>4, <4>2, <4>3
    <3>6. na = 1 => Unreferenced(ProposalIds \ gone) # {}
      BY <1>2, <3>3, <3>5, SomeUnreferenced
    <3> HIDE DEF na
    <3>7. Earliest(Unreferenced(ProposalIds \ gone), AlertCreated, na) # {}
      BY <1>2, <1>4, <3>6, EarliestExists
    <3> QED BY <2>2, <3>7 DEF RotatedAlerts, na
  <2> QED BY <2>1, <2>2
<1> QED BY <1>5, <1>6

(* The ceilings on alerts and proposals hold, and a history at its ceiling *)
(* never refuses an anomaly that the active ceilings admit: rotation finds *)
(* a row to let go, whatever the ceilings are (_ensure_anomaly_capacity).  *)
THEOREM CeilingsAlwaysHold == Spec => []CeilingsHold
<1>1. ASSUME Init PROVE AnomaliesWithinCeilings
  <2>1. AlertIds = {} /\ Open = {} /\ ProposalIds = {} /\ Pending = {}
    BY <1>1 DEF Init, AlertIds, Open, ProposalIds, Pending
  <2> QED BY <2>1, FS_EmptySet, ConstantsAssumption DEF AnomaliesWithinCeilings
<1>2. Spec => []AnomaliesWithinCeilings
  BY <1>1, CeilingStep, Inductive, PTL DEF Spec
<1>3. ASSUME IInv, AnomaliesWithinCeilings PROVE CeilingsHold
  BY <1>3, RotationFindsRows DEF CeilingsHold, HistoryNeverBlocks
<1> QED BY <1>2, <1>3, Inductive, PTL

LEMMA DeviceLimitType == DeviceLimit \in Nat /\ DeviceLimit > 0
BY ConstantsAssumption DEF DeviceLimit

LEMMA TelemetryShrinks ==
  ASSUME TelemetrySound, Stored' \subseteq Stored,
         \A j \in Stored' : telemetry'[j] = telemetry[j]
  PROVE  TelemetrySound'
<1>1. SampleStoredOnce'
  BY DEF TelemetrySound, SampleStoredOnce
<1>2. Stored \in SUBSET Id
  BY TableSets
<1>3. ASSUME NEW d \in Device PROVE Cardinality(StoredOf(d)') <= DeviceLimit
  <2>1. StoredOf(d)' \subseteq StoredOf(d) /\ StoredOf(d) \in SUBSET Id
    BY <1>2 DEF StoredOf
  <2>2. /\ Cardinality(StoredOf(d)') \in Nat /\ Cardinality(StoredOf(d)) \in Nat
        /\ Cardinality(StoredOf(d)') <= Cardinality(StoredOf(d))
    BY <2>1, SmallerSet
  <2>3. Cardinality(StoredOf(d)) <= DeviceLimit
    BY DEF TelemetrySound, TelemetryWithinQuota
  <2> QED BY <2>2, <2>3, DeviceLimitType
<1>4. Cardinality(Stored') <= TelemetryMax
  <2>1. /\ Cardinality(Stored') \in Nat /\ Cardinality(Stored) \in Nat
        /\ Cardinality(Stored') <= Cardinality(Stored)
    BY <1>2, SmallerSet
  <2> QED BY <2>1, ConstantsAssumption DEF TelemetrySound, TelemetryWithinQuota
<1> QED BY <1>1, <1>3, <1>4 DEF TelemetrySound, TelemetryWithinQuota, DeviceLimit

LEMMA CommitTelemetry ==
  ASSUME TypeOK, TelemetrySound, NEW w \in Worker, IngestCommit(w)
  PROVE  TelemetrySound'
<1> DEFINE i == lastId + 1
<1>1. i \in Id
  BY ConstantsAssumption DEF IngestCommit, TypeOK
<1>2. Twin(req[w]) = {}
  BY DEF IngestCommit
<1>d. PICK d \in Device : d = req[w].device
  BY IngestingType DEF IngestCommit
<1>3. PICK out \in Evictions(d), now \in req[w].since..clock :
        /\ Cardinality(Stored \ out) < TelemetryMax
        /\ telemetry' = [Cleared(telemetry, out) EXCEPT ![i] =
             [device |-> d, kind |-> req[w].kind, sample |-> req[w].sample,
              stamp |-> req[w].stamp,
              recorded |-> IF req[w].sample = NoSample THEN now ELSE req[w].stamp]]
  BY <1>d DEF IngestCommit
<1> DEFINE row == [device |-> d, kind |-> req[w].kind, sample |-> req[w].sample,
                   stamp |-> req[w].stamp,
                   recorded |-> IF req[w].sample = NoSample THEN now ELSE req[w].stamp]
<1>4. row # NoRow
  <2>1. req[w] \in IngestRequest
    BY IngestingType DEF IngestCommit
  <2>2. now \in Time
    BY <2>1, ConstantsAssumption DEF IngestRequest, TypeOK
  <2>3. row \in TelemetryRow
    BY <2>1, <2>2, ConstantsAssumption DEF IngestRequest, TelemetryRow
  <2> QED BY <2>3, NoRowAssumption
<1>5. row.device = d /\ row.sample = req[w].sample
  OBVIOUS
<1> HIDE DEF row
<1>6. /\ telemetry'[i] = row
      /\ \A j \in Id : j # i => telemetry'[j] = IF j \in out THEN NoRow ELSE telemetry[j]
  BY <1>1, <1>3 DEF Cleared, row
<1> HIDE DEF i
<1>7. /\ Stored' = (Stored \ out) \cup {i}
      /\ \A j \in Stored' : j # i => j \in Stored /\ telemetry'[j] = telemetry[j]
  BY <1>1, <1>4, <1>6 DEF Stored
<1>8. SampleStoredOnce'
  <2>1. ASSUME NEW j \in Stored', j # i, req[w].sample # NoSample,
               telemetry'[j].device = d, telemetry'[j].sample = req[w].sample
        PROVE  FALSE
    BY <1>2, <1>d, <1>7, <2>1 DEF Twin, StoredOf
  <2> SUFFICES ASSUME NEW j \in Stored', NEW k \in Stored', j # k,
                      telemetry'[j].device = telemetry'[k].device,
                      telemetry'[j].sample = telemetry'[k].sample,
                      telemetry'[j].sample # NoSample
               PROVE  FALSE
    BY DEF SampleStoredOnce
  <2>2. CASE j = i
    BY <1>5, <1>6, <2>1, <2>2
  <2>3. CASE k = i
    BY <1>5, <1>6, <2>1, <2>3
  <2>4. CASE j # i /\ k # i
    BY <1>7, <2>4 DEF TelemetrySound, SampleStoredOnce
  <2> QED BY <2>2, <2>3, <2>4
<1>9. ASSUME NEW e \in Device PROVE Cardinality(StoredOf(e)') <= DeviceLimit
  <2>1. StoredOf(e) \in SUBSET Id
    BY DEF StoredOf, Stored
  <2>2. CASE e = d
    <3>1. /\ out \in SUBSET StoredOf(d)
          /\ Cardinality(out) = Surplus(Cardinality(StoredOf(d)), DeviceLimit)
      BY <1>3 DEF Evictions, Earliest
    <3>2. StoredOf(d)' = (StoredOf(d) \ out) \cup {i}
      <4>1. \A j \in Id : j \in StoredOf(e)' <=> j \in Stored' /\ telemetry'[j].device = e
        BY DEF StoredOf, Stored
      <4>2. \A j \in Id : j \in StoredOf(e) <=> j \in Stored /\ telemetry[j].device = e
        BY DEF StoredOf, Stored
      <4>3. StoredOf(e)' \subseteq Id
        BY DEF StoredOf, Stored
      <4>4. StoredOf(e)' = (StoredOf(e) \ out) \cup {i}
        BY <1>1, <1>5, <1>6, <1>7, <2>1, <2>2, <4>1, <4>2, <4>3
      <4> QED BY <2>2, <4>4
    <3> QED BY <1>1, <2>1, <2>2, <3>1, <3>2, RoomForOne, DeviceLimitType
  <2>3. CASE e # d
    <3>1. StoredOf(e)' \subseteq StoredOf(e)
      BY <1>5, <1>6, <1>7, <2>3 DEF StoredOf
    <3>2. /\ Cardinality(StoredOf(e)') \in Nat /\ Cardinality(StoredOf(e)) \in Nat
          /\ Cardinality(StoredOf(e)') <= Cardinality(StoredOf(e))
      BY <2>1, <3>1, SmallerSet
    <3>3. Cardinality(StoredOf(e)) <= DeviceLimit
      BY DEF TelemetrySound, TelemetryWithinQuota
    <3> QED BY <3>2, <3>3, DeviceLimitType
  <2> QED BY <2>2, <2>3
<1>10. Cardinality(Stored') <= TelemetryMax
  <2>1. Stored \ out \in SUBSET Id
    BY TableSets
  <2>2. /\ Cardinality(Stored \ out) \in Nat /\ Cardinality(Stored') \in Nat
        /\ Cardinality(Stored') <= Cardinality(Stored \ out) + 1
    BY <1>1, <1>7, <2>1, OneMore
  <2> QED BY <1>3, <2>2, ConstantsAssumption
<1> QED BY <1>8, <1>9, <1>10 DEF TelemetrySound, TelemetryWithinQuota, DeviceLimit

LEMMA TelemetryStep ==
  ASSUME TypeOK, TelemetrySound, [Next]_vars
  PROVE  TelemetrySound'
<1>1. ASSUME UNCHANGED telemetry PROVE TelemetrySound'
  <2>1. Stored' = Stored
    BY <1>1 DEF Stored
  <2> QED BY <1>1, <2>1, TelemetryShrinks
<1>2. ASSUME NEW out, telemetry' = Cleared(telemetry, out) PROVE TelemetrySound'
  <2>1. Stored' \subseteq Stored /\ \A j \in Stored' : telemetry'[j] = telemetry[j]
    BY <1>2 DEF Stored, Cleared
  <2> QED BY <2>1, TelemetryShrinks
<1>3. ASSUME NEW w \in Worker, WorkerStep(w) PROVE TelemetrySound'
  <2>1. CASE IngestCommit(w)
    BY <2>1, CommitTelemetry
  <2> QED BY <1>1, <1>3, <2>1
          DEF WorkerStep, BeginIngest, IngestDuplicate, IngestRefused, BeginResolve,
              ResolveAlert, AuditResolve, Crash, tables
<1>4. CASE RetentionPass
  <2>1. PICK out : telemetry' = Cleared(telemetry, out)
    BY <1>4, Zenon DEF RetentionPass, RetainTelemetry
  <2> QED BY <1>2, <2>1
<1>5. CASE ResetDemo
  BY <1>2, <1>5 DEF ResetDemo
<1>6. CASE \/ \E d \in Device : Register(d)
           \/ \E p \in Id, by \in Actor : ApproveProposal(p, by)
           \/ Tick \/ UNCHANGED vars
  BY <1>1, <1>6 DEF Register, ApproveProposal, Tick, vars, tables
<1> QED BY <1>3, <1>4, <1>5, <1>6 DEF Next

(* The telemetry quotas of a device and of the store hold after every      *)
(* ingestion, and a source sample id is stored once however its delivery   *)
(* is retried by concurrent requests (add_telemetry), for every quota.     *)
THEOREM TelemetryAlwaysSound == Spec => []TelemetrySound
<1>1. ASSUME Init PROVE TelemetrySound
  <2>1. Stored = {} /\ \A d \in Device : StoredOf(d) = {}
    BY <1>1 DEF Init, Stored, StoredOf
  <2> QED BY <2>1, FS_EmptySet, DeviceLimitType, ConstantsAssumption
          DEF TelemetrySound, TelemetryWithinQuota, SampleStoredOnce
<1> QED BY <1>1, TelemetryStep, TypeCorrect, PTL DEF Spec
=============================================================================
