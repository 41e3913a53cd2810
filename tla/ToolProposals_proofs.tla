------------------------ MODULE ToolProposals_proofs ------------------------
(***************************************************************************)
(* Proofs about ToolProposals: types, one approval per recovery proposal,  *)
(* and that a recorded approval is backed by its records and its target.   *)
(***************************************************************************)
EXTENDS ToolProposals, TLAPS

(* A service review approval under way has left the records of the steps   *)
(* behind it, and names no recovery proposal.                              *)
UnderWayIsBacked ==
  \A o \in Operator : op[o].at \in {"audit", "finding", "upsert"} /\ Approving(o) =>
    /\ op[o].row.endpoint \notin Recovery
    /\ op[o].at # "audit" => audited[op[o].proposal] > 0
    /\ op[o].at = "upsert" => op[o].proposal \in found

(* What a bridge will approve is what the endpoint it read names. *)
BridgesAimRight ==
  \A o \in Operator : op[o].at = "bridge" => op[o].target \in Targets(op[o].endpoint)

IInv == /\ TypeOK
        /\ RecoveryApprovedOnce
        /\ ApprovalsAreBacked
        /\ UnderWayIsBacked
        /\ BridgesAimRight

Doing == [at : {"audit", "finding", "upsert"}, proposal : Proposal, row : Row]
Bridging == [at : {"bridge"}, proposal : Proposal, endpoint : Endpoint, target : Recovery]

-----------------------------------------------------------------------------
LEMMA InitIInv == Init => IInv
BY ToolAssumption DEF Init, IInv, TypeOK, RecoveryApprovedOnce, ApprovalsAreBacked,
   UnderWayIsBacked, BridgesAimRight, Idle

LEMMA PrepareStep ==
  ASSUME IInv, NEW o \in Operator, NEW p \in Proposal, NEW e \in Endpoint,
         NEW needs \in BOOLEAN, NEW s \in Session \cup {None},
         BeginPrepare(o, p, e, needs, s)
  PROVE  IInv'
<1> DEFINE row == [endpoint |-> e, session |-> s,
                   state |-> IF needs \/ RecoveryScoped(e)
                             THEN "awaiting_human_approval" ELSE "read_only_prepared"]
<1>1. row \in Row /\ row.state # "approved_recorded"
  BY DEF Row, State
<1> HIDE DEF row
<1>2. op' = [op EXCEPT ![o] = [at |-> "audit", proposal |-> p, row |-> row]]
  BY DEF BeginPrepare, Writing, row
<1>3. UNCHANGED <<tool, recovery, audited, found>>
  BY DEF BeginPrepare, Writing
<1>4. TypeOK'
  BY <1>1, <1>2, <1>3 DEF IInv, TypeOK, Doing
<1>5. RecoveryApprovedOnce' /\ ApprovalsAreBacked'
  BY <1>3 DEF IInv, RecoveryApprovedOnce, ApprovalsAreBacked
<1>6. UnderWayIsBacked' /\ BridgesAimRight'
  BY <1>1, <1>2, <1>3 DEF IInv, TypeOK, UnderWayIsBacked, BridgesAimRight, Approving
<1> QED BY <1>4, <1>5, <1>6 DEF IInv

LEMMA ServiceStep ==
  ASSUME IInv, NEW o \in Operator, NEW p \in Proposal, BeginServiceApproval(o, p)
  PROVE  IInv'
<1> DEFINE row == [tool[p] EXCEPT !.state = "approved_recorded"]
<1>1. tool[p] \in Row /\ tool[p].endpoint = "service"
  BY DEF IInv, TypeOK, BeginServiceApproval, Held
<1>2. row \in Row /\ row.endpoint \notin Recovery
  BY <1>1, ToolAssumption DEF Row, State
<1> HIDE DEF row
<1>3. op' = [op EXCEPT ![o] = [at |-> "audit", proposal |-> p, row |-> row]]
  BY DEF BeginServiceApproval, Writing, row
<1>4. UNCHANGED <<tool, recovery, audited, found>>
  BY DEF BeginServiceApproval, Writing
<1>5. TypeOK'
  BY <1>2, <1>3, <1>4 DEF IInv, TypeOK
<1>6. RecoveryApprovedOnce' /\ ApprovalsAreBacked'
  BY <1>4 DEF IInv, RecoveryApprovedOnce, ApprovalsAreBacked
<1>7. UnderWayIsBacked' /\ BridgesAimRight'
  BY <1>2, <1>3, <1>4 DEF IInv, TypeOK, UnderWayIsBacked, BridgesAimRight, Approving
<1> QED BY <1>5, <1>6, <1>7 DEF IInv

LEMMA AuditStep ==
  ASSUME IInv, NEW o \in Operator, AddAudit(o)
  PROVE  IInv'
<1>1. op[o] \in Doing /\ op[o].at = "audit"
  BY DEF IInv, TypeOK, AddAudit, Doing, Idle
<1>2. op' = [op EXCEPT ![o].at = "finding"] /\ UNCHANGED <<tool, recovery, found>>
  BY DEF AddAudit
<1>3. op[o].proposal \in Proposal /\ op[o].proposal \notin Recovery
  BY <1>1, ToolAssumption DEF Doing
<1>4. \/ ~Approving(o) /\ UNCHANGED audited
      \/ Approving(o) /\ audited' = [audited EXCEPT ![op[o].proposal] = @ + 1]
  BY DEF AddAudit, Recorded
<1>5. /\ audited' \in [Proposal \cup Recovery -> Nat]
      /\ \A x \in Proposal \cup Recovery : audited'[x] >= audited[x]
      /\ \A r \in Recovery : audited'[r] = audited[r]
      /\ Approving(o) => audited'[op[o].proposal] > 0
  BY <1>3, <1>4 DEF IInv, TypeOK
<1>6. TypeOK'
  BY <1>1, <1>2, <1>5 DEF IInv, TypeOK, Doing
<1>7. RecoveryApprovedOnce'
  BY <1>2, <1>5 DEF IInv, RecoveryApprovedOnce
<1>8. ApprovalsAreBacked'
  BY <1>2, <1>5 DEF IInv, TypeOK, ApprovalsAreBacked
<1>9. /\ op'[o].at = "finding" /\ op'[o].row = op[o].row /\ op'[o].proposal = op[o].proposal
      /\ \A x \in Operator \ {o} : op'[x] = op[x]
  BY <1>1, <1>2 DEF IInv, TypeOK, Doing
<1>10. UnderWayIsBacked'
  <2> SUFFICES ASSUME NEW x \in Operator, op'[x].at \in {"audit", "finding", "upsert"},
                      Approving(x)'
               PROVE  /\ op'[x].row.endpoint \notin Recovery
                      /\ op'[x].at # "audit" => audited'[op'[x].proposal] > 0
                      /\ op'[x].at = "upsert" => op'[x].proposal \in found'
    BY DEF UnderWayIsBacked
  <2>1. CASE x = o
    BY <2>1, <1>1, <1>2, <1>5, <1>9 DEF IInv, UnderWayIsBacked, Approving
  <2>2. CASE x # o
    <3>1. op'[x] = op[x] /\ Approving(x)
      BY <2>2, <1>9 DEF Approving
    <3>2. op[x].proposal \in Proposal
      BY <3>1 DEF IInv, TypeOK, Idle
    <3>3. audited[op[x].proposal] \in Nat /\ audited'[op[x].proposal] \in Nat
      BY <3>2, <1>5 DEF IInv, TypeOK
    <3> QED BY <3>1, <3>2, <3>3, <1>2, <1>5 DEF IInv, UnderWayIsBacked
  <2> QED BY <2>1, <2>2
<1>11. BridgesAimRight'
  BY <1>9 DEF IInv, BridgesAimRight
<1> QED BY <1>6, <1>7, <1>8, <1>10, <1>11 DEF IInv

LEMMA FindingStep ==
  ASSUME IInv, NEW o \in Operator, AddFinding(o)
  PROVE  IInv'
<1>1. op[o] \in Doing /\ op[o].at = "finding"
  BY DEF IInv, TypeOK, AddFinding, Doing, Idle
<1>2. op' = [op EXCEPT ![o].at = "upsert"] /\ UNCHANGED <<tool, recovery, audited>>
  BY DEF AddFinding
<1>3. /\ found \subseteq found' /\ found' \subseteq Proposal
      /\ Approving(o) => op[o].proposal \in found'
  BY <1>1 DEF AddFinding, IInv, TypeOK, Doing
<1>4. TypeOK'
  BY <1>1, <1>2, <1>3 DEF IInv, TypeOK, Doing
<1>5. RecoveryApprovedOnce' /\ ApprovalsAreBacked'
  BY <1>2, <1>3 DEF IInv, RecoveryApprovedOnce, ApprovalsAreBacked
<1>6. /\ op'[o].at = "upsert" /\ op'[o].row = op[o].row /\ op'[o].proposal = op[o].proposal
      /\ \A x \in Operator \ {o} : op'[x] = op[x]
  BY <1>1, <1>2 DEF IInv, TypeOK, Doing
<1>7. UnderWayIsBacked'
  BY <1>1, <1>2, <1>3, <1>6 DEF IInv, UnderWayIsBacked, Approving
<1>8. BridgesAimRight'
  BY <1>6 DEF IInv, BridgesAimRight
<1> QED BY <1>4, <1>5, <1>7, <1>8 DEF IInv

LEMMA UpsertStep ==
  ASSUME IInv, NEW o \in Operator, Upsert(o)
  PROVE  IInv'
<1>1. op[o] \in Doing /\ op[o].at = "upsert"
  BY DEF IInv, TypeOK, Upsert, Doing, Idle
<1>2. /\ tool' = [tool EXCEPT ![op[o].proposal] = op[o].row]
      /\ op' = [op EXCEPT ![o] = Idle] /\ UNCHANGED <<recovery, audited, found>>
  BY DEF Upsert
<1>3. TypeOK'
  BY <1>1, <1>2 DEF IInv, TypeOK, Doing
<1>4. RecoveryApprovedOnce'
  BY <1>2 DEF IInv, RecoveryApprovedOnce
<1>5. ApprovalsAreBacked'
  BY <1>1, <1>2 DEF IInv, TypeOK, ApprovalsAreBacked, UnderWayIsBacked, Approving, Doing
<1>6. UnderWayIsBacked' /\ BridgesAimRight'
  BY <1>2 DEF IInv, TypeOK, UnderWayIsBacked, BridgesAimRight, Approving, Idle
<1> QED BY <1>3, <1>4, <1>5, <1>6 DEF IInv

LEMMA BridgeStep ==
  ASSUME IInv, NEW o \in Operator, NEW p \in Proposal, NEW r \in Recovery, BeginBridge(o, p, r)
  PROVE  IInv'
<1>1. tool[p] \in Row /\ r \in Targets(tool[p].endpoint)
  BY DEF IInv, TypeOK, BeginBridge, Held
<1>2. /\ op' = [op EXCEPT ![o] = [at |-> "bridge", proposal |-> p,
                                  endpoint |-> tool[p].endpoint, target |-> r]]
      /\ UNCHANGED <<tool, recovery, audited, found>>
  BY DEF BeginBridge
<1>3. TypeOK'
  BY <1>1, <1>2 DEF IInv, TypeOK, Row
<1>4. RecoveryApprovedOnce' /\ ApprovalsAreBacked'
  BY <1>2 DEF IInv, RecoveryApprovedOnce, ApprovalsAreBacked
<1>5. UnderWayIsBacked' /\ BridgesAimRight'
  BY <1>1, <1>2 DEF IInv, TypeOK, UnderWayIsBacked, BridgesAimRight, Approving
<1> QED BY <1>3, <1>4, <1>5 DEF IInv

LEMMA CommitStep ==
  ASSUME IInv, NEW o \in Operator, CommitBridge(o)
  PROVE  IInv'
<1> DEFINE p == op[o].proposal
           r == op[o].target
<1>1. /\ op[o] \in Bridging
      /\ p \in Proposal /\ r \in Recovery /\ p \notin Recovery /\ r \notin Proposal
  BY ToolAssumption DEF IInv, TypeOK, CommitBridge, Bridging, Idle
<1>2. tool[p] \in Row /\ tool[p].endpoint = op[o].endpoint
  BY <1>1 DEF IInv, TypeOK, CommitBridge, AsRead, Held
<1>3. /\ recovery[r] \in {"pending_approval", "approved"}
      /\ recovery' = [recovery EXCEPT ![r] = "approved"]
      /\ audited' = [audited EXCEPT ![p] = @ + 1, ![r] = IF Transition(r) THEN @ + 1 ELSE @]
      /\ found' = found \cup {p}
      /\ tool' = [tool EXCEPT ![p].state = "approved_recorded"]
      /\ op' = [op EXCEPT ![o] = Idle]
  BY DEF CommitBridge, Decided
<1> HIDE DEF p, r
<1>4. /\ audited' \in [Proposal \cup Recovery -> Nat]
      /\ \A x \in Proposal : audited'[x] >= audited[x]
      /\ audited'[p] > 0
      /\ audited'[r] = IF Transition(r) THEN audited[r] + 1 ELSE audited[r]
      /\ \A x \in Recovery \ {r} : audited'[x] = audited[x]
  BY <1>1, <1>3 DEF IInv, TypeOK
<1>5. TypeOK'
  BY <1>1, <1>2, <1>3, <1>4 DEF IInv, TypeOK, Row, State
<1>6. RecoveryApprovedOnce'
  BY <1>1, <1>3, <1>4 DEF IInv, TypeOK, RecoveryApprovedOnce, Transition
<1>7. tool[p].endpoint \in Recovery => tool[p].endpoint = r
  BY <1>2, CommitBridge(o) DEF IInv, BridgesAimRight, Targets, r, CommitBridge
<1>8. ApprovalsAreBacked'
  <2> SUFFICES ASSUME NEW x \in Proposal, tool'[x] # None,
                      tool'[x].state = "approved_recorded"
               PROVE  /\ audited'[x] > 0 /\ x \in found'
                      /\ tool'[x].endpoint \in Recovery =>
                           recovery'[tool'[x].endpoint] # "pending_approval"
    BY DEF ApprovalsAreBacked
  <2>1. CASE x = p
    BY <2>1, <1>1, <1>2, <1>3, <1>4, <1>7 DEF IInv, TypeOK, Row
  <2>2. CASE x # p
    <3>1. tool'[x] = tool[x]
      BY <2>2, <1>3 DEF IInv, TypeOK
    <3>2. audited[x] \in Nat /\ audited'[x] \in Nat
      BY <1>4 DEF IInv, TypeOK
    <3> QED BY <3>1, <3>2, <1>1, <1>3, <1>4 DEF IInv, TypeOK, ApprovalsAreBacked
  <2> QED BY <2>1, <2>2
<1>9. UnderWayIsBacked'
  <2> SUFFICES ASSUME NEW x \in Operator, op'[x].at \in {"audit", "finding", "upsert"},
                      Approving(x)'
               PROVE  /\ op'[x].row.endpoint \notin Recovery
                      /\ op'[x].at # "audit" => audited'[op'[x].proposal] > 0
                      /\ op'[x].at = "upsert" => op'[x].proposal \in found'
    BY DEF UnderWayIsBacked
  <2>1. x # o /\ op'[x] = op[x] /\ Approving(x)
    BY <1>3 DEF IInv, TypeOK, Idle, Approving
  <2>2. op[x].proposal \in Proposal
    BY <2>1 DEF IInv, TypeOK, Idle
  <2>3. audited[op[x].proposal] \in Nat /\ audited'[op[x].proposal] \in Nat
    BY <2>2, <1>4 DEF IInv, TypeOK
  <2> QED BY <2>1, <2>2, <2>3, <1>3, <1>4 DEF IInv, UnderWayIsBacked
<1>10. BridgesAimRight'
  BY <1>3 DEF IInv, TypeOK, BridgesAimRight, Idle
<1> QED BY <1>5, <1>6, <1>8, <1>9, <1>10 DEF IInv

LEMMA OtherSteps ==
  ASSUME IInv,
         \/ \E o \in Operator : Abort(o)
         \/ \E p \in Proposal : Forget(p)
         \/ \E r \in Recovery : ApproveRecovery(r) \/ Retire(r)
         \/ ResetDemo
         \/ UNCHANGED vars
  PROVE  IInv'
<1>1. CASE \E o \in Operator : Abort(o)
  <2> PICK o \in Operator : Abort(o)
    BY <1>1
  <2>1. op' = [op EXCEPT ![o] = Idle] /\ UNCHANGED <<tool, recovery, audited, found>>
    BY DEF Abort
  <2> QED BY <2>1 DEF IInv, TypeOK, RecoveryApprovedOnce, ApprovalsAreBacked,
             UnderWayIsBacked, BridgesAimRight, Approving, Idle
<1>2. CASE \E p \in Proposal : Forget(p)
  <2> PICK p \in Proposal : Forget(p)
    BY <1>2
  <2>1. tool' = [tool EXCEPT ![p] = None] /\ UNCHANGED <<recovery, audited, found, op>>
    BY DEF Forget
  <2>2. TypeOK'
    BY <2>1 DEF IInv, TypeOK
  <2> QED BY <2>1, <2>2 DEF IInv, TypeOK, RecoveryApprovedOnce, ApprovalsAreBacked,
             UnderWayIsBacked, BridgesAimRight, Approving
<1>3. CASE \E r \in Recovery : ApproveRecovery(r)
  <2> PICK r \in Recovery : ApproveRecovery(r)
    BY <1>3
  <2>1. /\ recovery[r] = "pending_approval" /\ recovery' = [recovery EXCEPT ![r] = "approved"]
        /\ audited' = [audited EXCEPT ![r] = @ + 1] /\ UNCHANGED <<tool, found, op>>
    BY DEF ApproveRecovery, Transition, Decided, Recorded
  <2>2. /\ TypeOK' /\ \A x \in Proposal : audited'[x] = audited[x]
    BY <2>1, ToolAssumption DEF IInv, TypeOK
  <2>3. RecoveryApprovedOnce'
    BY <2>1 DEF IInv, TypeOK, RecoveryApprovedOnce
  <2>4. ApprovalsAreBacked'
    BY <2>1, <2>2 DEF IInv, TypeOK, ApprovalsAreBacked
  <2>5. UnderWayIsBacked'
    BY <2>1, <2>2 DEF IInv, TypeOK, UnderWayIsBacked, Approving, Idle
  <2>6. BridgesAimRight'
    BY <2>1 DEF IInv, BridgesAimRight
  <2> QED BY <2>2, <2>3, <2>4, <2>5, <2>6 DEF IInv
<1>4. CASE \E r \in Recovery : Retire(r)
  <2> PICK r \in Recovery : Retire(r)
    BY <1>4
  <2>1. /\ recovery[r] = "approved" /\ recovery' = [recovery EXCEPT ![r] = "gone"]
        /\ UNCHANGED <<tool, audited, found, op>>
    BY DEF Retire
  <2> QED BY <2>1 DEF IInv, TypeOK, RecoveryApprovedOnce, ApprovalsAreBacked,
             UnderWayIsBacked, BridgesAimRight, Approving
<1>5. CASE UNCHANGED vars
  BY <1>5 DEF vars, IInv, TypeOK, RecoveryApprovedOnce, ApprovalsAreBacked,
     UnderWayIsBacked, BridgesAimRight, Approving
<1>6. CASE ResetDemo
  <2>1. recovery' = [r \in Recovery |-> "gone"] /\ UNCHANGED <<tool, audited, found, op>>
    BY <1>6 DEF ResetDemo
  <2> QED BY <2>1 DEF IInv, TypeOK, RecoveryApprovedOnce, ApprovalsAreBacked,
             UnderWayIsBacked, BridgesAimRight, Approving
<1> QED BY <1>1, <1>2, <1>3, <1>4, <1>5, <1>6

-----------------------------------------------------------------------------
(* The invariant above is inductive. *)
THEOREM Inductive == Spec => []IInv
<1>1. IInv /\ [Next]_vars => IInv'
  BY PrepareStep, ServiceStep, AuditStep, FindingStep, UpsertStep, BridgeStep, CommitStep,
     OtherSteps DEF Next
<1> QED BY InitIInv, <1>1, PTL DEF Spec

(* A recovery proposal is approved and audited exactly once, for any       *)
(* operators, proposals and sessions (approve_assistant_recovery_proposal, *)
(* approve_proposal).                                                      *)
THEOREM ApprovedOnce == Spec => []RecoveryApprovedOnce
<1>1. IInv => RecoveryApprovedOnce
  BY DEF IInv
<1> QED BY Inductive, <1>1, PTL

(* A recorded assistant approval always has its audit row, its finding and *)
(* an approved target (approve_assistant_tool_action).                     *)
THEOREM ApprovalsStand == Spec => []ApprovalsAreBacked
<1>1. IInv => ApprovalsAreBacked
  BY DEF IInv
<1> QED BY Inductive, <1>1, PTL
=============================================================================
