\* One proposal id that three operators prepare, approve, lose and prepare again
\* for two recovery proposals, beside the direct approval.
SPECIFICATION Spec
CONSTANTS
  Proposal = {p1}
  Recovery = {r1, r2}
  Operator = {ann, bob, cy}
  Session = {s1}
  None = None
  AuditMax = 2
SYMMETRY Symmetry
\* A proposal for another endpoint waits for ever once the rest is decided.
CHECK_DEADLOCK FALSE
INVARIANTS
  RecoveryApprovedOnce
  ApprovalsAreBacked
