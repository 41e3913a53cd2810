\* As documented, an approval is recorded once; two approvals of one service
\* review that both read it before either writes it break this.
SPECIFICATION Spec
CONSTANTS
  Proposal = {p1}
  Recovery = {r1}
  Operator = {ann, bob}
  Session = {}
  None = None
  AuditMax = 2
SYMMETRY Symmetry
\* A proposal for another endpoint waits for ever once the rest is decided.
CHECK_DEADLOCK FALSE
INVARIANTS
  ApprovalAuditedOnce
