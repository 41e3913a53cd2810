\* Three processes scan for two operators; two workers approve one piece of
\* evidence; a loop checks two services, or one beside an operator's request.
SPECIFICATION OperationsSpec
CONSTANTS
  Process = {p1, p2, p3}
  Operator = {o1, o2}
  NoToken = NoToken
  LeaseTime = 3
  Cooldown = 4
  HoldMax = 2
  Candidate = {c1}
  Worker = {w1, w2}
  RegistrationMax = 2
  Loop = {l1}
  Request = {q1}
  Threshold = {2}
  CountMax = 2
  FaultMax = 1
INVARIANTS
  OneProbe
PROPERTIES
  ScanNotLockedOut
  ClaimsAreResolved
  LockoutEnds
  ChecksConverge
\* Once every candidate is approved and every worker idle nothing is left to do.
CHECK_DEADLOCK FALSE
