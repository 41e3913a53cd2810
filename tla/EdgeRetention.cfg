\* A production instance whose alert and proposal history is at its ceiling
\* while time passes: rotation, retention in batches of one, and approval.
SPECIFICATION Spec
CONSTANTS
  Device = {d1, d2}
  Worker = {w1}
  Actor = {ann}
  Kind = {"critical"}
  Sample = {}
  NoSample = NoSample
  NoRow = NoRow
  Production = TRUE
  PerDeviceMax = 9
  TelemetryMax = 9
  ActiveMax = 2
  AlertMax = 2
  ProposalMax = 2
  Batch = 1
  TelemetryAge = 0
  AnomalyAge = 0
  MaxId = 4
  MaxClock = 1
SYMMETRY Symmetry
INVARIANTS
  CeilingsHold
PROPERTIES
  WaitingWorkIsKept
  GateSpec
