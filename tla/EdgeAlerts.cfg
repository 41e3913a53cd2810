\* Alerts and proposals at their ceilings, telemetry at both quotas: two
\* devices, two workers and one sample id, so that rows are evicted and an
\* identical sample arrives again while its first row stands.
SPECIFICATION Spec
CONSTANTS
  Device = {d1, d2}
  Worker = {w1, w2}
  Actor = {ann}
  Kind = {"normal", "warning", "critical"}
  Sample = {s1}
  NoSample = NoSample
  NoRow = NoRow
  Production = FALSE
  PerDeviceMax = 2
  TelemetryMax = 2
  ActiveMax = 2
  AlertMax = 2
  ProposalMax = 2
  Batch = 1
  TelemetryAge = 0
  AnomalyAge = 0
  MaxId = 3
  MaxClock = 0
SYMMETRY Symmetry
INVARIANTS
  TablesAgree
  TelemetrySound
