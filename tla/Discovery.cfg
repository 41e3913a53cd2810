\* Three hosts in a queue of two, two devices that other routes write too;
\* rows expire, are evicted and come back while an operator reviews and
\* approves them, in production and in demo mode.
SPECIFICATION Spec
CONSTANTS
  Address = {1, 2, 3}
  Evidence = {e1, e2}
  Device = {d1, d2}
  Asset = {s1}
  Operator = {ann}
  None = None
  Ttl = 1
  TerminalAge = 0
  MaxCandidates = 2
  MaxRevision = 4
  MaxClock = 1
SYMMETRY Symmetry
INVARIANTS
  TypeOK
  RevisionNamesEvidence
  ApprovedMeansInventoried
PROPERTIES
  ForeignDevicesUntouched
  NewEvidenceNeedsReview
