\* Two unlocked writers beside locked writers and retention, and a client
\* that pages through the trail while it is written and rotated.
SPECIFICATION Spec
CONSTANTS
  Worker = {w1, w2}
  Client = {x1}
  TotalRows = 3
  RoutineRows = 2
  TerminalRows = 2
  BatchRows = 2
  PageRows = 1
  IdMax = 4
SYMMETRY Workers
INVARIANTS
  ClassesWithinBudget
  PagesComplete
PROPERTIES
  ReceiptsKept
