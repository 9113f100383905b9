SPECIFICATION Spec
CONSTANTS
  Cells = {c1, c2}
  NoCell = NoCell
  CountMod = 16
  MaxProcs = 2
  MaxRecoveries = 2
INVARIANT TotalFailures
CHECK_DEADLOCK FALSE
