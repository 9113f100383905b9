SPECIFICATION EngineSpec
CONSTANTS
  Neighbours = {1, 2}
  RelLevels = {0, 1}
  Samples = 3
  Stable = FALSE
INVARIANT TargetHeld
