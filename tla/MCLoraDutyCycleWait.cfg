SPECIFICATION Spec
CONSTANTS
  Budget = 2
  Ratio = 2
  Toas = {1, 2}
  Senders = {s1}
INVARIANT WaitSuffices
CHECK_DEADLOCK FALSE
