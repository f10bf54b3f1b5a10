SPECIFICATION DbSpec
CONSTANTS
  PersistedKey = {p}
  TransientKey = {n}
  Value = {1, 2}
  MaxDbHeight = 4
  MaxRollbacks = 1
INVARIANT TreeRestored
CHECK_DEADLOCK FALSE
