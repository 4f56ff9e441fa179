SPECIFICATION Spec
CONSTANTS
  Entries = {1, 2}
  Workers = {w1, w2}
  Users = {u1}
  All = all
  None = None
  MaxRetries = 0
INVARIANTS StoppedOnce
CHECK_DEADLOCK FALSE
