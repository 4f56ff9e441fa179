SPECIFICATION Spec
CONSTANTS
  Recs = {r1, r2}
  Paths = {p1}
  Modes = {"s3"}
  MaxKey = 3
  MaxSeq = 10
  Journaled = TRUE
  None = None
  Foreign = Foreign
  AllowExpire = FALSE
  AllowVanish = FALSE
  MaxCrashes = 1
  MaxFaults = 1
  MaxLosses = 0
INVARIANTS StoredOnce
CHECK_DEADLOCK FALSE
