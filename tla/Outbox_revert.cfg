SPECIFICATION Spec
CONSTANTS
  Recs = {r1}
  Paths = {p1}
  Modes = {"s3"}
  MaxKey = 3
  MaxSeq = 14
  Journaled = TRUE
  None = None
  Foreign = Foreign
  AllowExpire = TRUE
  AllowVanish = FALSE
  MaxCrashes = 1
  MaxFaults = 2
  MaxLosses = 1
INVARIANTS KeyKnown
CHECK_DEADLOCK FALSE
