SPECIFICATION Spec
CONSTANTS
  Recs = {r1, r2}
  Paths = {p1, p2}
  Modes = {"s3", "both"}
  MaxKey = 3
  MaxSeq = 10
  Journaled = TRUE
  None = None
  Foreign = Foreign
  AllowExpire = TRUE
  AllowVanish = TRUE
  MaxCrashes = 1
  MaxFaults = 0
  MaxLosses = 1
INVARIANT NamesSound
SYMMETRY Symmetry
CHECK_DEADLOCK FALSE
