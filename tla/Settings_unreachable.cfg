SPECIFICATION Spec
CONSTANTS
  Handlers = {h1, h2}
  Tags = {a, b, c}
  Alike = {a, b}
  None = None
  MaxRequests = 2
  MaxFaults = 0
  MaxCrashes = 0
INVARIANT RecordersReachable
CHECK_DEADLOCK FALSE
