SPECIFICATION FairSpec
CONSTANTS
  Calls = {c1}
  Background = bg
  None = None
  HasStream = TRUE
  MaxCalls = 2
  MaxInput = 1
  MaxEdits = 1
  MaxFaults = 0
INVARIANT StreamsEnd
PROPERTIES StreamComesBack CallsReturn
CHECK_DEADLOCK FALSE
