SPECIFICATION CallsSpec
CONSTANTS
  Calls = {c1, c2}
  Background = bg
  None = None
  HasStream = FALSE
  MaxCalls = 2
  MaxInput = 2
  MaxEdits = 0
  MaxFaults = 1
  all = all
  Entries = {1, 2}
  Workers = {w1, w2}
  MaxRetries = 0
INVARIANTS OneSource StopWins RecordingFollows InputReported NewestInput CallerSound
SYMMETRY Symmetry
CHECK_DEADLOCK FALSE
