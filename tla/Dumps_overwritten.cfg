SPECIFICATION Spec
CONSTANTS
  Duration = 1
  Recovery = 5
  Gap = 0
  Triggers = {"silence", "channel_imbalance"}
  Before = 1
  MaxIncident = 1
  After = 2
  MaxAudio = 9
INVARIANTS DumpIsContext
CHECK_DEADLOCK FALSE
