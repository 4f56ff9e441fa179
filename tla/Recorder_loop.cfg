SPECIFICATION FairSpec
CONSTANTS
  Outs = {a, b}
  Limits = {TRUE, FALSE}
  Jobs = {1, 2}
  Timers = {t1, t2}
  None = None
INVARIANTS CaptureHasEncoder OutputFollows KeepsSchedule
PROPERTIES StopIsSound RunsEnd
CHECK_DEADLOCK FALSE
