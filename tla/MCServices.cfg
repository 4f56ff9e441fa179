SPECIFICATION ServicesSpec
CONSTANTS
  None = None
  Paths = {vol1, vol2}
  MaxRuns = 2
  Confirm = 0
  Return = 1
  Pauses = 1
  Before = 1
  MaxIncident = 1
  After = 3
  Audio = 7
  Handlers = {h1, h2}
  Tags = {a, b, c}
  Alike = {a, b}
  Requests = 2
  Failures = 1
  Kills = 1
  Lives = 2
  Duration = 1
  Recovery = 1
  Gap = 0
  Triggers = {"silence"}
  Subscriptions = {"off", "all"}
  QueueDepth = 1
  LogDepth = 1
  TTL = 0
  MaxIncidents = 2
  MaxEdits = 1
INVARIANTS AlertsSettle DumpsSound HistorySound SavesSound StorageTold DanteSound
PROPERTIES FeedsInOrder LowHolds
CHECK_DEADLOCK FALSE
