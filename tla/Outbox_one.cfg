SPECIFICATION UploadsSpec
CONSTANTS
  Recs = {r1}
  Paths = {p1}
  Modes = {"s3", "both", "local"}
  MaxKey = 2
  MaxSeq = 12
  Journaled = TRUE
  None = None
  Foreign = Foreign
  AllowExpire = FALSE
  AllowVanish = TRUE
  MaxCrashes = 2
  MaxFaults = 2
  MaxLosses = 1
  Dests = {dest1, dest2}
  Creds = {1, 2}
  Savers = {saver1, saver2}
  rec = rec
  Edits = 2
  Errors = 1
  Kills = 1
INVARIANTS TypeOK AudioKept TicketFound AtMostOnce KeyKnown FailedStaysOut ReadyIsDurable CredentialsKept
CHECK_DEADLOCK FALSE
