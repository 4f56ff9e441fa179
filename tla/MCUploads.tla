------------------------------- MODULE MCUploads ------------------------------
(***************************************************************************)
(* The delivery of a recording, and beside its ticket the credentials it   *)
(* is uploaded with.  The ticket's handlers do not change those, and the   *)
(* other way round: each behaviour exercises one of the two, chosen at the *)
(* start.                                                                  *)
(***************************************************************************)
EXTENDS Outbox

CONSTANTS
  Dests, Creds, Savers, rec,    \* Destinations: buckets of a recorder, its credentials, the threads that save them
  Edits, Errors, Kills          \* and its bounds on updates, failing calls and ends of the process

\* Credentials are told from none, threads from each other and from the absence of one.
ASSUME DestinationsAssumption ==
  /\ Dests # {} /\ Creds # {} /\ 0 \notin Creds
  /\ rec \notin Savers /\ None \notin Savers \cup {rec}
  /\ Edits \in Nat /\ Errors \in Nat /\ Kills \in Nat

VARIABLES
  which,    \* "outbox" or "credentials"
  tUp, listed, cfg, file, images, tmp, tickets, destMu, tAt, want, failed, unsynced, edits, tFaults, tCrashes

T == INSTANCE Destinations WITH Rec <- rec, MaxEdits <- Edits, MaxFaults <- Errors, MaxCrashes <- Kills,
                                up <- tUp, at <- tAt, faults <- tFaults, crashes <- tCrashes

stored == <<tUp, listed, cfg, file, images, tmp, tickets, destMu, tAt, want, failed, unsynced, edits, tFaults, tCrashes>>

NoStored ==
  /\ tUp = None /\ listed = None /\ cfg = None /\ file = None /\ images = None /\ tmp = None /\ tickets = None
  /\ destMu = None /\ tAt = None /\ want = None /\ failed = None /\ unsynced = None /\ edits = None
  /\ tFaults = None /\ tCrashes = None

UploadsInit ==
  /\ which \in {"outbox", "credentials"}
  /\ Init /\ (which # "outbox" => \A r \in Recs : mode[r] = "s3" /\ obj[1].id = None)
  /\ IF which = "credentials" THEN T!Init ELSE NoStored

UploadsNext ==
  /\ UNCHANGED which
  /\ \/ which = "outbox" /\ Next /\ UNCHANGED stored
     \/ which = "credentials" /\ T!Next /\ UNCHANGED vars

UploadsSpec == UploadsInit /\ [][UploadsNext]_<<which, vars, stored>>

-------------------------------------------------------------------------------
\* Every recording keeps credentials to be uploaded with, and after a save the current
\* ones.
CredentialsKept == which = "credentials" => T!CredentialsKept
===============================================================================
