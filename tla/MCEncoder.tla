------------------------------ MODULE MCEncoder -------------------------------
(***************************************************************************)
(* Goroutines that call the encoder, and goroutines that start and stop    *)
(* one of its caller streams.  CallerStream has what it needs of the       *)
(* encoder and Encoder what it needs of a stream, so a behaviour exercises *)
(* one of the two, chosen at the start; the encoder then stays as New made *)
(* it.  Goroutines that run the same calls are interchangeable.            *)
(***************************************************************************)
EXTENDS Encoder, TLC

CONSTANTS all, Entries, Workers, MaxRetries    \* CallerStream

ASSUME CallerStreamAssumption == MaxRetries \in Nat /\ None \notin Entries

VARIABLES
  which,    \* "encoder" or "caller"
  m

C == INSTANCE CallerStream WITH Users <- {}, All <- all

CallsInit ==
  /\ which \in {"encoder", "caller"}
  /\ Init
  /\ IF which = "caller" THEN C!Init /\ ~e.inputLost /\ input = 0 ELSE m = None

CallsNext ==
  /\ UNCHANGED which
  /\ \/ which = "encoder" /\ Next /\ UNCHANGED m
     \/ which = "caller" /\ C!Next /\ UNCHANGED vars

CallsSpec == CallsInit /\ [][CallsNext]_<<which, vars, m>>

Symmetry == Permutations(Calls) \cup Permutations(Workers)

\* Two goroutines that start, watch and retry a stream against a StopAll: no FFmpeg
\* process is forgotten, when stream_stopped is emitted the process has exited and its
\* writer is done, and the state stays well typed.
CallerSound == which = "caller" => C!TypeOK /\ C!NoOrphan /\ C!StoppedIsOver
===============================================================================
