---------------------------------- MODULE Dumps --------------------------------
(***************************************************************************)
(* Audio dumps around incidents: silencedump.Capturer with its ring buffer *)
(* and the part of silencedump.Manager that drives it, fed by the          *)
(* detectors as Distributor.ProcessSamples feeds them.  One unit of audio  *)
(* is one chunk, and a chunk takes one tick of the clock.                  *)
(***************************************************************************)
EXTENDS Debounce, Sequences

CONSTANTS
  Triggers,                       \* {"silence", "channel_imbalance"}
  Before, MaxIncident, After,     \* chunks of a dump: 15, 5 and 15 seconds in the code
  MaxAudio                        \* bound: chunks of audio

VARIABLES
  det,        \* the detectors' debouncers
  capturer,   \* enabled, total (totalWritten), ring, captures
  manager,    \* "idle", "running" or "resetting" (Stop has unlocked, Reset is due)
  enc,        \* whether the source delivers audio: "running" or "stopped"
  encoding,   \* dumps handed to encodeToMP3
  heard,      \* history: chunks heard since the process started; they number the audio
  paused,     \* bound: ticks without audio
  owed        \* history: recovered incidents whose dump is due

vars == <<det, capturer, manager, enc, encoding, heard, paused, owed>>

Capacity == Before + MaxIncident + After

Least(a, b) == IF a < b THEN a ELSE b

-------------------------------------------------------------------------------
\* copyFromRing: n chunks from the position pos on, whatever the ring holds there now.
FromRing(ring, pos, n) == [i \in 1..n |-> ring[(pos + i - 1) % Capacity]]

\* resetLocked; the ring keeps its content.
Cleared(c) == [c EXCEPT !.total = 0, !.captures = {}]

\* WriteAudio of one chunk, numbered x, without checkAndFinalize
Written(c, x) ==
  [c EXCEPT !.ring[c.total % Capacity] = x,
            !.total = @ + 1,
            !.captures = {[k EXCEPT !.inside =
                             IF ~k.recovered /\ Len(@) < MaxIncident THEN Append(@, x) ELSE @] : k \in @}]

\* extractAndEncode
Extracted(c, k) ==
  [trigger |-> k.trigger, id |-> k.id, base |-> k.base, from |-> k.start, to |-> k.end,
   pcm |-> k.before
           \o SubSeq(k.inside, 1, Least(k.end - k.start, Len(k.inside)))
           \o FromRing(c.ring, k.end, After)]

\* Mutated form of Complete: the audio after the incident is not waited for.
CompleteEarly(c) == {k \in c.captures : k.recovered}

\* checkAndFinalize: the recovered captures with enough audio after them. One write
\* finishes one of them.
Complete(c) == {k \in c.captures : k.recovered /\ c.total >= k.end + After}

Finalized(c) ==
  IF Complete(c) = {} THEN {[c |-> c, dumps |-> {}]}
  ELSE {[c |-> [c EXCEPT !.captures = @ \ {k}], dumps |-> {Extracted(c, k)}] : k \in Complete(c)}

\* OnIncidentStart replaces a capture that a reset of the detector has left open.
Replaced(captures, t) == {k \in captures : k.trigger = t /\ ~k.recovered}

Started(c, t, id) ==
  LET n == Least(c.total, Before) IN
  IF ~c.enabled THEN c
  ELSE [c EXCEPT !.captures = (@ \ Replaced(@, t)) \union
         {[trigger |-> t, id |-> id, start |-> c.total, end |-> 0, recovered |-> FALSE,
           before |-> FromRing(c.ring, c.total - n, n), inside |-> <<>>, base |-> heard + 2 - c.total]}]

\* OnIncidentRecover: the audio returned when the recovery began, took ticks ago.
Recovered(c, t, id, took) ==
  [c EXCEPT !.captures =
     {IF k.trigger = t /\ k.id = id /\ c.enabled
      THEN [k EXCEPT !.recovered = TRUE,
                     !.end = IF k.start < c.total - took THEN c.total - took ELSE k.start]
      ELSE k : k \in @}]

\* Manager.handleIncident
Handled(c, t, r) ==
  CASE r.justEntered   -> Started(c, t, r.id)
    [] r.justRecovered -> Recovered(c, t, r.id, r.took)
    [] OTHER           -> c

-------------------------------------------------------------------------------
\* Distributor.ProcessSamples: the chunk is buffered, and if it ends a metering window the
\* detectors and then the dump manager see it. (The orchestrator is in module Alerts.)
ProcessSamples(condition, window) ==
  LET older == [t \in Triggers |-> Older(det[t])]
      r == [t \in Triggers |-> Update(older[t], condition = t, FALSE)]
  IN /\ enc = "running" /\ heard < MaxAudio
     /\ heard' = heard + 1
     /\ \E f \in IF capturer.enabled THEN Finalized(Written(capturer, heard + 1))
                 ELSE {[c |-> capturer, dumps |-> {}]} :
          /\ encoding' = encoding \union f.dumps
          /\ det' = IF window THEN [t \in Triggers |-> r[t].d] ELSE older
          /\ capturer' = IF window THEN Handled(Handled(f.c, "silence", r["silence"]),
                                                "channel_imbalance", r["channel_imbalance"])
                         ELSE f.c
     /\ owed' = owed \union
          {k \in Triggers \X (1..MaxAudio) :
             window /\ r[k[1]].justRecovered /\ r[k[1]].id = k[2] /\
             \E p \in capturer.captures : p.trigger = k[1] /\ p.id = k[2]}
     /\ UNCHANGED <<manager, enc, paused>>

\* The clock goes on while the source is away.
Pause ==
  /\ enc = "running" /\ paused < Gap
  /\ paused' = paused + 1
  /\ det' = [t \in Triggers |-> Older(det[t])]
  /\ UNCHANGED <<capturer, manager, enc, encoding, heard, owed>>

\* encodeToMP3 has ended, with or without an error, and the callback is called.
Encoded(d) ==
  /\ d \in encoding
  /\ encoding' = encoding \ {d}
  /\ owed' = owed \ {<<d.trigger, d.id>>}
  /\ UNCHANGED <<det, capturer, manager, enc, heard, paused>>

\* SetEnabled, from the settings
SetEnabled(on) ==
  /\ on # capturer.enabled
  /\ capturer' = [(IF on THEN capturer ELSE Cleared(capturer)) EXCEPT !.enabled = on]
  /\ owed' = IF on THEN owed ELSE {<<d.trigger, d.id>> : d \in encoding}
  /\ UNCHANGED <<det, manager, enc, encoding, heard, paused>>

\* StartIfActive, once the source is confirmed
StartIfActive ==
  /\ enc = "running" /\ manager = "idle"
  /\ manager' = "running"
  /\ UNCHANGED <<det, capturer, enc, encoding, heard, paused, owed>>

\* resetDetection after the source has ended: the detectors, then Manager.Stop up to its
\* unlock. A manager that is not running leaves the capturer alone.
Stop ==
  /\ enc = "running"
  /\ enc' = "stopped"
  /\ det' = [t \in Triggers |-> ResetDetector(det[t])]
  /\ manager' = IF manager = "running" THEN "resetting" ELSE manager
  /\ UNCHANGED <<capturer, encoding, heard, paused, owed>>

\* The rest of Manager.Stop
ResetCapturer ==
  /\ manager = "resetting"
  /\ manager' = "idle"
  /\ capturer' = Cleared(capturer)
  /\ owed' = {<<d.trigger, d.id>> : d \in encoding}
  /\ UNCHANGED <<det, enc, encoding, heard, paused>>

\* Encoder.start, which waits for resetDetection
Start ==
  /\ enc = "stopped" /\ manager # "resetting"
  /\ enc' = "running"
  /\ det' = [t \in Triggers |-> ResetDetector(det[t])]
  /\ UNCHANGED <<capturer, manager, encoding, heard, paused, owed>>

Init ==
  /\ det = [t \in Triggers |-> NewDebouncer]
  /\ capturer = [enabled |-> TRUE, total |-> 0, ring |-> [i \in 0..(Capacity - 1) |-> 0], captures |-> {}]
  /\ manager = "idle" /\ enc = "running"
  /\ encoding = {} /\ owed = {}
  /\ heard = 0 /\ paused = 0

Next ==
  \/ \E condition \in Triggers \union {"none"}, window \in BOOLEAN : ProcessSamples(condition, window)
  \/ Pause
  \/ \E d \in encoding : Encoded(d)
  \/ \E on \in BOOLEAN : SetEnabled(on)
  \/ StartIfActive \/ Stop \/ ResetCapturer \/ Start

Spec == Init /\ [][Next]_vars

-------------------------------------------------------------------------------
\* README.md, "15 seconds of context before and after the incident": a dump is the audio
\* just before its incident, the beginning of the incident, and the audio from the moment
\* the incident was over, whatever else was captured, reset or overwritten meanwhile.
DumpIsContext ==
  \A d \in encoding :
    LET n == Least(d.from, Before)
        m == Least(d.to - d.from, MaxIncident)
    IN d.pcm = [i \in 1..(n + m + After) |->
                  d.base + (IF i <= n + m THEN d.from - n ELSE d.to - n - m) + i - 1]

\* A recovered incident keeps its capture until its dump is encoded, although a newer
\* incident of the same trigger may begin: only a reset or the settings give it up.
RecoveredKept ==
  \A k \in owed : \E c \in capturer.captures \union encoding : c.trigger = k[1] /\ c.id = k[2]
===============================================================================
