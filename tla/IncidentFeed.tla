------------------------------ MODULE IncidentFeed -----------------------------
(***************************************************************************)
(* What a reader of incidents may count on, be it the event log or an      *)
(* alert channel.  Entries may be missing, because queues are bounded and  *)
(* deliveries fail, but what arrives is in order: an incident's start is   *)
(* newer than everything before it; its end follows its own start and no   *)
(* other, uses the settings of that start, and comes once; its audio dump  *)
(* comes once, with the same settings, and never before the end.           *)
(***************************************************************************)
EXTENDS Naturals

CONSTANTS Triggers, Ids, Cfgs

VARIABLE feed    \* the newest incident of each trigger and the dumps that have arrived

NoIncident == [id |-> 0, phase |-> "none", cfg |-> "none", dumped |-> {}]

Init == feed = [t \in Triggers |-> NoIncident]

Start(t, id, cfg) ==
  /\ id > feed[t].id
  /\ feed' = [feed EXCEPT ![t] = [@ EXCEPT !.id = id, !.phase = "start", !.cfg = cfg]]

End(t, id, cfg) ==
  /\ id >= feed[t].id
  /\ id = feed[t].id => feed[t].phase = "start" /\ feed[t].cfg = cfg
  /\ feed' = [feed EXCEPT ![t] = [@ EXCEPT !.id = id, !.phase = "end", !.cfg = cfg]]

\* A dump implies the end, which may be missing but cannot follow any more.
Dump(t, id, cfg) ==
  /\ \A d \in feed[t].dumped : d.id # id
  /\ id = feed[t].id => feed[t].cfg = cfg
  /\ feed' = [feed EXCEPT ![t] =
       LET shown == IF id >= @.id THEN [@ EXCEPT !.id = id, !.phase = "end", !.cfg = cfg] ELSE @
       IN [shown EXCEPT !.dumped = @ \union {[id |-> id, cfg |-> cfg]}]]

\* Each arrival changes the feed (said first because a check evaluates it first).
Next ==
  /\ feed' # feed
  /\ \E t \in Triggers, id \in Ids, cfg \in Cfgs :
       Start(t, id, cfg) \/ End(t, id, cfg) \/ Dump(t, id, cfg)

Spec == Init /\ [][Next]_feed
===============================================================================
