------------------------------- MODULE MCOutbox -------------------------------
(* Recordings are interchangeable, and so are file names.                  *)
EXTENDS Outbox, TLC

Symmetry == Permutations(Recs) \cup Permutations(Paths)
===============================================================================
