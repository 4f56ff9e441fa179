---------------------------- MODULE MCCallerStream ----------------------------
EXTENDS CallerStream, TLC

Symmetry == Permutations(Workers)
===============================================================================
