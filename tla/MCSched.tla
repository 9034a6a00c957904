------------------------------- MODULE MCSched -------------------------------
EXTENDS SchedLife, TLC

CONSTANTS t1, t2, t3, h1, h2, o

Symmetry == Permutations(Tasks) \cup Permutations(Hooks)
=============================================================================
