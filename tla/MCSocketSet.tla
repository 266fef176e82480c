---------------------------- MODULE MCSocketSet -----------------------------
EXTENDS SocketSet, TLC

CONSTANT MaxLeaks    \* failed clones that are explored

Symmetry == Permutations(Objs)
BoundedLeaks == \A h \in Handles : leaked[h] <= MaxLeaks
==============================================================================
