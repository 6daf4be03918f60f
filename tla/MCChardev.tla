----------------------------- MODULE MCChardev -----------------------------
EXTENDS Chardev, TLC

Symmetry == Permutations(Procs) \cup Permutations(Files)
=============================================================================
