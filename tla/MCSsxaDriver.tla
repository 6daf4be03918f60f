---------------------------- MODULE MCSsxaDriver ----------------------------
EXTENDS SsxaDriver, TLC

Symmetry == Permutations(Devices)
=============================================================================
