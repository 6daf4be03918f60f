----------------------------- MODULE MCPciPair -----------------------------
EXTENDS PciPair, TLC

Symmetry == Permutations(Devices)
=============================================================================
