---------------------------- MODULE MCPciCopies ----------------------------
EXTENDS PciCopies, TLC

Symmetry == Permutations(Devices)
=============================================================================
