CONSTANTS
  Devices = {d1, d2}
  MAX_DEVICE = 2
  NULL = NULL
  Faults = {}
  MaySlip = {"order", "failed"}

SPECIFICATION Spec
SYMMETRY Symmetry

INVARIANTS
  ExclusiveInAnyOrder
