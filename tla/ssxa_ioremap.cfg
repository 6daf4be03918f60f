CONSTANTS
  Devices = {d1}
  MAX_DEVICE = 1
  NULL = NULL
  Faults = {"ioremap"}
  MaySlip = {"failed"}

SPECIFICATION Spec
SYMMETRY Symmetry

INVARIANTS
  HoldZeroMeansHeld
