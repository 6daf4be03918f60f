CONSTANTS
  Devices = {d1, d2}
  MAX_DEVICE = 1
  NULL = NULL
  Faults = {"enable", "regions", "ioremap", "cdev"}
  MaySlip = {"overlap", "order", "failed"}

SPECIFICATION Spec
SYMMETRY Symmetry

PROPERTIES
  DriftHasACause
