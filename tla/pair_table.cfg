CONSTANTS
  Devices = {d1, d2, d3}
  Users = {u1}
  MAX_DEVICE = 2
  NULL = NULL
  Faults = {"register", "alloc", "cdev"}
  MaxCdevs = 3
  MaxReserved = 0

SPECIFICATION Spec
SYMMETRY Symmetry

INVARIANTS
  TypeOK
  NodeHasDevice
  NoEntryLost
PROPERTIES
  DeletedTwiceOnlyAfterFailure
