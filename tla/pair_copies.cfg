CONSTANTS
  Devices = {d1, d2}
  Users = {u1}
  MAX_DEVICE = 2
  NULL = NULL
  Faults = {"register", "alloc", "cdev", "regions"}
  MaxCdevs = 5
  MaxReserved = 2

SPECIFICATION CopiesSpec
SYMMETRY Symmetry

INVARIANTS
  NodeHasDevice
  NoEntryLost
