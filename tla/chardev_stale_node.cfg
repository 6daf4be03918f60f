CONSTANTS
  Procs = {p1}
  Files = {f1}
  NULL = NULL
  BUFFER_SIZE = 6
  FixedText = 3
  MaxOpens = 2
  MaxLoads = 2
  HasProc = TRUE
  Faults = {"proc"}

SPECIFICATION Spec
SYMMETRY Symmetry

INVARIANTS
  UnloadUnregisters
