CONSTANTS
  Procs = {p1, p2}
  Files = {f1, f2}
  NULL = NULL
  BUFFER_SIZE = 6
  FixedText = 3
  MaxOpens = 10
  MaxLoads = 2
  HasProc = TRUE
  Faults = {"proc"}

SPECIFICATION Spec
SYMMETRY Symmetry

INVARIANTS
  TypeOK
  ExclusiveOpen
  BusyOnlyWhileOpen
  RefsCountFiles
  
  StaysInBuffer
