CONSTANTS
  Devices = {d1, d2, d3}
  MAX_DEVICE = 2
  NULL = NULL
  Faults = {"alloc", "class", "register", "enable", "regions", "ioremap", "cdev"}
  MaySlip = {"order", "failed"}

SPECIFICATION Spec
SYMMETRY Symmetry

INVARIANTS
  TypeOK
  ExclusiveContext
  ContextServesDevice
  NothingLeftBehind
  
  CounterIsAttached
  DefinedButFor
PROPERTIES
  ImplementsTable
