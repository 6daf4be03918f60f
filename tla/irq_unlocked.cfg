CONSTANTS
  DEVICE_CELL_COUNT = 2
  NULL = NULL
  MaxAsks = 2

SPECIFICATION Spec

PROPERTIES
  FreesOnlyAnswers
