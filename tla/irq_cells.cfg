CONSTANTS
  DEVICE_CELL_COUNT = 2
  NULL = NULL
  MaxAsks = 2

SPECIFICATION Spec

INVARIANTS
  TypeOK
  AnswerIsOnItsWay
  SleeperIsWoken
PROPERTIES
  LineSettles
  AnswerWakes
  CellsAreMailboxes
