CONSTANTS
  Devices = {d1, d2}
  NULL = NULL
  Faults = {"regions", "ioremap"}
  AnswerTags = {"free"}
  Cards <- MCCards
  Retries = 2
  MaxProbes = 2
  MAX_CHIP_IN_DEVICE = 16
  MESSAGE_SIZE = 256
  TAG_SIZE = 4
  WINDOW = 4096

SPECIFICATION Spec

INVARIANTS
  TypeOK
  HeldWhileBound
  UndefinedOnlyAfterSlip
  ChipsHaveRoom
PROPERTIES
  ProbeEnds
  ImplementsMailbox
