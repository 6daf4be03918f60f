CONSTANTS
  ByteSize = 4
  Word = 16
  HeaderLen = 3
  DataLen = 4

SPECIFICATION Spec

INVARIANTS
  TypeOK
  SumIsWeighted
  OneByteDetected
  ExchangeDetected
  CrcInPlace
