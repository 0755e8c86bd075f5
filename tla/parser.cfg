CONSTANTS
  MaxByte = 2
  Magic0 = 1
  Magic1 = 2
  Crc <- MCCrc
  MaxStream = 12
  MaxChunk = 12
SPECIFICATION Spec
INVARIANTS FramesAreThoseSent ParserIsTheReference
CHECK_DEADLOCK FALSE
