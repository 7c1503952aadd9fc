SPECIFICATION FairSpec
CONSTANTS
  Byte = 2
  Sessions <- MCSessions
  Size <- MCSize
INVARIANT CutDataIsNoticed
PROPERTY ArrivesAsTyped
PROPERTY ReaderEnds
CHECK_DEADLOCK FALSE
