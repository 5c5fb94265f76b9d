\* Every value of every type, read back from every arrangement of blocks.
\* CHECK_DEADLOCK FALSE: nothing is followed after a reader went astray.
SPECIFICATION Spec
CONSTANTS
  Bits = 7
  DigitBits = 3
  PositionBits = 3
  HeightBits = 2
  WordBits = 8
  OctetBits = 4
  NumberOctets = 4
  Polynomial = {3, 10, 15}
  MaxInt = 64
  BLOCK_SIZE = 4
  Byte <- Cells
  Zero <- Blank
  Samples <- Values
  Positions = {0, 3, 4, 7, 8}
  Others <- OtherBits
  Rooms = {0, 9}
  MaxRecords = 2
  NumberSamples <- Single
  MaxNumbers = 3
INVARIANTS
  WriterInLastBlock
  ReadBack
  NumbersSurvive
  TextSurvives
  BitSetAgrees
  HashTells
PROPERTY
  ByteQueue
CHECK_DEADLOCK FALSE
