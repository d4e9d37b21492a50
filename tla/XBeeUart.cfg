SPECIFICATION FairSpec
CONSTANTS
  RingSize = 3
  HwDepth = 1
  MaxRefusals = 1
  MaxBytes = 4
  MaxWrites = 2
INVARIANTS SlotsApart InOrder
PROPERTIES BufferOwned FreeAgain
CHECK_DEADLOCK FALSE
