SPECIFICATION FairSpec
CONSTANTS
  EscapeCount = 3
  Guard = 2
  RingSize = 4
  Chunk = 2
  MaxTyped = 4
INVARIANTS InOrder Counted
PROPERTIES ExitOnSequence HeldEnds
