SPECIFICATION RingSpec
CONSTANTS
  Capacity = 4
  Bytes = {"a", "b"}
  MaxRead = 2
INVARIANTS SidesApart CountIsSafe
PROPERTIES FifoSpec
