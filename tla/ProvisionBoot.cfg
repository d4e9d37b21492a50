SPECIFICATION FairSpec
CONSTANTS
  ParamCount = 3
  Values <- MCValues
  Transparent = "0"
  AP = 1
  Factory <- MCOtherFactory
  Custom <- MCCustom
  Config <- MCConfig
  Readable = {1, 2}
  IsDefault = {2}
  MaxAccepted = 1
  Hosted = FALSE
  Reviews = {FALSE}
  Touched = {}
  Faults = {"loss", "refuse", "late", "lapse", "reboot", "txbusy", "dead", "pulse"}
  MaxInFlight = 2
INVARIANTS IInv
PROPERTIES RunEnds
CHECK_DEADLOCK FALSE
