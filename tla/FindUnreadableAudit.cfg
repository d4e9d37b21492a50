SPECIFICATION Spec
CONSTANTS
  ParamCount = 2
  Values <- MCValues
  Transparent = "0"
  AP = 1
  Factory <- MCFactory
  Custom <- MCCustom
  Config <- MCConfig
  Readable = {1, 2}
  IsDefault = {2}
  MaxAccepted = 1
  Hosted = TRUE
  Reviews = {FALSE}
  Touched = {}
  Faults = {"lapse"}
  MaxInFlight = 0
PROPERTIES AlreadyMatched
