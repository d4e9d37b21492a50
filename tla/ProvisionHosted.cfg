SPECIFICATION FairSpec
CONSTANTS
  ParamCount = 3
  Values <- MCValues
  Transparent = "0"
  AP = 1
  Factory <- MCFactory
  Custom <- MCCustom
  Config <- MCConfig
  Readable = {1, 2}
  IsDefault = {2}
  MaxAccepted = 1
  Hosted = TRUE
  Reviews = {TRUE, FALSE}
  Touched = {2}
  Faults = {"loss", "refuse", "lapse", "dead","txbusy", "pulse", "reboot"}
  MaxInFlight = 0
INVARIANTS RequestOwned OneWritePerRun NothingWritten AbortHonoured WrittenMeansStored
PROPERTIES DiscardRestores FlashOnlyBySave NothingSentBeforeWrAnswers AlreadyMeansMatching DecisionEnds
