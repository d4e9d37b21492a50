SPECIFICATION Spec
CONSTANTS
  Timeouts = {8, 14, 24}
  Margin = 2
  ReplyTimeout = 3
  FlashTimeout = 5
  Latency = 2
  Entries = 2
  MaxLosses = 4
INVARIANTS  WaitSurvives
 
CHECK_DEADLOCK FALSE
