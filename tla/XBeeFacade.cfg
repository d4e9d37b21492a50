SPECIFICATION FairSpec
CONSTANTS
  MaxResets = 1
  Asked = {"AUTO", "TRANSPARENT", "API2"}
  Stored = {"TRANSPARENT"}
  Targets = {"API2"}
  Elsewhere = {"PYTHON"}
INVARIANTS OneInFlight PolledWhereSent ModeFollows
PROPERTIES RequestEnds BringUpEnds
