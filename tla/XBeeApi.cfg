SPECIFICATION Spec
CONSTANTS
  Requests = {r1, r2, r3}
  MaxPending = 2
  FrameIdMax = 4
  MaxAge = 2
  MaxOwed = 2
SYMMETRY Objects
INVARIANTS TrackedOnce AnswersOwn
PROPERTIES Untouched
