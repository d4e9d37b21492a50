SPECIFICATION Spec
CONSTANTS
  MaxData = 22
  MaxPayload = 2
  MaxPassword = 3
  Tails = {0, 2, 8}
  Seeds = {0, 1, 3, 5, 6}
  Follow = {"MODEM_STATUS"}
  MaxFrames = 2
  MaxUpsets = 1
INVARIANTS
  Delivered
  NothingForged
  InBounds
