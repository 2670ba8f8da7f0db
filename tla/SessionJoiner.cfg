CONSTANTS
  b1 = b1
  r1 = r1
  r2 = r2
  Browsers = {b1}
  Requests = {r1, r2}
  AccessTTL = 1
  RefreshTTL = 2
  Recent = 2
  MaxNow = 3
  MaxFaults = 0
SPECIFICATION Spec
INVARIANT JoinerKeepsSession
SYMMETRY Symmetry
CHECK_DEADLOCK FALSE
