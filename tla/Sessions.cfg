CONSTANTS
  b1 = b1
  b2 = b2
  r1 = r1
  r2 = r2
  Browsers = {b1, b2}
  Requests = {r1, r2}
  AccessTTL = 0
  RefreshTTL = 2
  Recent = 2
  MaxNow = 3
  MaxFaults = 1
SPECIFICATION Spec
INVARIANT OneLiveSession
INVARIANT CalmSessionSurvives
INVARIANT EndedStaysEnded
INVARIANT SharedRefresh
PROPERTY RequestsAreAnswered
CHECK_DEADLOCK FALSE
