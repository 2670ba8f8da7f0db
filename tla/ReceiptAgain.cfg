CONSTANTS
  Visits = {"v1"}
  Tenants <- MCTenants
  Lines <- MCLines
  MaxMonth = 2
  MaxPresses = 2
  MaxTroubles = 0
SPECIFICATION Spec
INVARIANT DisabledOnceRun
CHECK_DEADLOCK FALSE
