CONSTANTS
  Ids = {1, 2}
  Values = {"v"}
  Conditions <- MCConditions
  Match <- MCMatch
  LiveFields <- MCLiveFields
  Hits <- MCHits
  Saved = {"mine", "theirs"}
  Mine = {"mine"}
  Config <- MCConfig
  GroupFields = {"name"}
  MaxToasts = 2
  MaxOps = 4
  MaxFaults = 1
SPECIFICATION Spec
INVARIANT NameTellsConditions
INVARIANT RecoveredIsKept
INVARIANT CalmTouchWins
INVARIANT BoardShowsServer
PROPERTY SettledOnce
CHECK_DEADLOCK FALSE
