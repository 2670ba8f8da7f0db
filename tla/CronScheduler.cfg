CONSTANTS
  c1 = c1
  u1 = u1
  Crons = {c1}
  Users = {u1}
  Years = {0, 2}
  MaxTime = 1
  MaxRuns = 2
  MaxTrouble = 1
SPECIFICATION FairSpec
INVARIANT RefireNeedsTrouble
INVARIANT HistoryHasLog
PROPERTY OnlyRestoreRevives
PROPERTY YoungHistoryKept
PROPERTY DueCronsRun
CHECK_DEADLOCK FALSE
