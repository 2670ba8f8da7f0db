CONSTANTS
  c1 = c1
  u1 = u1
  Crons = {c1}
  Users = {}
  Years = {0, 2}
  MaxTime = 1
  MaxRuns = 2
  MaxTrouble = 1
SPECIFICATION Spec
PROPERTY RescheduleSurvives
