CONSTANTS
  l1 = l1
  l2 = l2
  r1 = r1
  r2 = r2
  t1 = t1
  t2 = t2
  i1 = i1
  i2 = i2
  None = None
  Lines = {l1}
  Qty = {1}
  Requests = {r1}
  Tabs = {t1}
  Invoices = {i1, i2}
  MaxOps = 1
  Picks = {"sent"}
  MaxPicks = 0
  MaxFaults = 0
SPECIFICATION Spec
PROPERTY TotalsNeverStale
CHECK_DEADLOCK FALSE
