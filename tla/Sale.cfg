CONSTANTS
  l1 = l1
  l2 = l2
  r1 = r1
  r2 = r2
  t1 = t1
  t2 = t2
  i1 = i1
  i2 = i2
  None = None
  Lines = {l1}
  Qty = {1}
  Requests = {r1, r2}
  Tabs = {t1, t2}
  Invoices = {i1, i2}
  MaxOps = 2
  Picks = {"sent"}
  MaxPicks = 1
  MaxFaults = 1
SPECIFICATION Spec
CONSTRAINT Scope
INVARIANT TotalsMatch
INVARIANT AcceptedHasInvoice
INVARIANT InvoicedOnce
PROPERTY TerminalIsKept
SYMMETRY Symmetry
CHECK_DEADLOCK FALSE
