CONSTANTS
  r1 = r1
  r2 = r2
  r3 = r3
  a1 = a1
  a2 = a2
  k1 = k1
  k2 = k2
  k3 = k3
  i1 = i1
  i2 = i2
  None = None
  Requests = {r1, r2, r3}
  Anchors = {a1, a2}
  Keys = {k1, k2, k3}
  RowIds = {i1, i2}
SPECIFICATION Spec
INVARIANT NoRowWithoutObject
INVARIANT OneRowPerAnchor
INVARIANT KeysPrivate
INVARIANT LeaksNeedTrouble
PROPERTY ImplementsSlots
CHECK_DEADLOCK FALSE
