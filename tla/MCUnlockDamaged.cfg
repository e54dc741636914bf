CONSTANTS
  p1 = p1
  p2 = p2
  k1 = k1
  k2 = k2
  c1 = c1
  c2 = c2
  d1 = d1
  None = None
  Passwords = {p1, p2}
  Devices = {k1, k2}
  Codes = {c1, c2}
  DataKeys = {d1}
  SlotLists <- Lists
  MethodLists <- Calls
  MaxSwaps = 0
SPECIFICATION Spec
INVARIANT DamagedSlotIsSkipped
