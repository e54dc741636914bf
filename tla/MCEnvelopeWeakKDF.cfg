CONSTANTS
  p1 = p1
  p2 = p2
  k1 = k1
  k2 = k2
  c1 = c1
  d1 = d1
  d2 = d2
  None = None
  Passwords = {p1, p2}
  Devices = {k1, k2}
  Codes = {c1}
  DataKeys = {d1}
  Callers <- WeakCallers
  MethodLists <- WeakLists
  MaxSlots = 2
  MaxIds = 2
  MaxDamage = 0
  MixKeys = FALSE
SPECIFICATION Spec
INVARIANT Rederivable
