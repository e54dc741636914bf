CONSTANTS
  p1 = p1
  p2 = p2
  k1 = k1
  k2 = k2
  c1 = c1
  d1 = d1
  d2 = d2
  None = None
  Passwords = {p1, p2}
  Devices = {k1, k2}
  Codes = {c1}
  DataKeys = {d1}
  Callers <- MixedCallers
  MethodLists <- MixedLists
  MaxSlots = 2
  MaxIds = 3
  MaxDamage = 1
  MixKeys = TRUE
SPECIFICATION Spec
INVARIANTS SavedEnvelopeOpens PolicyLoopAgrees
PROPERTIES PolicyStable
