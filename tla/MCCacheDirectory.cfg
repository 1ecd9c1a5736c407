SPECIFICATION Spec
CONSTANTS
  w1 = w1
  w2 = w2
  c = c
  None = None
  Writers = {w1, w2}
  Cleaners = {c}
  OldGroups = {}
  MaxGroups = 1
  MaxAge = 0
  MaxFaults = 2
  LastDay = 1
CHECK_DEADLOCK FALSE
PROPERTIES NeverClaimsData LockedWriterStores QuarantineWhole
