SPECIFICATION FairSpec
CONSTANTS
  r1 = r1
  r2 = r2
  r3 = r3
  k1 = k1
  k2 = k2
  Thread = {t1, t2}
  Request = {r1, r2, r3}
  Balanced = {r1, r3}
  Key <- MCKey
  None = None
INVARIANTS
  TypeOK
  OnlyOverlapMixes
  CacheDrains
PROPERTIES
  EveryRequestEnds
