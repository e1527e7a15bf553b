SPECIFICATION Spec
CONSTANTS
  e1 = e1
  Event = {e1}
  NoEvent = NoEvent
  NoLeaf = NoLeaf
  Caller = {c1, c2}
  Node = {n1, n2, n3}
  Record <- MCRecord
  Batch <- MCBatch
INVARIANTS
  TypeOK
  DuplicatesOnlyFromRace
  EventsCovered
  EarliestKept
  BuildCovers
SYMMETRY Symmetry
