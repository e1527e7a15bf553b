SPECIFICATION FairSpec
CONSTANTS
  FeatureNorm <- MCNorm
  FeatureWeight <- MCWeight
  Threshold <- MCThreshold
  Bonus <- MCBonus
  Gate <- MCGate
  Leaf = {"a", "b", "c", "d", "e"}
  Summary = {"S", "T"}
  Of <- MCOf
  ChildIds <- MCChildIds
  Similar = {{"a", "e"}}
  Request <- MCRequest
  FirstNodes = {"a", "b", "c", "d", "S", "T"}
  Contended = {"b", "S"}
  MaxChanges = 2
INVARIANTS
  TypeOK
  BudgetKept
  BookkeepingAgrees
  AccessOnceEach
  NothingFitsIfEmpty
  ContextPacked
PROPERTIES
  EveryCallEnds
CHECK_DEADLOCK FALSE
