SPECIFICATION Spec
CONSTANTS
  l1 = l1
  l2 = l2
  l3 = l3
  Leaf = {l1, l2, l3}
  Clusters <- MCClusters
  Salient <- MCSalient
  NoNode = NoNode
  NoRow = NoRow
  Summary = {s1, s2}
  Builder = {b1, b2}
  Verifier = {}
  Refresher = {}
  MayCrash = FALSE
  Deleter = {}
INVARIANTS
  BacklinksComplete
CHECK_DEADLOCK FALSE
