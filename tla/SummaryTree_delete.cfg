SPECIFICATION Spec
CONSTANTS
  l1 = l1
  l2 = l2
  l3 = l3
  Leaf = {l1}
  Clusters <- MCClusters
  Salient <- MCSalient
  NoNode = NoNode
  NoRow = NoRow
  Summary = {s1, s2}
  Builder = {b1}
  Verifier = {v1}
  Refresher = {r1}
  MayCrash = TRUE
  Deleter = {d1}
INVARIANTS
  EdgesMatchRows
PROPERTIES
  OnlyWritersResurrect
SYMMETRY Symmetry
CHECK_DEADLOCK FALSE
