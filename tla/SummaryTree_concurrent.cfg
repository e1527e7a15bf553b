SPECIFICATION Spec
CONSTANTS
  l1 = l1
  l2 = l2
  l3 = l3
  Leaf = {l1, l2}
  Clusters <- MCClusters
  Salient <- MCSalient
  NoNode = NoNode
  NoRow = NoRow
  Summary = {s1, s2}
  Builder = {b1, b2}
  Verifier = {v1}
  Refresher = {r1}
  MayCrash = TRUE
  Deleter = {}
INVARIANTS
  TypeOK
  LinksSound
  TracesPrecedeRows
PROPERTIES
  IdentityFixed
SYMMETRY Symmetry
CHECK_DEADLOCK FALSE
