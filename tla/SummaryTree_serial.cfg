SPECIFICATION FairSpec
CONSTANTS
  l1 = l1
  l2 = l2
  l3 = l3
  Leaf = {l1, l2, l3}
  Clusters <- MCClusters
  Salient <- MCSalient
  NoNode = NoNode
  NoRow = NoRow
  Summary = {s1, s2, s3}
  Builder = {b1}
  Verifier = {}
  Refresher = {r1}
  MayCrash = FALSE
  Deleter = {}
INVARIANTS
  BacklinksComplete
  LiveIsNewest
  NoClusterDropped
PROPERTIES
  StaleSticks
  RefinesLineage
  BuildTerminates
CHECK_DEADLOCK FALSE
