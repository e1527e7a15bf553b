SPECIFICATION FairSpec
CONSTANTS
  Slice <- MCSlice
  SliceWeight <- MCSliceWeight
  Config <- MCConfig
  Policy = {"p1", "p2"}
  OptimizerSeeds <- MCOptimizerSeeds
  Baseline = "none"
  Measured <- MCMeasured
  NoResult = NoResult
  NoRun = NoRun
  NoFile = NoFile
  TornFile = TornFile
  MaxStarts = 2
  MaxEdits = 1
INVARIANTS
  TypeOK
  OncePerCandidate
  RankedIsRecorded
  ResumeAgrees
  MixNeedsResume
  BestOnFrontier
PROPERTIES
  RecordedKept
  SweepEnds
CHECK_DEADLOCK FALSE
