SPECIFICATION FairSpec
CONSTANTS
  Thread = {t1, t2}
  Job <- MCJob
  NoJob = NoJob
  NoEvents = NoEvents
  MaxJobs = 2
  MaxClusters = 1
  MaxRetries = 1
INVARIANTS
  TypeOK
  OwnEventsOnly
  ReportComplete
PROPERTY
  JobsEnd
CHECK_DEADLOCK FALSE
