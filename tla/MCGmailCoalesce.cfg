SPECIFICATION FairSpec
CONSTANTS
  e1 = e1
  e2 = e2
  w1 = w1
  w2 = w2
  Enrollments <- OneEnrollment
  Workers <- OneWorker
  Refs <- RefsToOne
  InitStates <- Waiting
  InitCursors <- Baselined
  BarePushes = FALSE
  FinalizeWired = TRUE
  MaxHistory = 2
  MaxAudit = 1
  MaxDeletes = 0
  MaxZombies = 0
PROPERTIES
  EveryMessageScanned
CHECK_DEADLOCK FALSE
