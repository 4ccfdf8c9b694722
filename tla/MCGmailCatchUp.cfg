SPECIFICATION FairSpec
CONSTANTS
  e1 = e1
  e2 = e2
  w1 = w1
  w2 = w2
  Enrollments <- OneEnrollment
  Workers <- OneWorker
  Refs <- RefsToOne
  InitStates <- Waiting
  InitCursors <- Baselined
  BarePushes = FALSE
  FinalizeWired = FALSE
  MaxHistory = 2
  MaxAudit = 2
  MaxDeletes = 1
  MaxZombies = 0
INVARIANTS
  TypeOK
  IllegalOnlyByRace
PROPERTIES
  EnqueuedScanCatchesUp
CHECK_DEADLOCK FALSE
