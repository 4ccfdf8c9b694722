SPECIFICATION Spec
CONSTANTS
  e1 = e1
  e2 = e2
  w1 = w1
  w2 = w2
  Enrollments <- OneEnrollment
  Workers <- OneWorker
  Refs <- RefsToOne
  InitStates <- Waiting
  InitCursors <- Unset
  BarePushes = TRUE
  FinalizeWired = TRUE
  MaxHistory = 3
  MaxAudit = 1
  MaxDeletes = 0
  MaxZombies = 0
INVARIANTS
  NoReplySkipped
CHECK_DEADLOCK FALSE
