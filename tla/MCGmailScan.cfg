SPECIFICATION Spec
CONSTANTS
  e1 = e1
  e2 = e2
  w1 = w1
  w2 = w2
  Enrollments <- OneEnrollment
  Workers <- TwoWorkers
  Refs <- NoRefs
  InitStates <- Waiting
  InitCursors <- Baselined
  BarePushes = FALSE
  FinalizeWired = FALSE
  MaxHistory = 2
  MaxAudit = 1
  MaxDeletes = 1
  MaxZombies = 1
INVARIANTS
  NoReplySkipped
  CursorWithinMailbox
SYMMETRY WorkerSymmetry
CHECK_DEADLOCK FALSE
