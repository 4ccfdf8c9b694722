SPECIFICATION Spec
CONSTANTS
  e1 = e1
  e2 = e2
  w1 = w1
  w2 = w2
  Enrollments <- TwoEnrollments
  Workers <- TwoWorkers
  Refs <- RefsToBoth
  InitStates <- Waiting
  InitCursors <- Baselined
  BarePushes = FALSE
  FinalizeWired = TRUE
  MaxHistory = 1
  MaxAudit = 2
  MaxDeletes = 0
  MaxZombies = 1
INVARIANTS
  StagedStaysLegal
  AuditIsLegalWalk
  TerminalFinalized
PROPERTIES
  ImplementsEnrollment
CHECK_DEADLOCK FALSE
