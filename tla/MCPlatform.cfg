SPECIFICATION PlatformSpec
CONSTANTS
  acme = acme
  www = www
  op1 = op1
  op2 = op2
  ann = ann
  bob = bob
  ea = ea
  eb = eb
  tk = tk
  Operators = {op1, op2}
  Slugs = {acme, www}
  Reserved = {www}
  Emails = {ea, eb}
  NoEmail = NoEmail
  Persons = {ann, bob}
  TokenNames = {tk}
  MaxId = 2
  MaxCommands = 2
  MaxRequests = 4
  Claims <- MCClaims
  j1 = j1
  j2 = j2
  Holders = {ann, bob}
  Jtis = {j1, j2}
  NoJti = NoJti
  Bits = {1, 2, 3}
  Probe <- MCProbe
  MaxAge = 1
  MaxTime = 4
INVARIANTS
  VerifyHolds TombstoneAudited NothingOutlivesItsWorkspace IntegratorHasGrant
  RevokedIsRefused OnlyRevokedIsRefused
PROPERTIES
  SlugsAreRetiredForGood OwnersLeaveOnlyByKnownWays SignInOnlyRaises
CHECK_DEADLOCK FALSE
