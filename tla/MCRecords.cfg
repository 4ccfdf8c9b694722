SPECIFICATION RecordsSpec
CONSTANTS
  ann = ann
  bob = bob
  rea = rea
  e1 = e1
  acme = acme
  d1 = d1
  a1 = a1
  a2 = a2
  bounced = bounced
  arrived = arrived
  Clients = {ann, bob}
  Readers = {rea}
  Role <- MCRole
  Emails = {e1}
  NoEmail = NoEmail
  Names = {acme}
  Blank = Blank
  Domains = {d1}
  Keys = {k1}
  NoKey = NoKey
  PageLimit = 1
  MaxRecords = 10
  MaxWrites = 3
  Alike <- MCAlike
  Files <- MCFiles
  Urls = {u1}
  NoUrl = NoUrl
  Invitations = {v1}
  Editors = {w1, w2, w3}
  Props = {p1}
  Types = {t1, t2}
  MaxEdits = 4
  Messages = {m1}
  To <- MCTo
  ProviderEvents = {bounced, arrived}
  About <- MCAbout
  Contacts = {a1}
  Runners = {r1, r2}
  SoftBounceSuppressThreshold = 2
  MonthlySendCap = 3
  MaxWindows = 2
  MaxOutbound = 5
INVARIANTS
  WalkIsComplete StageIsTold PreviewIsCommit BornOnce
  CacheFollowsTheTable DeletedIsStripped OneBag
  HonoursAcknowledged TwiceOnlyAfterALoss SoftRunSuppresses
PROPERTIES
  NoRelationIsOrphaned MergeKeepsOne
CHECK_DEADLOCK FALSE
