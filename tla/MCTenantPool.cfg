SPECIFICATION FairSpec
CONSTANTS
  j1 = j1
  j2 = j2
  j3 = j3
  r1 = r1
  r2 = r2
  p1 = p1
  p2 = p2
  p3 = p3
  p4 = p4
  p5 = p5
  NoPool = NoPool
  Closer = Closer
  Nobody = Nobody
  Jobs <- ThreeJobs
  Roles <- TwoRoles
  Pools <- FivePools
  MaxPools = 1
  MaxConns = 1
INVARIANTS
  TypeOK
  ConnectionsBounded
  LruListsThePools
  WorkersAreAccountedFor
  ShutMeansDrained
PROPERTIES
  AskersAreAnswered
