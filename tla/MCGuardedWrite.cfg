SPECIFICATION Spec
CONSTANTS
  c1 = c1
  c2 = c2
  k1 = k1
  NoKey = NoKey
  Calls <- TwoCalls
  Keys <- OneKey
  Stages <- TwoStages
  Requests <- MixedRequests
  MaxTime = 1
  MaxLog = 2
  MaxTokens = 1
  KeyTTL = 1
  TokenTTL = 0
SYMMETRY CallSymmetry
INVARIANTS
  TypeOK
  KeyHoldsFirstResponse
  ActsTwiceOnlyByRaceOrExpiry
  ClosedOnlyAsPreviewed
CHECK_DEADLOCK FALSE
