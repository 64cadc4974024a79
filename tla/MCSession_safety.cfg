SPECIFICATION FairSpec
CONSTANTS
  N = 5
  K = 3
  Secret    = {2, 3}
  Ephemeral = {1, 2, 4}
  Mask      = {1, 4}
  Garbage   = {0, 3}
  Killable  = {"client", "server"}
  Point     <- MCPoint
  Infinity  <- MCInfinity
  Word      <- MCWord
  BasePoint <- MCBasePoint
  Add       <- MCAdd
  Neg       <- MCNeg
  XCoord    <- MCXCoord
  DeriveKey <- MCDeriveKey
  XorEncrypt       <- MCXorEncrypt
INVARIANTS
  IInv
  FramesInLockstep
  CorrelatedRounds
  RoundsDetermineProduct
  RoundSkew
  DoneMeansAgreed
  FailureHasRootCause
  AbortsOnlyOnCollision
PROPERTIES
  RefinesCorrelatedOT
  EverySessionEnds
  ServerDoneCompletesClient
