SPECIFICATION DemoSpec
CONSTANTS
  N = 31
  K = 5
  Secret    = {2, 21, 30}
  Ephemeral = {3, 5, 28}
  Mask      = {1, 30}
  Point     <- MCPoint
  Infinity  <- MCInfinity
  Word      <- MCWord
  BasePoint <- MCBasePoint
  Add       <- MCAdd
  Neg       <- MCNeg
  XCoord    <- MCXCoord
  DeriveKey <- MCDeriveKey
  XorEncrypt       <- MCXorEncrypt
INVARIANTS
  LocalModeVerifies
  FailsOnlyOnCollision
PROPERTY
  RefinesCorrelatedOT
