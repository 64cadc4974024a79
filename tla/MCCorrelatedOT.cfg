SPECIFICATION MCSpec
CONSTANTS
  N = 7
  K = 3
  Secret = {1, 2, 3, 4, 5, 6}
  Mask   = {1, 4, 6}
  Bound    = 8
  Capacity = 2048
  RawGarbage = {0, 5, 7, 13, 1259, 1260, 2048}
INVARIANTS
  SharesMultiply
  SharesCanonical
  ServerScalarsAgree
  VerdictIsOfResidues
