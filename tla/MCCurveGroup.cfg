SPECIFICATION GroupSpec
CONSTANTS
  Field = 43
  Order = 31
  GeneratorX = 2
  GeneratorY = 12
  Bound = 48
  Capacity = 1048576
INVARIANTS
  GroupLaw
  MultiplicationIsRepeatedAddition
  EncodingInvertible
  ServerPointsAgree
  KeysAcrossLanguages
