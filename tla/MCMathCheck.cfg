SPECIFICATION Spec
CONSTANTS
  Data = {"zeros"}
  BitIndex = {42}
  Field = 43
  Order = 31
  GeneratorX = 2
  GeneratorY = 12
  Bound = 48
  Capacity = 1048576
INVARIANT
  IntegrationCorrect
