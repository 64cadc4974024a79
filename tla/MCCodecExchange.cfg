SPECIFICATION Spec
CONSTANTS
  Data = {"zeros", "p", "q"}
  BitIndex <- MCBitIndex
INVARIANTS
  CrossDecodes
  NothingFailsSilently
  OnlyNeighboursConfused
