SPECIFICATION GridSpec
CONSTANTS
  Dims = {1, 2, 3}
  PSizes <- SomePSizes
  Grids <- BoxGrids
  Decs <- BoxDecs
  NoDec = NoDec
INVARIANTS EvenShares Tiled NeverTooSmall
CHECK_DEADLOCK FALSE
