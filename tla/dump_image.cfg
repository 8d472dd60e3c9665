SPECIFICATION Spec
CONSTANTS
  Dim = 3
  Np <- Cube
  Writers <- OneProcess
  Readers <- TwoReaders
  Names <- CubeNames
  Saved <- CubeSaved
  Loads <- CubeLoads
  Modes = {"distributed image"}
INVARIANTS ImageIsExact
