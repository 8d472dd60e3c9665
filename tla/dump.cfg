SPECIFICATION Spec
CONSTANTS
  Dim = 2
  Np <- FlatGrid
  Writers <- FourWriters
  Readers <- TwoReaders
  Names <- FlatNames
  Saved <- FlatSaved
  Loads <- FlatLoads
  Modes = {"restart", "image", "distributed image"}
INVARIANTS RestartIsExact RefusedTogether ImageIsExact
PROPERTIES NothingOverwritten
