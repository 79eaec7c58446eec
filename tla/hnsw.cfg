CONSTANTS
  Vectors = {1, 2, 4, 8}
  Zero = 0
  Dist <- Line
  Capacity = 4
  M = 2
  MMax0 = 2
  EfConstruction = 2
  Levels = {0, 2}
  ArenaChunks = 4
  HeapSize = 4
  Searches <- WideAndNarrow
  MaxPuts = 4
  MaxCrashes = 1
SPECIFICATION Spec
INVARIANTS ListsFit ChunksApart LinksSound EntryIsHighest CountedLast SearchExhaustive
PROPERTIES NodesStable CallsEnd
