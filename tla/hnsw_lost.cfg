CONSTANTS
  Vectors = {1, 2, 3, 4, 5, 6, 7}
  Zero = 0
  Dist <- Star
  Capacity = 7
  M = 2
  MMax0 = 4
  EfConstruction = 4
  Levels = {0}
  ArenaChunks = 0
  HeapSize = 512
  Searches <- All
  MaxPuts = 7
  MaxCrashes = 0
SPECIFICATION Spec
INVARIANT EveryVectorFound
