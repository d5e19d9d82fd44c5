\* File commands, walks and archives, alone and in batches, beside another client.
CONSTANTS
  Retries = 1
  MaxFaults = 2
  MaxRuns = 3
  Paths <- MCPaths
  Contents = {"", "x", "y"}
  MaxEdits = 2
  MaxNumFiles = 3
  MaxSize = 1
  Operations <- MCOperations
  Batches <- MCBatches
  FirstTrees <- MCTrees
SPECIFICATION BatchSpec
INVARIANTS BatchIsHonest WalkIsTree
PROPERTIES NothingLostUnasked
