SPECIFICATION Spec
CONSTANTS
  BlockSize = 2
  GroupSize = 2
  ChunkSizes <- MCChunkSizes
  MaxBytes = 13
  MaxFields = 3
INVARIANT EveryCountedBlockIsStored
