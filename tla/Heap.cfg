SPECIFICATION HeapSpec
CONSTANTS
  HEAP_START = 1
  HEAP_SIZE = 14
  MAX_BLOCKS = 5
  Sizes = {1, 2, 3, 4}
INVARIANT
  NoFreeNeighbours
PROPERTY RegionsSpec
