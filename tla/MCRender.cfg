SPECIFICATION Spec
CONSTANTS
  Width = 9
  Height = 9
  TileSize = 8
  THREADS = 2
  CAPACITY = 6
  MAX_SUBMITS = 2
  Script <- MCScript
  Vertices <- MCVertices
  Indices <- MCIndices
INVARIANTS
  TiledAsSequential
