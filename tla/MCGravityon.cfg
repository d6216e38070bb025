SPECIFICATION MCSpec
CONSTANTS
  Clients = {c1, c2, c3}
  MAX_JOBS = 3
  Counts = {0, 1, 2}
  MAX_TOTAL = 2
  Widths = {4, 14}
  Heights = {8, 10}
  Shades = {10}
  MIP_LEVELS = 16
  DEN = 4
  Coords = {1, 8}
  Lods = {4, 6}
  Texts = {1, 2}
  Places = {0, 2}
  Scales = {1}
  Bytes = {0, 1}
  MAX_INPUT = 6
  MAX_RUN = 4
  Letters = {1, 2}
  MAX_KEY = 2
  MAX_BYTES = 7
INVARIANTS
  NoDangling
  NothingLeft
  
  FilteredAsPicture
  UnpackedAsPacked
  KeysAsTouched
PROPERTIES
  WaitReturns
  TextAsLaidOut
\* The clients of Compute stop when their device is gone.
CHECK_DEADLOCK FALSE
