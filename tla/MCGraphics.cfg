SPECIFICATION Spec
CONSTANTS
  Procs = {1, 2}
  Commands <- MCCommands
  FbCounts = {1}
  FRAME <- MCFrame
  ShellTypes = {"pixel"}
  RING_WORDS = 14
  GUI_FAULT_LIMIT = 2
  GUI_MAX_OPS = 2
  GUI_MAX_PIXELS = 3
INVARIANTS
  RunsAsSent
PROPERTY QuarantineHolds
