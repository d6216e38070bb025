SPECIFICATION Spec
CONSTANTS
  FB_WIDTH = 3
  FB_HEIGHT = 3
  TASKBAR = 1
  MAX_WINDOWS = 2
  TITLE_H = 1
  RESIZE_GRIP = 1
  WIN_MIN_W = 2
  WIN_MIN_H = 2
  Moves <- MCMoves
  Opened <- MCOpened
INVARIANTS
  WindowsOnScreen
  CaughtUp
  
PROPERTY OnlyTheHeld
