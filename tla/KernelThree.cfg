SPECIFICATION FairSpec
CONSTANTS
  MAX_PROCESSES = 3
  TIMER_QUANTUM = 2
  Signals = {}
  SleepMs = {0}
  AlarmMs = {}
  TickMod = 1

  
PROPERTY HighestPriorityRuns
