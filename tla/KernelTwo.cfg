SPECIFICATION Spec
CONSTANTS
  MAX_PROCESSES = 2
  TIMER_QUANTUM = 2
  Signals = {9}
  SleepMs = {0}
  AlarmMs = {0, 2}
  TickMod = 2
INVARIANT
  AlarmNeverRefused
PROPERTY SignalsTakenOneByOne
