SPECIFICATION FairSpec
CONSTANTS
  MEM_SIZE = 3
  Programs <- MCPrograms
  Data = {"alu"}
  Arrivals <- MCArrivals
  Written <- MCWritten
  BATCH = 2
  SelfModifying = FALSE
  Configs <- MCConfigs
PROPERTY IsaSpec
PROPERTY MachineProtected
PROPERTY InterruptTaken
PROPERTY WakesUp
CHECK_DEADLOCK FALSE
