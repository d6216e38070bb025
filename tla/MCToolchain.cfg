SPECIFICATION Spec
CONSTANTS
  MAX_MACROS = 8
  MAX_PP_DEPTH = 4
  MAX_LABELS = 60
  MAX_INSNS = 900
  CPrograms <- MCCPrograms
  AsmPrograms <- MCAsmPrograms
  GuestPrograms <- MCGuestPrograms
  WasmModules <- MCWasmModules
  Sessions <- MCSessions
  MAX_ASKED = 4
  MAX_BP = 2
  HISTORY_LEN = 4
  MAX_BREAKPOINTS = 2
  MAX_WATCHPOINTS = 4
  Texts <- MCTexts
  MAX_IDENT = 10
  Inputs <- MCInputs
  Flags <- MCFlags
  FlashWords <- MCFlashWords
  MAX_BUILDS = 2
  MAX_RUNS = 3
  MAX_FAULTS = 1
  EEPROM_SIZE = 2
INVARIANTS
  PreprocessedAsWritten
  RunsAsWritten
  AssembledAsWritten
  TranslatedAsWritten
  ModuleAsWritten
  DebuggedAsAsked
  ReadAsWritten
  
  FlashKept

CHECK_DEADLOCK FALSE
