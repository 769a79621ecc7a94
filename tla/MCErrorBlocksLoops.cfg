SPECIFICATION Spec
CONSTANTS
  kMaxConfidence = 100
  Programs <- LoopingPrograms
CHECK_DEADLOCK FALSE
PROPERTIES
  Terminates
