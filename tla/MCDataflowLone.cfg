SPECIFICATION ExecSpec
CONSTANTS
  Programs <- LoneTestPrograms
  ExternalValues <- Inputs
  Renamed = {"g"}
  ErrFunctions = {"ERR_PTR", "ERR_PTR116"}
INVARIANT ReturnsAreInRange
