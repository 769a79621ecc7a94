SPECIFICATION ExecSpec
CONSTANTS
  Programs <- AllPrograms
  ExternalValues <- Inputs
  Renamed = {"g"}
  ErrFunctions = {"ERR_PTR", "ERR_PTR116"}
INVARIANTS SourcesAreKnown ConstraintsCoverResults ReturnedValuesCoverPaths RangesCoverReturns
INVARIANTS TestedErrorsAreNoBugs
INVARIANTS PassesStopAtFixpoints
PROPERTY AnalysisEnds
