SPECIFICATION RunningSpec
CONSTANTS
  kMaxConfidence = 100
  Programs <- MCPrograms
CHECK_DEADLOCK FALSE
INVARIANTS
  TypeOK
  InitialSpecificationsUntouched
  StrictlyBelowRange
  SpecificationsAreJustified
  EmptysetIsTransitive
  StopsAtFixpoint
PROPERTIES
  ConvergedIsFinal
  OnlyGrows
  TerminatesUnembedded
