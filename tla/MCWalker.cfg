SPECIFICATION FairSpec
CONSTANTS
  ErrorCodes = {"-1"}
  Modules <- AllModules
  MaxWalks = 2
  Requests <- AllRequests
INVARIANTS
  WritesAreWhole
  SentencesAreBounded
  EachLabelIsWalked
  ReturnsMatchCalls
PROPERTIES
  StopsOnlyAtDeadEnds
  WalksEnd
