SPECIFICATION Spec
CONSTANTS
  Clients <- TwoClients
  Requests <- FourRequests
  Scenarios <- UnreadableChecker
  MaxTasks = 2
  NumWorkers = 2
  MaxTime = 1
CHECK_DEADLOCK FALSE
INVARIANT UndoneHasNoResult
