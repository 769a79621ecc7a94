SPECIFICATION Spec
CONSTANTS
  Clients <- TwoClients
  Requests <- FourRequests
  Scenarios <- DistinctScenarios
  MaxTasks = 1
  NumWorkers = 1
  MaxTime = 1
CHECK_DEADLOCK FALSE
PROPERTIES
  ImplementsFutures
  ClientsEnd
