SPECIFICATION Spec
CONSTANTS
  Clients <- TwoClients
  Requests <- FourRequests
  Scenarios <- AllScenarios
  MaxTasks = 2
  NumWorkers = 2
  MaxTime = 1
CHECK_DEADLOCK FALSE
INVARIANTS
  WaitingIsKnown
  AnswersAreOwn
  BatchIsComplete
  TasksAreLimited
  NothingIsLeft
PROPERTIES
  FinishedStaysFinished
