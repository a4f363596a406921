SPECIFICATION FairSpec
CONSTANTS
  s1 = s1
  s2 = s2
  learner = learner
  Sessions = {s1, s2}
  Kind <- AllUserAdded
  Owner <- OneLearner
  TaskTypes = {"task_mc"}
  MaxRevision = 2
  Faults = {}
  Durable = TRUE
  GenerationWorkers = 2
  MaxAttempts = 3
  Requests = {"tasks"}
  MaxRequests = 2
  MaxCrashes = 0
PROPERTIES
  QueuedJobRuns
CHECK_DEADLOCK FALSE
