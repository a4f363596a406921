SPECIFICATION Spec
CONSTANTS
  s1 = s1
  s2 = s2
  learner = learner
  Sessions = {s1}
  Kind <- AllTopicGuided
  Owner <- OneLearner
  TaskTypes = {"task_mc"}
  MaxRevision = 2
  Faults = {"crash"}
  Durable = TRUE
  GenerationWorkers = 2
  MaxAttempts = 3
  Requests = {"retry"}
  MaxRequests = 1
  MaxCrashes = 2
INVARIANTS
  ReadyMeansReadable
CHECK_DEADLOCK FALSE
