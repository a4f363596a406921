SPECIFICATION Spec
CONSTANTS
  s1 = s1
  s2 = s2
  learner = learner
  Sessions = {s1}
  Kind <- AllSystem
  Owner <- OneLearner
  TaskTypes = {"task_mc", "task_fill"}
  MaxRevision = 3
  Faults = {"crash"}
  Durable = TRUE
  GenerationWorkers = 2
  MaxAttempts = 3
  Requests = {"retry", "delete"}
  MaxRequests = 1
  MaxCrashes = 2
INVARIANTS
  ReadyMeansReadable
PROPERTIES
  ImplementsStudySession
CHECK_DEADLOCK FALSE
