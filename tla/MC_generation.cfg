SPECIFICATION Spec
CONSTANTS
  s1 = s1
  s2 = s2
  learner = learner
  Sessions = {s1}
  Kind <- AllTopicGuided
  Owner <- OneLearner
  TaskTypes = {"task_mc", "task_fill"}
  MaxRevision = 2
  Faults = {}
  Durable = TRUE
  GenerationWorkers = 2
  MaxAttempts = 3
  Requests = {"retry", "delete"}
  MaxRequests = 2
  MaxCrashes = 0
INVARIANTS
  PreparingIsOwned
  NothingOutlivesDeletion
PROPERTIES
  ContentCheckpointKept
CHECK_DEADLOCK FALSE
