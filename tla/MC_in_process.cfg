SPECIFICATION Spec
CONSTANTS
  s1 = s1
  s2 = s2
  learner = learner
  Sessions = {s1, s2}
  Kind <- UserAddedAndPhrases
  Owner <- OneLearner
  TaskTypes = {"task_mc"}
  MaxRevision = 2
  Faults = {"crash", "database"}
  Durable = FALSE
  GenerationWorkers = 2
  MaxAttempts = 2
  Requests = {"read", "complete", "delete", "retry", "tasks", "edit"}
  MaxRequests = 1
  MaxCrashes = 1
INVARIANTS
  ClaimsAreRuns
PROPERTIES
  RunsKeepUserText
CHECK_DEADLOCK FALSE
