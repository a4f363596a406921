SPECIFICATION Spec
CONSTANTS
  s1 = s1
  s2 = s2
  learner = learner
  Sessions = {s1}
  Kind <- AllUserAdded
  Owner <- OneLearner
  TaskTypes = {"task_mc", "task_fill"}
  MaxRevision = 2
  Faults = {"timeout"}
  Durable = TRUE
  GenerationWorkers = 2
  MaxAttempts = 2
  Requests = {"read", "complete", "delete", "tasks", "edit"}
  MaxRequests = 3
  MaxCrashes = 0
INVARIANTS
  ReadingLifecyclePreserved
PROPERTIES
  ImplementsStudySession
CHECK_DEADLOCK FALSE
