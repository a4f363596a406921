SPECIFICATION FairSpec
CONSTANTS
  s1 = s1
  s2 = s2
  learner = learner
  Sessions = {s1, s2}
  Kind <- StoryAndPhrases
  Owner <- OneLearner
  TaskTypes = {"task_mc"}
  MaxRevision = 2
  Faults = {}
  Durable = TRUE
  GenerationWorkers = 2
  MaxAttempts = 2
  Requests = {"archive"}
  MaxRequests = 0
  MaxCrashes = 0
INVARIANTS
  TypeOK
PROPERTIES
  EveryRequestSettles
CHECK_DEADLOCK FALSE
