SPECIFICATION Spec
CONSTANTS
  a1 = a1
  a2 = a2
  c1 = c1
  c2 = c2
  s1 = s1
  s2 = s2
  s3 = s3
  p1 = p1
  p2 = p2
  p3 = p3
  Responses = {c1, c2}
  MaxTurns = 7
  BreakdownReaders = {c1, c2}
  Sentences = {s1, s2}
  Word = s3
  PhrasesOf <- MCPhrasesOf
  MaxLost = 1
  Endpoints = {a1, a2}
  ModelRequests = {c1, c2}
  MaxAttempts <- MCAttempts
  MaxTries <- MCTries
  MaxTokens = 1
  CallTokens = 1
  FailureThreshold = 2
  CooldownCap = 1
  DurationBits = 3
  FailureCeiling = 3
  MaxCalls = 3
  MaxEvents = 2
  MaxSaves = 2
  MaxNetFailures = 2
  SpeechSentences = {s1, s2}
  SpeechRequests = {c1, c2}
  SpeechAsked <- MCAsked
  MaxEntries = 2
  MaxBytes = 5
  MaxSyntheses = 2
  MaxSpeechFaults = 1
  Texts <- MCTexts
  PageTargetTokens = 2
  PageMaximumTokens = 3
  MaxPageFaults = 1
  Tabs = {a1, a2}
  Calls <- MCCalls
  MaxRefreshTokens = 3
  MaxAccessLosses = 2
  MaxServerEndings = 2
  Serving = {"content"}
  ProfileTabs = {a1, a2}
  Preferences = {p1}
  EnabledLanguages = {s1, s2}
  OtherLanguages = {s3}
  FirstLanguage = s1
  MaxPatches = 3
  SkillGroups <- MCSkillGroups
  LevelRules <- MCLevelRules
  PlanLevels = {"low", "high"}
  DefaultLevel = "low"
  FallbackLevel = "low"
  TopicPools <- MCTopicPools
  GuidedTopic = c1
  HistoryWindow = 1
  MaxPlanned <- MCMaxPlanned
  MaxSkillChanges <- MCMaxSkillChanges
  MaxPlanFaults = 1
  PredictedItems = {s1, s2}
  Refreshers = {a1, a2}
  RefreshedBy <- MCRefreshedBy
  MaxAge = 0
  LastTick = 1
  TargetCount = 1
  Questions = {p1, p2}
  OwnItems = {s1}
  Placeholder = p3
  TaskLevels = {"upper-intermediate"}
  SupportedTypes = {"comprehension_mc", "fill_blank", "production"}
  PriorLimit = 1
  MaxStageRuns = 2
  MaxStageFaults = 1
INVARIANTS
  NoPlaceholderLeaks
CHECK_DEADLOCK FALSE
