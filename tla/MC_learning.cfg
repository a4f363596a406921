SPECIFICATION Spec
CONSTANTS
  w1 = w1
  w2 = w2
  storyA = storyA
  storyB = storyB
  skill = skill
  t1 = t1
  t2 = t2
  q1 = q1
  q2 = q2
  r1 = r1
  r2 = r2
  Busy = {"reading", "rereading", "rating", "studying", "answering", "reporting"}
  Items = {w1, w2}
  Signals = {q1, q2}
  Gates <- MCGates
  Stories = {storyA, storyB}
  LastEvent = 5
  EventOf <- MCEventOf
  Words <- MCWords
  SessionTargets <- MCSessionTargets
  MaxSignalAttempts = 2
  MaxFailures = 1
  MaxRatings = 1
  Skills = {skill}
  SkillsOf <- MCSkillsOf
  XPPerTier = 10
  TierCount = 2
  WrongAnswerPenalty = 5
  Learners = {q1, q2}
  Tasks = {t1, t2}
  TargetsOf <- MCTargetsOf
  RuleGraded <- MCRuleGraded
  BaseXP <- MCBaseXP
  Reports = {r1, r2}
  ReportOf <- MCReportOf
  RegenerationCap = 1
  MaxRegenAttempts = 2
  MaxFaults <- MCMaxFaults
  TaskFaults = {"none", "crash", "enqueue", "ambiguous", "generation"}
INVARIANTS
  RowsAreCoherent
  NeverOvercounted
  OneStoryIsCounted
  TierAgreesWithXp
  ConfirmedBeforeEffective
  CapRespected
  CreditsAreGrades
  OneAnswerIsCredited
PROPERTIES
  TerminalReportIsFinal
  GradedContentKept
  ReportsResolve
  SignalsDerived
CHECK_DEADLOCK FALSE
