---------------------------- MODULE SessionPlan ----------------------------
(***************************************************************************)
(* What a story is planned from: the level of the session, which a request *)
(* without one derives from the skill rows (skills/level.go); the topic of *)
(* a system session, chosen when its run begins so that it differs from    *)
(* the recent ones (topic/topic.go); and the grammar the story may use     *)
(* (skills/constraints.go), built from the rows as they then are.          *)
(*                                                                         *)
(* Sessions are numbered in the order they are created.  Several may be    *)
(* planned at once, and a run may die and be repeated.                     *)
(***************************************************************************)
EXTENDS Integers, FiniteSets, Sequences

CONSTANTS
    SkillGroups,        \* category -> its skills, in order
    LevelRules,         \* sequence of [from, to, needs], needs a set of
                        \* [category, tier, count, percent]
    PlanLevels, DefaultLevel, FallbackLevel,
    TopicPools,         \* level -> its topics, in order
    GuidedTopic,        \* what learners ask for themselves
    HistoryWindow,      \* topicHistoryWindow
    MaxPlanned,         \* sessions, by the changes of skill rows so far
    MaxSkillChanges,    \* changes of skill rows, by the sessions so far
    MaxPlanFaults       \* failures, crashes and deletions

ASSUME SkillAssumption ==
    \A c \in DOMAIN SkillGroups :
        SkillGroups[c] \in Seq({SkillGroups[c][j] : j \in DOMAIN SkillGroups[c]})

ASSUME LevelAssumption ==
    /\ LevelRules \in Seq({LevelRules[j] : j \in DOMAIN LevelRules})
    /\ \A j \in DOMAIN LevelRules : \A need \in LevelRules[j].needs :
          need.tier \in Nat /\ need.count \in Nat /\ need.percent \in Nat

ASSUME WindowAssumption == HistoryWindow \in Nat

\* No pool names a topic twice.
ASSUME PoolAssumption ==
    \A level \in DOMAIN TopicPools :
        LET pool == TopicPools[level]
        IN  /\ pool \in Seq({pool[j] : j \in DOMAIN pool})
            /\ \A i, j \in DOMAIN pool : pool[i] = pool[j] => i = j

VARIABLES
    rows,       \* skill -> row of user_skill_xp, or none
    changes,    \* how often the rows have changed
    planned,    \* the sessions, with the run of each
    planFaults

planVars == <<rows, changes, planned, planFaults>>

NoRow == [tier |-> 0, pending |-> FALSE, exists |-> FALSE]
NoTopic == "none"
NoConstraints == [allowed |-> {}, introduce |-> {}, avoid |-> {}, vocabulary |-> 0]

Categories == DOMAIN SkillGroups
SkillsIn(c) == IF c \in Categories THEN {SkillGroups[c][j] : j \in DOMAIN SkillGroups[c]} ELSE {}
PlanSkills == UNION {SkillsIn(c) : c \in Categories}

Largest(numbers) == CHOOSE m \in numbers : \A n \in numbers : n <= m
Smallest(numbers) == CHOOSE m \in numbers : \A n \in numbers : m <= n

PlanInit ==
    /\ rows = [k \in PlanSkills |-> NoRow]
    /\ changes = 0
    /\ planned = <<>>
    /\ planFaults = 0

-----------------------------------------------------------------------------
X_PendingCounts(row) == row.tier

\* level.go has this function and constraints.go has it again: a tier that is to be
\* verified is worth nothing.
LevelTier(row) == IF row.pending THEN 0 ELSE row.tier
ConstraintTier(row) == IF row.pending THEN 0 ELSE row.tier

RequiredCount(need, total) ==
    Largest({need.count, (need.percent * total + 99) \div 100, 1})

Meets(need) ==
    LET group == SkillsIn(need.category)
    IN  /\ group # {}
        /\ Cardinality({k \in group : LevelTier(rows[k]) >= need.tier})
             >= RequiredCount(need, Cardinality(group))

StartLevel == IF LevelRules = <<>> THEN DefaultLevel ELSE LevelRules[1].from

ApplyRule(before, rule) ==
    IF ~before.open \/ rule.from # before.level THEN before
    ELSE IF \A need \in rule.needs : Meets(need) THEN [before EXCEPT !.level = rule.to]
    ELSE [before EXCEPT !.open = FALSE]

\* The rules are gone through once, in order; a rule that starts elsewhere is passed
\* over, and the first one that fails ends it.
DeriveLevel ==
    LET after[j \in 0..Len(LevelRules)] ==
            IF j = 0 THEN [level |-> StartLevel, open |-> TRUE] ELSE ApplyRule(after[j - 1], LevelRules[j])
    IN  after[Len(LevelRules)].level

\* The next skill after the highest one that is allowed; before there is any, the first
\* one that was begun.
IntroducedIn(c) ==
    LET group   == SkillGroups[c]
        allowed == {j \in DOMAIN group : ConstraintTier(rows[group[j]]) >= 1}
        begun   == {j \in DOMAIN group : rows[group[j]].exists}
        above   == {j \in DOMAIN group : allowed # {} /\ j > Largest(allowed)}
    IN  IF allowed # {} THEN (IF above = {} THEN {} ELSE {group[Smallest(above)]})
        ELSE IF begun = {} THEN {} ELSE {group[Smallest(begun)]}

VocabularyRange ==
    LET known == {k \in SkillsIn("Vocabulary") : rows[k].exists}
    IN  IF known = {} THEN 0 ELSE 1 + Largest({ConstraintTier(rows[k]) : k \in known})

BuildSkillConstraints ==
    LET allowed   == {k \in PlanSkills : ConstraintTier(rows[k]) >= 1}
        introduce == UNION {IntroducedIn(c) : c \in Categories}
    IN  IF \A k \in PlanSkills : ~rows[k].exists THEN NoConstraints
        ELSE [allowed |-> allowed, introduce |-> introduce,
              avoid |-> PlanSkills \ (allowed \cup introduce), vocabulary |-> VocabularyRange]

-----------------------------------------------------------------------------
WithTopic == {n \in DOMAIN planned : planned[n].pc # "deleted" /\ planned[n].topic # NoTopic}

X_OldestRecent ==
    {planned[n].topic : n \in {m \in WithTopic : Cardinality({l \in WithTopic : l < m}) < HistoryWindow}}

\* The topics of the learner's last sessions that have one.
RecentSessionTopics ==
    {planned[n].topic : n \in {m \in WithTopic : Cardinality({l \in WithTopic : l > m}) < HistoryWindow}}

PoolAt(level) == IF level \in DOMAIN TopicPools THEN TopicPools[level] ELSE <<>>
PoolOf(level) == IF PoolAt(level) = <<>> THEN PoolAt(FallbackLevel) ELSE PoolAt(level)

\* The first topic that is not recent, or else the first one.
Choose(level, recent) ==
    LET pool  == PoolOf(level)
        fresh == {j \in DOMAIN pool : pool[j] \notin recent}
    IN  IF pool = <<>> THEN NoTopic ELSE IF fresh = {} THEN pool[1] ELSE pool[Smallest(fresh)]

-----------------------------------------------------------------------------
\* Grades and verifications change a row.
SkillChanges(k) ==
    /\ changes < MaxSkillChanges[Len(planned)]
    /\ changes' = changes + 1
    /\ \E row \in {[tier |-> rows[k].tier + 1, pending |-> TRUE, exists |-> TRUE],
                   [rows[k] EXCEPT !.pending = FALSE],
                   [rows[k] EXCEPT !.exists = TRUE],
                   [tier |-> IF rows[k].tier = 0 THEN 0 ELSE rows[k].tier - 1,
                    pending |-> FALSE, exists |-> TRUE]} :
          row # rows[k] /\ rows' = [rows EXCEPT ![k] = row]
    /\ UNCHANGED <<planned, planFaults>>

\* A request names the level or has it derived.
GenerateSession ==
    /\ Len(planned) < MaxPlanned[changes]
    /\ \E type \in {"system", "guided"}, derived \in BOOLEAN :
       \E level \in IF derived THEN {DeriveLevel} ELSE PlanLevels :
          planned' = Append(planned,
              [type |-> type, level |-> level, topic |-> IF type = "guided" THEN GuidedTopic ELSE NoTopic,
               pc |-> "waiting", chosen |-> NoTopic, constraints |-> NoConstraints,
               derivedAt |-> IF derived THEN changes ELSE -1, plannedAt |-> -1, sound |-> FALSE])
    /\ UNCHANGED <<rows, changes, planFaults>>

\* A run reads its session; a system session without a topic is given one.
BeginPlan(n) ==
    /\ planned[n].pc = "waiting"
    /\ planned' = [planned EXCEPT ![n].pc = IF planned[n].topic = NoTopic THEN "choose" ELSE "select",
                                  ![n].chosen = planned[n].topic]
    /\ UNCHANGED <<rows, changes, planFaults>>

\* The choice is sound if the history could be read, and if it was made in the order of
\* the sessions: those created before have their topics, those created after do not.
ChooseTopic(n, read) ==
    LET recent == IF read THEN RecentSessionTopics ELSE {}
        topic  == Choose(planned[n].level, recent)
    IN  /\ planned[n].pc = "choose"
        /\ read \/ planFaults < MaxPlanFaults
        /\ planFaults' = IF read THEN planFaults ELSE planFaults + 1
        /\ planned' = [planned EXCEPT
                ![n].pc = IF topic = NoTopic THEN "select" ELSE "set",
                ![n].chosen = topic,
                ![n].sound = read /\ \A m \in DOMAIN planned : m # n /\ planned[m].pc # "deleted"
                                        => (m \in WithTopic <=> m < n)]
        /\ UNCHANGED <<rows, changes>>

SetSessionTopic(n) ==
    /\ planned[n].pc = "set"
    /\ planned' = [planned EXCEPT ![n].pc = "select", ![n].topic = planned[n].chosen]
    /\ UNCHANGED <<rows, changes, planFaults>>

RunSelection(n) ==
    /\ planned[n].pc = "select"
    /\ planned' = [planned EXCEPT ![n].pc = "planned", ![n].plannedAt = changes,
                                  ![n].constraints = BuildSkillConstraints, ![n].chosen = NoTopic]
    /\ UNCHANGED <<rows, changes, planFaults>>

\* A read, a write or the story itself fails, or the process dies: a later run begins again.
PlanFails(n) ==
    /\ planned[n].pc \in {"choose", "set", "select", "planned"}
    /\ planFaults < MaxPlanFaults
    /\ planFaults' = planFaults + 1
    /\ planned' = [planned EXCEPT ![n].pc = "waiting", ![n].chosen = NoTopic]
    /\ UNCHANGED <<rows, changes>>

DeletePlanned(n) ==
    /\ planned[n].pc # "deleted"
    /\ planFaults < MaxPlanFaults
    /\ planFaults' = planFaults + 1
    /\ planned' = [planned EXCEPT ![n].pc = "deleted"]
    /\ UNCHANGED <<rows, changes>>

PlanNext ==
    \/ \E k \in PlanSkills : SkillChanges(k)
    \/ GenerateSession
    \/ \E n \in DOMAIN planned :
          \/ BeginPlan(n) \/ SetSessionTopic(n) \/ RunSelection(n) \/ PlanFails(n) \/ DeletePlanned(n)
          \/ \E read \in BOOLEAN : ChooseTopic(n, read)

PlanSpec == PlanInit /\ [][PlanNext]_planVars

-----------------------------------------------------------------------------
Settled(n) == n \in WithTopic /\ planned[n].type = "system" /\ planned[n].sound

\* "excluding them is how the system avoids repeating the same setting" (topic.go): where
\* the pool is larger than the window, a system session whose topic was chosen in its
\* turn takes none of the topics of the sessions before it in the window, whatever
\* runs failed, were repeated or were deleted.
SettingsDiffer ==
    \A n \in DOMAIN planned : Settled(n) /\ Len(PoolOf(planned[n].level)) > HistoryWindow =>
        \A m \in WithTopic : m < n /\ n - m <= HistoryWindow => planned[m].topic # planned[n].topic

\* The rules of a way to a level: each starts where one before it ends, or where they all begin.
LeadsTo(way, level) ==
    /\ level = StartLevel \/ \E j \in way : LevelRules[j].to = level
    /\ \A j \in way : \/ LevelRules[j].from = StartLevel
                     \/ \E i \in way : i < j /\ LevelRules[i].to = LevelRules[j].from

\* A story of the derived level may use what the level stands for: unless a row changed
\* in between, there is a way to the level of which every category a rule requires has a
\* skill the constraints allow (level.go and constraints.go decide by functions of their
\* own what a row is worth).
LevelMatchesConstraints ==
    \A n \in DOMAIN planned :
        planned[n].pc = "planned" /\ planned[n].derivedAt = planned[n].plannedAt =>
            \E way \in SUBSET DOMAIN LevelRules :
                /\ LeadsTo(way, planned[n].level)
                /\ \A j \in way : \A need \in LevelRules[j].needs :
                      need.tier >= 1 => SkillsIn(need.category) \cap planned[n].constraints.allowed # {}
=============================================================================
