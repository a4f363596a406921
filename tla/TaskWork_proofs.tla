--------------------------- MODULE TaskWork_proofs ---------------------------
(***************************************************************************)
(* What is proved about TaskWork, for any tasks, submissions and reports,  *)
(* any cap and any number of attempts, and whatever else happens to the    *)
(* learner's knowledge and skills meanwhile (TaskSpec leaves it open).     *)
(*                                                                         *)
(* ReportInv ties a report's outcome to the place of its handler and of    *)
(* its job: a job that may still write has an outcome that is counted, or  *)
(* found its task graded.  It is kept as long as no insertion that was     *)
(* reported as failed took place (Certain), and gives the cap as well as   *)
(* the finality of outcomes.                                               *)
(*                                                                         *)
(* Below are the theorems about SkillXp, for any skills, tiers and         *)
(* experience, any number of overlapping grades and verifications.  The    *)
(* writers of a row hold copies that may be old, so the invariant          *)
(* (SkillInv) is about every copy: the ones verifications hold have a tier *)
(* that agrees with their experience, and the ones grades hold have, where *)
(* nobody is asked, no effective tier that was not confirmed.              *)
(***************************************************************************)
EXTENDS TaskWork, FiniteSetTheorems, TLAPS

SubmissionRow ==
    [pc : {"idle", "grade", "record", "signal", "xp", "done", "dead"}, task : Tasks, content : Nat,
     again : BOOLEAN, before : BOOLEAN, correct : BOOLEAN, shown : SUBSET Items]

ReportRow ==
    [pc : {"idle", "create", "enqueue", "unavailable", "done"}, graded : BOOLEAN,
     outcome : {"none"} \cup CountedOutcomes \cup TerminalOutcomes]

RegenRow ==
    [status : {"none", "queued", "running", "completed", "discarded"},
     pc : {"idle", "answered", "regenerating", "generate", "replace", "regenerated", "finish"},
     attempt : Nat]

TaskRow == [graded : BOOLEAN, correct : BOOLEAN, content : Nat, attempts : Nat]

TaskTypeOK ==
    /\ task \in [Tasks -> TaskRow]
    /\ submission \in [Signals -> SubmissionRow]
    /\ report \in [Reports -> ReportRow]
    /\ regen \in [Reports -> RegenRow]
    /\ faults \in Nat

Certain == faultKind # "ambiguous" \/ faults = 0

Live(r) == regen[r].status \in {"queued", "running"}

ReportInv(r) ==
    /\ report[r].pc \in {"idle", "create"} => report[r].outcome = "none"
    /\ report[r].pc \in {"enqueue", "unavailable"} => report[r].outcome = "queued"
    /\ report[r].pc # "done" => regen[r].status = "none"
    /\ regen[r].pc # "idle" => regen[r].status = "running"
    /\ Live(r) => report[r].outcome \in {"queued", "regenerating", "regenerated", "answered"}
    /\ Live(r) /\ report[r].outcome = "answered" => task[ReportOf[r]].graded
    /\ regen[r].pc = "answered" => task[ReportOf[r]].graded
    /\ regen[r].pc = "regenerating" => report[r].outcome # "answered"
    /\ regen[r].pc \in {"generate", "replace", "regenerated"} => report[r].outcome = "regenerating"
    /\ Live(r) /\ faults = 0 /\ regen[r].pc # "finish" => report[r].outcome \in {"queued", "regenerating"}

TaskInv ==
    /\ TaskTypeOK
    /\ Certain => /\ \A r \in Reports : ReportInv(r)
                  /\ Cardinality(Counted) <= RegenerationCap

-----------------------------------------------------------------------------
\* Nothing is filed or answered at the beginning.
LEMMA InitialTasks == TaskInit => TaskInv
<1>. SUFFICES ASSUME TaskInit PROVE TaskInv
  OBVIOUS
<1>1. TaskTypeOK
  <2>1. NoSubmission \in SubmissionRow
    BY TaskAssumption DEF NoSubmission, SubmissionRow
  <2>2. NoReport \in ReportRow /\ NoRegen \in RegenRow
    BY DEF NoReport, ReportRow, NoRegen, RegenRow
  <2>3. task \in [Tasks -> TaskRow]
    BY DEF TaskInit, TaskRow
  <2>. QED  BY <2>1, <2>2, <2>3 DEF TaskInit, TaskTypeOK
<1>2. \A r \in Reports : ReportInv(r)
  BY DEF TaskInit, ReportInv, NoReport, NoRegen, Live
<1>3. Counted = {}
  BY DEF TaskInit, Counted, CountedOutcomes, NoReport
<1>4. Cardinality(Counted) <= RegenerationCap
  BY <1>3, FS_EmptySet, TaskAssumption
<1>. QED  BY <1>1, <1>2, <1>4 DEF TaskInv

\* A fault is counted, once.
LEMMA FaultsCount ==
    ASSUME TaskInv, NEW kind, UNCHANGED <<faults, faultKind>> \/ Fault(kind)
    PROVE  /\ faults' \in Nat /\ (Certain' => Certain) /\ (faults' = 0 => faults = 0)
           /\ faultKind' = faultKind
  BY DEF TaskInv, TaskTypeOK, Fault, Certain

\* A step that writes one report or its job keeps the invariant, if the outcome it writes
\* was counted before or is not counted.
LEMMA OneReportMoves ==
    ASSUME TaskInv, Certain, NEW r \in Reports, TaskTypeOK', ReportInv(r)',
           \A q \in Reports \ {r} : report'[q] = report[q] /\ regen'[q] = regen[q],
           \A t \in Tasks : task[t].graded => task'[t].graded,
           faults' = 0 => faults = 0,
           report'[r].outcome \in CountedOutcomes => report[r].outcome \in CountedOutcomes
    PROVE  TaskInv'
<1>1. \A q \in Reports \ {r} : ReportInv(q)'
  BY TaskAssumption DEF TaskInv, ReportInv, Live
<1>2. Counted' \subseteq Counted
  BY DEF Counted
<1>3. IsFiniteSet(Counted)
  BY FS_Subset, TaskAssumption DEF Counted
<1>4. Cardinality(Counted') <= Cardinality(Counted) /\ Cardinality(Counted) \in Nat /\ Cardinality(Counted') \in Nat
  BY <1>2, <1>3, FS_Subset, FS_CardinalityType
<1>5. Cardinality(Counted)' <= RegenerationCap
  BY <1>4, TaskAssumption DEF TaskInv
<1>. QED  BY <1>1, <1>5 DEF TaskInv

\* A step that touches no report and no job, and takes no grade back.
LEMMA NoReportMoves ==
    ASSUME TaskInv, TaskTypeOK', UNCHANGED <<report, regen>>,
           \A t \in Tasks : task[t].graded => task'[t].graded,
           Certain' => Certain, faults' = 0 => faults = 0
    PROVE  TaskInv'
<1>1. Certain' => \A q \in Reports : ReportInv(q)'
  BY TaskAssumption DEF TaskInv, ReportInv, Live
<1>2. Counted' = Counted
  BY DEF Counted
<1>. QED  BY <1>1, <1>2 DEF TaskInv

-----------------------------------------------------------------------------
\* A submission changes its own row, and a task only to record a grade.
LEMMA SubmissionKeeps ==
    ASSUME TaskInv, NEW q \in Signals,
           SubmitStep(q) \/ SubmissionDies(q) \/ \E t \in Tasks : Submit(q, t)
    PROVE  TaskInv'
<1>0. submission[q] \in SubmissionRow /\ UNCHANGED <<report, regen>>
  BY DEF TaskInv, TaskTypeOK, SubmitStep, SubmissionDies, Submit, Grade, RecordTaskGrade, LearnItems,
         BeginXP, LearnSkills, taskVars
<1>1. Certain' => Certain
  <2>1. UNCHANGED <<faults, faultKind>> \/ Fault("crash")
    BY DEF SubmitStep, SubmissionDies, Submit, Grade, RecordTaskGrade, LearnItems, BeginXP, LearnSkills, taskVars
  <2>. QED  BY <2>1, FaultsCount DEF Certain
<1>2. faults' \in Nat /\ (faults' = 0 => faults = 0)
  <2>1. UNCHANGED <<faults, faultKind>> \/ Fault("crash")
    BY DEF SubmitStep, SubmissionDies, Submit, Grade, RecordTaskGrade, LearnItems, BeginXP, LearnSkills, taskVars
  <2>. QED  BY <2>1, FaultsCount
<1>3. (submission \in [Signals -> SubmissionRow])'
  <2>1. CASE \E t \in Tasks : Submit(q, t)
    <3>. PICK t \in Tasks : Submit(q, t)
      BY <2>1
    <3>. DEFINE row == [NoSubmission EXCEPT !.pc = "grade", !.task = t, !.content = task[t].content,
                         !.again = task[t].graded, !.before = task[t].graded /\ task[t].correct]
    <3>1. row \in SubmissionRow
      BY TaskAssumption DEF NoSubmission, SubmissionRow, TaskInv, TaskTypeOK, TaskRow
    <3>2. submission' = [submission EXCEPT ![q] = row]
      BY DEF Submit
    <3>. HIDE DEF row
    <3>. QED  BY <3>1, <3>2 DEF TaskInv, TaskTypeOK
  <2>2. CASE Grade(q)
    <3>1. CASE submission' = [submission EXCEPT ![q].pc = "done"]
      BY <1>0, <3>1 DEF TaskInv, TaskTypeOK, SubmissionRow
    <3>2. ASSUME NEW g \in GradesOf(submission[q].task),
                 submission' = [submission EXCEPT ![q].pc = "record", ![q].correct = g[1], ![q].shown = g[2]]
          PROVE  (submission \in [Signals -> SubmissionRow])'
      <4>1. submission[q].task \in Tasks
        BY <1>0 DEF SubmissionRow
      <4>2. g[1] \in BOOLEAN /\ g[2] \in SUBSET Items
        <5>1. CASE RuleGraded[submission[q].task]
          <6>1. g = <<TRUE, TargetsOf[submission[q].task]>> \/ g = <<FALSE, {}>>
            BY <5>1 DEF GradesOf
          <6>2. CASE g = <<TRUE, TargetsOf[submission[q].task]>>
            <7>1. g[1] = TRUE /\ g[2] = TargetsOf[submission[q].task]
              BY <6>2
            <7>. QED  BY <4>1, <7>1, TaskAssumption
          <6>3. CASE g = <<FALSE, {}>>
            <7>1. g[1] = FALSE /\ g[2] = {}
              BY <6>3
            <7>. QED  BY <7>1
          <6>. QED  BY <6>1, <6>2, <6>3
        <5>2. CASE ~RuleGraded[submission[q].task]
          <6>1. g \in BOOLEAN \X SUBSET TargetsOf[submission[q].task]
            BY <5>2 DEF GradesOf
          <6>2. TargetsOf[submission[q].task] \in SUBSET Items
            BY <4>1, TaskAssumption
          <6>. QED  BY <6>1, <6>2
        <5>. QED  BY <5>1, <5>2
      <4>. DEFINE row == [submission[q] EXCEPT !.pc = "record", !.correct = g[1], !.shown = g[2]]
      <4>3. row \in SubmissionRow
        BY <1>0, <4>2 DEF SubmissionRow
      <4>4. submission' = [submission EXCEPT ![q] = row]
        BY <3>2 DEF TaskInv, TaskTypeOK
      <4>. HIDE DEF row
      <4>. QED  BY <4>3, <4>4 DEF TaskInv, TaskTypeOK
    <3>. QED  BY <2>2, <3>1, <3>2 DEF Grade
  <2>3. CASE RecordTaskGrade(q) \/ LearnItems(q) \/ BeginXP(q) \/ LearnSkills(q) \/ SubmissionDies(q)
    <3>1. \/ UNCHANGED submission
          \/ \E pc \in {"signal", "xp", "done", "dead"} : submission' = [submission EXCEPT ![q].pc = pc]
      <4>1. CASE RecordTaskGrade(q)
        BY <4>1 DEF RecordTaskGrade
      <4>2. CASE LearnItems(q)
        BY <4>2 DEF LearnItems, taskVars
      <4>3. CASE BeginXP(q)
        BY <4>3 DEF BeginXP
      <4>4. CASE LearnSkills(q)
        BY <4>4, <1>0 DEF LearnSkills, TaskInv, TaskTypeOK
      <4>5. CASE SubmissionDies(q)
        BY <4>5 DEF SubmissionDies
      <4>. QED  BY <2>3, <4>1, <4>2, <4>3, <4>4, <4>5
    <3>. QED  BY <1>0, <3>1 DEF TaskInv, TaskTypeOK, SubmissionRow
  <2>. QED  BY <2>1, <2>2, <2>3 DEF SubmitStep
<1>4. (task \in [Tasks -> TaskRow])' /\ \A t \in Tasks : task[t].graded => task'[t].graded
  <2>1. CASE RecordTaskGrade(q)
    <3>. DEFINE sub == submission[q]
                t == sub.task
                row == [task[t] EXCEPT !.graded = TRUE, !.correct = sub.correct,
                                       !.attempts = task[t].attempts + IF sub.again THEN 1 ELSE 0]
    <3>1. t \in Tasks /\ task[t] \in TaskRow /\ sub.correct \in BOOLEAN
      BY <1>0 DEF SubmissionRow, TaskInv, TaskTypeOK
    <3>2. task' = [task EXCEPT ![t] = row]
      BY <2>1 DEF RecordTaskGrade, TaskInv, TaskTypeOK
    <3>3. task[t].attempts + (IF sub.again THEN 1 ELSE 0) \in Nat
      BY <3>1 DEF TaskRow
    <3>4. row \in TaskRow /\ row.graded
      BY <3>1, <3>3 DEF TaskRow
    <3>. HIDE DEF row, sub
    <3>. QED  BY <3>1, <3>2, <3>4 DEF TaskInv, TaskTypeOK
  <2>2. CASE UNCHANGED task
    BY <2>2 DEF TaskInv, TaskTypeOK
  <2>. QED
    BY <2>1, <2>2 DEF SubmitStep, SubmissionDies, Submit, Grade, LearnItems, BeginXP, LearnSkills, taskVars
<1>5. TaskTypeOK'
  BY <1>0, <1>2, <1>3, <1>4 DEF TaskInv, TaskTypeOK
<1>. QED  BY <1>0, <1>1, <1>2, <1>4, <1>5, NoReportMoves

-----------------------------------------------------------------------------
\* The handler of a report, up to the insertion of its job or the failure to insert it.
LEMMA ReportKeeps ==
    ASSUME TaskInv, NEW r \in Reports,
           ReportTask(r) \/ ReportStep(r) \/ EnqueueRegenerationFails(r) \/ ReportDies(r)
    PROVE  TaskInv'
<1>0. report[r] \in ReportRow /\ regen[r] \in RegenRow /\ task[ReportOf[r]].graded \in BOOLEAN
      /\ UNCHANGED <<task, submission>>
  BY TaskAssumption DEF TaskInv, TaskTypeOK, TaskRow, ReportTask, ReportStep, CreateReport, EnqueueRegeneration,
         RecordUnavailable, EnqueueRegenerationFails, ReportDies
<1>1. faults' \in Nat /\ (Certain' => Certain) /\ (faults' = 0 => faults = 0)
  <2>1. \/ UNCHANGED <<faults, faultKind>> \/ Fault("crash") \/ Fault("enqueue") \/ Fault("ambiguous")
    BY DEF ReportTask, ReportStep, CreateReport, EnqueueRegeneration, RecordUnavailable,
           EnqueueRegenerationFails, ReportDies
  <2>. QED  BY <2>1, FaultsCount
<1>2. \A t \in Tasks : task[t].graded => task'[t].graded
  BY <1>0
<1>3. ReportOutcome(r) \in {"answered", "cap_reached", "queued"}
  BY DEF ReportOutcome
<1>4. QueuedRegen \in RegenRow
  BY DEF QueuedRegen, RegenRow
<1>5. TaskTypeOK' /\ \A q \in Reports \ {r} : report'[q] = report[q] /\ regen'[q] = regen[q]
  <2>1. CASE ReportTask(r)
    BY <1>0, <1>1, <2>1 DEF ReportTask, TaskInv, TaskTypeOK, ReportRow
  <2>2. CASE CreateReport(r)
    BY <1>0, <1>1, <1>3, <2>2 DEF CreateReport, TaskInv, TaskTypeOK, ReportRow, CountedOutcomes, TerminalOutcomes
  <2>3. CASE EnqueueRegeneration(r)
    BY <1>0, <1>1, <1>4, <2>3 DEF EnqueueRegeneration, TaskInv, TaskTypeOK, ReportRow
  <2>4. CASE RecordUnavailable(r)
    BY <1>0, <1>1, <2>4 DEF RecordUnavailable, TaskInv, TaskTypeOK, ReportRow, TerminalOutcomes
  <2>5. CASE EnqueueRegenerationFails(r)
    <3>1. (report \in [Reports -> ReportRow])' /\ \A q \in Reports \ {r} : report'[q] = report[q]
      BY <1>0, <2>5 DEF EnqueueRegenerationFails, TaskInv, TaskTypeOK, ReportRow
    <3>2. (regen \in [Reports -> RegenRow])' /\ \A q \in Reports \ {r} : regen'[q] = regen[q]
      BY <1>4, <2>5 DEF EnqueueRegenerationFails, TaskInv, TaskTypeOK
    <3>. QED  BY <1>0, <1>1, <3>1, <3>2 DEF TaskInv, TaskTypeOK
  <2>6. CASE ReportDies(r)
    BY <1>0, <1>1, <2>6 DEF ReportDies, TaskInv, TaskTypeOK, ReportRow
  <2>. QED  BY <2>1, <2>2, <2>3, <2>4, <2>5, <2>6 DEF ReportStep
<1>6. ASSUME Certain' PROVE ReportInv(r)'
  <2>0. ReportInv(r)
    BY <1>1, <1>6 DEF TaskInv
  <2>1. CASE ReportTask(r)
    <3>1. report'[r].pc = "create" /\ report'[r].outcome = report[r].outcome /\ regen'[r] = regen[r]
          /\ report[r].pc = "idle"
      BY <2>1 DEF ReportTask, TaskInv, TaskTypeOK, ReportRow
    <3>. QED  BY <1>0, <1>1, <2>0, <3>1 DEF ReportInv, Live
  <2>2. CASE CreateReport(r)
    <3>1. /\ report[r].pc = "create" /\ report'[r].outcome = ReportOutcome(r)
          /\ report'[r].pc = IF ReportOutcome(r) = "queued" THEN "enqueue" ELSE "done"
          /\ regen'[r] = regen[r]
      BY <2>2 DEF CreateReport, TaskInv, TaskTypeOK, ReportRow
    <3>. QED  BY <1>0, <1>1, <1>3, <2>0, <3>1 DEF ReportInv, Live, RegenRow
  <2>3. CASE EnqueueRegeneration(r)
    <3>1. /\ report[r].pc = "enqueue" /\ report'[r].pc = "done" /\ report'[r].outcome = report[r].outcome
          /\ regen'[r] = QueuedRegen
      BY <2>3 DEF EnqueueRegeneration, TaskInv, TaskTypeOK, ReportRow
    <3>. QED  BY <2>0, <3>1 DEF ReportInv, Live, QueuedRegen
  <2>4. CASE RecordUnavailable(r)
    <3>1. /\ report[r].pc = "unavailable" /\ report'[r].pc = "done" /\ report'[r].outcome = "unavailable"
          /\ regen'[r] = regen[r]
      BY <2>4 DEF RecordUnavailable, TaskInv, TaskTypeOK, ReportRow
    <3>. QED  BY <1>0, <2>0, <3>1 DEF ReportInv, Live, RegenRow
  <2>5. CASE EnqueueRegenerationFails(r)
    <3>1. ~Fault("ambiguous")
      BY <1>6 DEF Fault, Certain, TaskInv, TaskTypeOK
    <3>2. /\ report[r].pc = "enqueue" /\ report'[r].pc = "unavailable" /\ report'[r].outcome = report[r].outcome
          /\ regen'[r] = regen[r]
      BY <2>5, <3>1 DEF EnqueueRegenerationFails, TaskInv, TaskTypeOK, ReportRow
    <3>. QED  BY <1>0, <2>0, <3>2 DEF ReportInv, Live, RegenRow
  <2>6. CASE ReportDies(r)
    <3>1. /\ report[r].pc \in {"create", "enqueue", "unavailable"}
          /\ report'[r].pc = "done" /\ report'[r].outcome = report[r].outcome
          /\ regen'[r] = regen[r]
      BY <2>6 DEF ReportDies, TaskInv, TaskTypeOK, ReportRow
    <3>. QED  BY <1>0, <2>0, <3>1 DEF ReportInv, Live, RegenRow
  <2>. QED  BY <2>1, <2>2, <2>3, <2>4, <2>5, <2>6 DEF ReportStep
<1>7. CASE CreateReport(r) /\ ReportOutcome(r) = "queued" /\ Certain'
  <2>1. Cardinality(Counted) < RegenerationCap /\ Cardinality(Counted) \in Nat
    <3>1. IsFiniteSet(Counted)
      BY FS_Subset, TaskAssumption DEF Counted
    <3>2. Cardinality(Counted) \in Nat
      BY <3>1, FS_CardinalityType
    <3>. QED  BY <1>7, <3>2, TaskAssumption DEF ReportOutcome
  <2>2. Counted' \subseteq Counted \cup {r}
    BY <1>5 DEF Counted
  <2>3. Cardinality(Counted)' <= RegenerationCap
    <3>1. IsFiniteSet(Counted) /\ IsFiniteSet(Counted \cup {r})
          /\ Cardinality(Counted \cup {r}) <= Cardinality(Counted) + 1
          /\ Cardinality(Counted \cup {r}) \in Nat
      <4>1. IsFiniteSet(Counted)
        BY FS_Subset, TaskAssumption DEF Counted
      <4>. QED  BY <4>1, <2>1, FS_AddElement, FS_CardinalityType
    <3>2. Cardinality(Counted') <= Cardinality(Counted \cup {r}) /\ Cardinality(Counted') \in Nat
      BY <2>2, <3>1, FS_Subset, FS_CardinalityType
    <3>. QED  BY <2>1, <3>1, <3>2, TaskAssumption
  <2>4. \A q \in Reports \ {r} : ReportInv(q)'
    BY <1>1, <1>2, <1>5, <1>7, TaskAssumption DEF TaskInv, ReportInv, Live
  <2>. QED  BY <1>5, <1>6, <1>7, <2>3, <2>4 DEF TaskInv
<1>8. CASE Certain' /\ ~(CreateReport(r) /\ ReportOutcome(r) = "queued")
  <2>1. report'[r].outcome \in CountedOutcomes => report[r].outcome \in CountedOutcomes
    <3>1. CASE CreateReport(r)
      BY <1>3, <1>8, <3>1 DEF CreateReport, TaskInv, TaskTypeOK, ReportRow, CountedOutcomes
    <3>2. CASE RecordUnavailable(r)
      BY <3>2 DEF RecordUnavailable, TaskInv, TaskTypeOK, ReportRow, CountedOutcomes
    <3>3. CASE ReportTask(r) \/ EnqueueRegeneration(r) \/ EnqueueRegenerationFails(r) \/ ReportDies(r)
      BY <3>3 DEF ReportTask, EnqueueRegeneration, EnqueueRegenerationFails, ReportDies, TaskInv, TaskTypeOK, ReportRow
    <3>. QED  BY <3>1, <3>2, <3>3 DEF ReportStep
  <2>. QED  BY <1>1, <1>2, <1>5, <1>6, <1>8, <2>1, OneReportMoves
<1>9. CASE ~Certain'
  BY <1>5, <1>9 DEF TaskInv
<1>. QED  BY <1>7, <1>8, <1>9

\* The job of a report: what it may write, it may write because its report waits for it.
LEMMA RegenKeeps ==
    ASSUME TaskInv, NEW r \in Reports, RegenStep(r) \/ RegenDies(r)
    PROVE  TaskInv'
<1>0. report[r] \in ReportRow /\ regen[r] \in RegenRow /\ UNCHANGED submission
      /\ ReportOf[r] \in Tasks /\ task[ReportOf[r]] \in TaskRow
  BY TaskAssumption DEF TaskInv, TaskTypeOK, RegenStep, RegenLoad, RegenWritesOutcome, RegenGenerate, ReplaceTaskContent,
         RegenFails, FailTaskRegeneration, RegenFinish, RegenDies
<1>1. faults' \in Nat /\ (Certain' => Certain) /\ (faults' = 0 => faults = 0)
  <2>1. UNCHANGED <<faults, faultKind>> \/ Fault("crash") \/ Fault("generation")
    BY DEF RegenStep, RegenLoad, RegenWritesOutcome, RegenGenerate, ReplaceTaskContent,
           RegenFails, RegenFinish, RegenDies
  <2>. QED  BY <2>1, FaultsCount
<1>2. /\ Retried(r) \in RegenRow /\ Retried(r).pc = "idle" /\ Retried(r).status \in {"queued", "discarded"}
      /\ FinalAttempt(r) => Retried(r).status = "discarded"
  BY <1>0 DEF Retried, NoRegen, RegenRow
<1>3. CASE RegenLoad(r)
  <2>. DEFINE row == [status |-> "running", attempt |-> regen[r].attempt + 1,
                      pc |-> IF task[ReportOf[r]].graded THEN "answered" ELSE "regenerating"]
  <2>1. row \in RegenRow
    BY <1>0 DEF RegenRow
  <2>2. regen' = [regen EXCEPT ![r] = row] /\ UNCHANGED <<task, report, faults, faultKind>>
        /\ regen[r].status = "queued"
    BY <1>3 DEF RegenLoad
  <2>3. row.status = "running" /\ row.pc = IF task[ReportOf[r]].graded THEN "answered" ELSE "regenerating"
    OBVIOUS
  <2>. HIDE DEF row
  <2>4. TaskTypeOK' /\ regen'[r] = row /\ \A q \in Reports \ {r} : report'[q] = report[q] /\ regen'[q] = regen[q]
    BY <1>0, <2>1, <2>2 DEF TaskInv, TaskTypeOK
  <2>5. Certain => ReportInv(r)'
    BY <2>2, <2>3, <2>4 DEF TaskInv, ReportInv, Live
  <2>. QED  BY <1>1, <2>2, <2>4, <2>5, OneReportMoves DEF TaskInv
<1>4. CASE RegenWritesOutcome(r)
  <2>. DEFINE pc == regen[r].pc
              next == IF pc = "regenerating" THEN "generate" ELSE "finish"
  <2>1. /\ pc \in {"answered", "regenerating", "regenerated"}
        /\ UNCHANGED <<task, faults, faultKind>>
        /\ report' = [report EXCEPT ![r].outcome = pc]
        /\ regen' = [regen EXCEPT ![r].pc = next]
    BY <1>4 DEF RegenWritesOutcome
  <2>2. /\ TaskTypeOK' /\ report'[r].outcome = pc /\ report'[r].pc = report[r].pc
        /\ regen'[r].pc = next /\ regen'[r].status = regen[r].status
        /\ \A q \in Reports \ {r} : report'[q] = report[q] /\ regen'[q] = regen[q]
    BY <1>0, <2>1 DEF TaskInv, TaskTypeOK, ReportRow, RegenRow, CountedOutcomes, TerminalOutcomes
  <2>3. Certain => ReportInv(r)'
    BY <2>1, <2>2 DEF TaskInv, ReportInv, Live
  <2>4. Certain /\ pc # "answered" => report[r].outcome \in CountedOutcomes
    BY <2>1 DEF TaskInv, ReportInv, Live, CountedOutcomes
  <2>5. Certain => (report'[r].outcome \in CountedOutcomes => report[r].outcome \in CountedOutcomes)
    BY <2>2, <2>4 DEF CountedOutcomes
  <2>. QED  BY <1>1, <2>1, <2>2, <2>3, <2>5, OneReportMoves DEF TaskInv
<1>5. CASE RegenGenerate(r)
  <2>1. /\ TaskTypeOK' /\ report' = report /\ regen[r].pc = "generate"
        /\ regen'[r].pc = "replace" /\ regen'[r].status = regen[r].status
        /\ \A q \in Reports \ {r} : regen'[q] = regen[q]
        /\ UNCHANGED <<task, faults, faultKind>>
    BY <1>0, <1>5 DEF RegenGenerate, TaskInv, TaskTypeOK, RegenRow
  <2>2. Certain => ReportInv(r)'
    BY <2>1 DEF TaskInv, ReportInv, Live
  <2>. QED  BY <1>1, <2>1, <2>2, OneReportMoves DEF TaskInv
<1>6. CASE ReplaceTaskContent(r)
  <2>. DEFINE t == ReportOf[r]
  <2>1. task' \in [Tasks -> TaskRow] /\ \A u \in Tasks : task'[u].graded = task[u].graded
    BY <1>0, <1>6 DEF ReplaceTaskContent, TaskInv, TaskTypeOK, TaskRow
  <2>2. /\ report' = report /\ regen[r].pc = "replace"
        /\ regen' \in [Reports -> RegenRow] /\ regen'[r].pc = "regenerated" /\ regen'[r].status = regen[r].status
        /\ \A q \in Reports \ {r} : regen'[q] = regen[q]
        /\ UNCHANGED <<faults, faultKind>>
    BY <1>0, <1>6 DEF ReplaceTaskContent, TaskInv, TaskTypeOK, RegenRow
  <2>3. TaskTypeOK'
    BY <1>0, <1>1, <2>1, <2>2 DEF TaskInv, TaskTypeOK
  <2>4. Certain => ReportInv(r)'
    BY <1>0, <2>1, <2>2 DEF TaskInv, ReportInv, Live
  <2>. QED  BY <1>1, <2>1, <2>2, <2>3, <2>4, OneReportMoves DEF TaskInv
<1>7. CASE RegenFails(r)
  <2>1. /\ regen[r].pc \in {"generate", "replace"} /\ UNCHANGED task
        /\ report' = IF FinalAttempt(r) THEN [report EXCEPT ![r].outcome = "failed"] ELSE report
        /\ regen' = [regen EXCEPT ![r] = Retried(r)]
    BY <1>7 DEF RegenFails, FailTaskRegeneration
  <2>2. /\ TaskTypeOK' /\ report'[r].pc = report[r].pc
        /\ IF FinalAttempt(r) THEN report'[r].outcome = "failed" ELSE report'[r].outcome = report[r].outcome
        /\ regen'[r] = Retried(r)
        /\ \A q \in Reports \ {r} : report'[q] = report[q] /\ regen'[q] = regen[q]
    BY <1>0, <1>1, <1>2, <2>1 DEF TaskInv, TaskTypeOK, ReportRow, CountedOutcomes
  <2>3. Certain => ReportInv(r)' /\ report[r].outcome = "regenerating"
    BY <1>1, <1>2, <2>1, <2>2 DEF TaskInv, ReportInv, Live
  <2>4. Certain => (report'[r].outcome \in CountedOutcomes => report[r].outcome \in CountedOutcomes)
    BY <2>3 DEF CountedOutcomes
  <2>. QED  BY <1>1, <2>1, <2>2, <2>3, <2>4, OneReportMoves DEF TaskInv
<1>8. CASE RegenFinish(r)
  <2>. DEFINE row == [NoRegen EXCEPT !.status = "completed"]
  <2>1. row \in RegenRow /\ row.status = "completed" /\ row.pc = "idle"
    BY DEF NoRegen, RegenRow
  <2>2. regen' = [regen EXCEPT ![r] = row] /\ UNCHANGED <<task, report, faults, faultKind>> /\ regen[r].pc = "finish"
    BY <1>8 DEF RegenFinish
  <2>. HIDE DEF row
  <2>3. TaskTypeOK' /\ regen'[r] = row /\ \A q \in Reports \ {r} : report'[q] = report[q] /\ regen'[q] = regen[q]
    BY <1>0, <2>1, <2>2 DEF TaskInv, TaskTypeOK
  <2>4. Certain => ReportInv(r)'
    BY <2>1, <2>2, <2>3 DEF TaskInv, ReportInv, Live
  <2>. QED  BY <1>1, <2>2, <2>3, <2>4, OneReportMoves DEF TaskInv
<1>9. CASE RegenDies(r)
  <2>1. regen' = [regen EXCEPT ![r] = Retried(r)] /\ UNCHANGED <<task, report>> /\ regen[r].status = "running"
        /\ Fault("crash")
    BY <1>9 DEF RegenDies
  <2>2. TaskTypeOK' /\ regen'[r] = Retried(r) /\ \A q \in Reports \ {r} : report'[q] = report[q] /\ regen'[q] = regen[q]
    BY <1>0, <1>1, <1>2, <2>1 DEF TaskInv, TaskTypeOK
  <2>3. faults' # 0
    BY <2>1 DEF Fault, TaskInv, TaskTypeOK
  <2>4. Certain => ReportInv(r)'
    BY <1>2, <2>1, <2>2, <2>3 DEF TaskInv, ReportInv, Live
  <2>. QED  BY <1>1, <2>1, <2>2, <2>4, OneReportMoves DEF TaskInv
<1>. QED  BY <1>3, <1>4, <1>5, <1>6, <1>7, <1>8, <1>9 DEF RegenStep

-----------------------------------------------------------------------------
\* Steps of others on the learner's rows change nothing the invariant speaks of.
LEMMA OthersKeep == TaskInv /\ UNCHANGED taskVars => TaskInv'
  BY DEF TaskInv, TaskTypeOK, ReportInv, Live, Certain, Counted, taskVars

\* No step uncounts a fault.
LEMMA FaultsGrow == TaskInv /\ [TaskNext]_taskVars => (faults' = 0 => faults = 0)
<1>. SUFFICES ASSUME TaskInv, [TaskNext]_taskVars PROVE faults' = 0 => faults = 0
  OBVIOUS
<1>1. faults' = faults \/ \E kind \in {"crash", "enqueue", "ambiguous", "generation"} : Fault(kind)
  <2>1. ASSUME NEW q \in Signals, SubmitStep(q) \/ SubmissionDies(q) \/ \E t \in Tasks : Submit(q, t)
        PROVE  faults' = faults \/ Fault("crash")
    BY <2>1 DEF SubmitStep, SubmissionDies, Submit, Grade, RecordTaskGrade, LearnItems, BeginXP, LearnSkills, taskVars
  <2>2. ASSUME NEW r \in Reports, ReportTask(r) \/ ReportStep(r) \/ EnqueueRegenerationFails(r) \/ ReportDies(r)
        PROVE  faults' = faults \/ Fault("crash") \/ Fault("enqueue") \/ Fault("ambiguous")
    BY <2>2 DEF ReportTask, ReportStep, CreateReport, EnqueueRegeneration, RecordUnavailable,
                EnqueueRegenerationFails, ReportDies
  <2>3. ASSUME NEW r \in Reports, RegenStep(r) \/ RegenDies(r)
        PROVE  faults' = faults \/ Fault("crash") \/ Fault("generation")
    BY <2>3 DEF RegenStep, RegenLoad, RegenWritesOutcome, RegenGenerate, ReplaceTaskContent,
                RegenFails, RegenFinish, RegenDies
  <2>4. ASSUME NEW k \in Skills, VerifyStep(k) PROVE faults' = faults
    BY <2>4 DEF VerifyStep, taskVars
  <2>5. CASE UNCHANGED taskVars
    BY <2>5 DEF taskVars
  <2>. QED  BY <2>1, <2>2, <2>3, <2>4, <2>5 DEF TaskNext
<1>. QED  BY <1>1 DEF Fault, TaskInv, TaskTypeOK

\* Every step of the learner, a handler or a job keeps the invariant.
LEMMA TaskStep == TaskInv /\ [TaskNext]_taskVars => TaskInv'
<1>. SUFFICES ASSUME TaskInv, [TaskNext]_taskVars PROVE TaskInv'
  OBVIOUS
<1>1. CASE \E q \in Signals : SubmitStep(q) \/ SubmissionDies(q) \/ \E t \in Tasks : Submit(q, t)
  BY <1>1, SubmissionKeeps
<1>2. CASE \E k \in Skills : VerifyStep(k)
  BY <1>2, OthersKeep DEF VerifyStep
<1>3. CASE \E r \in Reports : \/ ReportTask(r) \/ ReportStep(r) \/ EnqueueRegenerationFails(r) \/ ReportDies(r)
                              \/ RegenStep(r) \/ RegenDies(r)
  BY <1>3, ReportKeeps, RegenKeeps
<1>4. CASE UNCHANGED taskVars
  BY <1>4, OthersKeep
<1>. QED  BY <1>1, <1>2, <1>3, <1>4 DEF TaskNext

THEOREM TaskInvariant == TaskSpec => []TaskInv
  BY InitialTasks, TaskStep, PTL DEF TaskSpec

\* Reports filed at once, retried, failed and redelivered stay within the cap
\* (task_reports.go:58), for every cap and any number of reports.
THEOREM CapIsRespected == TaskSpec => []CapRespected
<1>1. TaskInv => CapRespected
  BY DEF TaskInv, Certain, CapRespected
<1>. QED  BY <1>1, TaskInvariant, PTL

\* No submission and no late regeneration takes back a grade or changes the content of a
\* graded task (ReplaceTaskContent in db/sql_pipeline.go).
THEOREM GradesAreFinal == TaskSpec => GradedContentKept
<1>1. ASSUME TaskInv, [TaskNext]_taskVars, NEW t \in Tasks, task[t].graded
      PROVE  task'[t].content = task[t].content /\ task'[t].graded
  <2>1. CASE \E q \in Signals : RecordTaskGrade(q)
    <3>. PICK q \in Signals : RecordTaskGrade(q)
      BY <2>1
    <3>1. submission[q].task \in Tasks
      BY <1>1 DEF TaskInv, TaskTypeOK, SubmissionRow
    <3>. QED  BY <1>1, <3>1 DEF RecordTaskGrade, TaskInv, TaskTypeOK, TaskRow
  <2>2. CASE \E r \in Reports : ReplaceTaskContent(r)
    <3>. PICK r \in Reports : ReplaceTaskContent(r)
      BY <2>2
    <3>1. ReportOf[r] # t
      BY <1>1 DEF ReplaceTaskContent
    <3>2. task'[t] = task[t]
      BY <1>1, <3>1 DEF ReplaceTaskContent, TaskInv, TaskTypeOK
    <3>. QED  BY <1>1, <3>2
  <2>3. CASE UNCHANGED task
    BY <1>1, <2>3
  <2>. QED
    BY <1>1, <2>1, <2>2, <2>3
    DEF TaskNext, SubmitStep, SubmissionDies, Submit, Grade, LearnItems, BeginXP, LearnSkills, VerifyStep,
        ReportTask, ReportStep, CreateReport, EnqueueRegeneration, RecordUnavailable,
        EnqueueRegenerationFails, ReportDies, RegenStep, RegenLoad, RegenWritesOutcome, RegenGenerate,
        RegenFails, FailTaskRegeneration, RegenFinish, RegenDies, taskVars
<1>2. TaskInv /\ [TaskNext]_taskVars =>
        [\A t \in Tasks : task[t].graded => task'[t].content = task[t].content
                                             /\ task'[t].graded]_<<taskVars, acquireVars, skillVars>>
  BY <1>1
<1>. QED  BY <1>2, TaskInvariant, PTL DEF TaskSpec, GradedContentKept

\* A learner who was told that a regeneration failed is never told otherwise, and without
\* a fault no final outcome changes (pipeline.go:738), for any number of attempts.
THEOREM OutcomesAreFinal == TaskSpec => TerminalReportIsFinal
<1>1. ASSUME TaskInv, TaskInv', [TaskNext]_taskVars, NEW r \in Reports,
             \/ report[r].outcome = "failed" /\ faultKind # "ambiguous"
             \/ report[r].outcome \in TerminalOutcomes /\ faults' = 0
      PROVE  report'[r].outcome = report[r].outcome
  <2>1. Certain /\ (report[r].outcome # "failed" => faults = 0)
    <3>1. faults' = 0 => faults = 0
      BY <1>1, FaultsGrow
    <3>. QED  BY <1>1, <3>1 DEF Certain
  <2>2. ReportInv(r) /\ report[r].outcome \in TerminalOutcomes
    BY <1>1, <2>1 DEF TaskInv, TerminalOutcomes
  <2>3. CASE \E q \in Reports : CreateReport(q) \/ RecordUnavailable(q)
    <3>. PICK q \in Reports : CreateReport(q) \/ RecordUnavailable(q)
      BY <2>3
    <3>1. q # r
      BY <2>2 DEF CreateReport, RecordUnavailable, ReportInv, TerminalOutcomes
    <3>. QED  BY <3>1, <1>1 DEF CreateReport, RecordUnavailable, TaskInv, TaskTypeOK
  <2>4. CASE \E q \in Reports : RegenWritesOutcome(q) \/ RegenFails(q)
    <3>. PICK q \in Reports : RegenWritesOutcome(q) \/ RegenFails(q)
      BY <2>4
    <3>1. q # r
      <4>1. /\ regen[q].pc \in {"answered", "regenerating", "regenerated", "generate", "replace"}
            /\ report[q].outcome = "failed" => ReportInv(q)
        BY <1>1, <2>1 DEF RegenWritesOutcome, RegenFails, TaskInv
      <4>. QED  BY <2>1, <2>2, <4>1 DEF ReportInv, Live, TerminalOutcomes
    <3>. QED  BY <3>1, <1>1 DEF RegenWritesOutcome, RegenFails, FailTaskRegeneration, TaskInv, TaskTypeOK
  <2>5. CASE \E q \in Reports : ReportTask(q) \/ EnqueueRegeneration(q) \/ EnqueueRegenerationFails(q) \/ ReportDies(q)
    BY <1>1, <2>5 DEF ReportTask, EnqueueRegeneration, EnqueueRegenerationFails, ReportDies,
                      TaskInv, TaskTypeOK, ReportRow
  <2>6. CASE UNCHANGED report
    BY <2>6
  <2>. QED
    BY <1>1, <2>3, <2>4, <2>5, <2>6
    DEF TaskNext, SubmitStep, SubmissionDies, Submit, Grade, RecordTaskGrade, LearnItems, BeginXP, LearnSkills,
        VerifyStep, ReportStep, RegenStep, RegenLoad, RegenGenerate, ReplaceTaskContent, RegenFinish, RegenDies, taskVars
<1>2. TaskInv /\ TaskInv' /\ [TaskNext]_taskVars =>
        [\A r \in Reports :
            (\/ report[r].outcome = "failed" /\ faultKind # "ambiguous"
             \/ report[r].outcome \in TerminalOutcomes /\ faults' = 0)
            => report'[r].outcome = report[r].outcome]_<<taskVars, acquireVars, skillVars>>
  BY <1>1
<1>. QED  BY <1>2, TaskInvariant, PTL DEF TaskSpec, TerminalReportIsFinal

-----------------------------------------------------------------------------
\* Rows of user_skill_xp.
XPRow == [xp : Nat, tier : 0..TierCount, pending : BOOLEAN]

SkillTypeOK ==
    /\ xp \in [Skills -> XPRow]
    /\ \A q \in Learners : xpRun[q].current \in [Skills -> XPRow] /\ xpRun[q].base \in Nat
    /\ DOMAIN xpRun = Learners
    /\ verify \in [Skills -> [status : {"none", "queued", "running"}, copy : XPRow]]
    /\ confirmed \in [Skills -> Nat]

Agrees(row) == row.tier = Clamp(row.xp \div XPPerTier, 0, TierCount)

SkillInv ==
    /\ SkillTypeOK
    /\ \A k \in Skills : Agrees(xp[k]) /\ Agrees(verify[k].copy)
    /\ verifier = "none" =>
          \A k \in Skills :
              /\ EffectiveTier(xp[k]) <= confirmed[k]
              /\ \A q \in Learners : EffectiveTier(xpRun[q].current[k]) <= confirmed[k]

-----------------------------------------------------------------------------
\* An experience is worth a natural number of tiers.
LEMMA DivisionType == \A n \in Nat : n \div XPPerTier \in Nat
  BY XPAssumption

\* Nothing has no tier.
LEMMA ZeroXPIsRow == ZeroXP \in XPRow /\ Agrees(ZeroXP) /\ EffectiveTier(ZeroXP) = 0
  BY XPAssumption DEF ZeroXP, XPRow, Agrees, Clamp, EffectiveTier

\* A change derives the tier, and leaves it to be verified when it rose.
LEMMA ChangedRow ==
    ASSUME NEW row \in XPRow, NEW delta \in Int
    PROVE  /\ BuildXPChange(row, delta) \in XPRow /\ Agrees(BuildXPChange(row, delta))
           /\ EffectiveTier(BuildXPChange(row, delta)) <= EffectiveTier(row)
<1>. DEFINE after == AtLeast(row.xp + delta, 0)
            tier == Clamp(after \div XPPerTier, 0, TierCount)
            pending == row.pending \/ tier > Clamp(row.tier, 0, TierCount)
<1>1. after \in Nat
  BY DEF XPRow, AtLeast
<1>2. tier \in 0..TierCount
  BY <1>1, DivisionType, XPAssumption DEF Clamp
<1>3. pending \in BOOLEAN
  BY DEF XPRow
<1>4. BuildXPChange(row, delta) = [xp |-> after, tier |-> tier, pending |-> pending]
  BY DEF BuildXPChange
<1>5. BuildXPChange(row, delta) \in XPRow /\ Agrees(BuildXPChange(row, delta))
  <2>1. Agrees([xp |-> after, tier |-> tier, pending |-> pending])
    BY DEF Agrees
  <2>. HIDE DEF after, tier, pending
  <2>. QED  BY <1>1, <1>2, <1>3, <1>4, <2>1 DEF XPRow
<1>6. ~pending => tier <= row.tier
  BY <1>2, XPAssumption DEF XPRow, Clamp
<1>7. EffectiveTier([xp |-> after, tier |-> tier, pending |-> pending]) <= EffectiveTier(row)
  <2>1. ~pending => ~row.pending
    OBVIOUS
  <2>. HIDE DEF after, tier, pending
  <2>. QED  BY <1>2, <1>3, <1>6, <2>1 DEF EffectiveTier, XPRow
<1>. QED  BY <1>4, <1>5, <1>7

\* A rejected row is one short of the tier, and its tier the one below.
LEMMA Rejected ==
    ASSUME NEW row \in XPRow
    PROVE  RejectedRow(row) \in XPRow /\ Agrees(RejectedRow(row))
<1>. DEFINE below == AtLeast(row.tier * XPPerTier - 1, 0)
<1>1. row.tier \in Nat /\ row.tier <= TierCount /\ row.tier * XPPerTier \in Nat
  BY XPAssumption DEF XPRow
<1>2. below \in Nat
  BY <1>1 DEF AtLeast
<1>3. below \div XPPerTier <= row.tier
  <2>1. below <= row.tier * XPPerTier
    BY <1>1 DEF AtLeast
  <2>. HIDE DEF below
  <2>. QED  BY <1>1, <1>2, <2>1, XPAssumption
<1>4. below \div XPPerTier \in 0..TierCount
  BY <1>1, <1>2, <1>3, DivisionType, XPAssumption
<1>5. RejectedRow(row) = [xp |-> below, tier |-> below \div XPPerTier, pending |-> FALSE]
  BY DEF RejectedRow
<1>. HIDE DEF below
<1>. QED  BY <1>2, <1>4, <1>5, XPAssumption DEF XPRow, Agrees, Clamp

-----------------------------------------------------------------------------
\* A new learner has nothing.
LEMMA InitialSkills == SkillInit => SkillInv
<1>. SUFFICES ASSUME SkillInit PROVE SkillInv
  OBVIOUS
<1>1. SkillTypeOK
  BY ZeroXPIsRow DEF SkillInit, SkillTypeOK, NoXPRun, NoVerify
<1>2. \A k \in Skills : xp[k] = ZeroXP /\ verify[k].copy = ZeroXP /\ confirmed[k] = 0
  BY DEF SkillInit, NoVerify
<1>3. \A q \in Learners, k \in Skills : xpRun[q].current[k] = ZeroXP
  BY DEF SkillInit, NoXPRun
<1>. QED  BY <1>1, <1>2, <1>3, ZeroXPIsRow DEF SkillInv

\* A grade reads the rows, and stores what it made of them.
LEMMA GradeKeeps ==
    ASSUME SkillInv, NEW q \in Learners,
           \/ ApplyXP(q)
           \/ \E items, shown \in SUBSET DOMAIN SkillsOf, correct \in BOOLEAN, base \in Nat :
                 BeginXPRun(q, items, shown, correct, base) /\ UNCHANGED <<xp, verify, verifier, confirmed>>
    PROVE  SkillInv'
<1>0. /\ UNCHANGED <<verifier, confirmed>>
      /\ \A k \in Skills : ZeroXP \in XPRow /\ EffectiveTier(ZeroXP) <= confirmed[k]
  BY ZeroXPIsRow DEF ApplyXP, LoadCurrent, StoreXP, XPApplied, EnqueueSkillVerify, SkillInv, SkillTypeOK
<1>1. CASE LoadCurrent(q)
  <2>1. /\ UNCHANGED <<xp, verify>> /\ DOMAIN xpRun' = Learners
        /\ xpRun'[q].current = xp /\ xpRun'[q].base = xpRun[q].base
        /\ \A p \in Learners \ {q} : xpRun'[p] = xpRun[p]
    <3>1. xpRun' = [xpRun EXCEPT ![q] = [xpRun[q] EXCEPT !.pc = "store", !.current = xp]]
      BY <1>1 DEF LoadCurrent, SkillInv, SkillTypeOK
    <3>. QED  BY <1>1, <3>1 DEF LoadCurrent, SkillInv, SkillTypeOK
  <2>2. SkillTypeOK'
    BY <1>0, <2>1 DEF SkillInv, SkillTypeOK
  <2>. QED  BY <1>0, <2>1, <2>2 DEF SkillInv
<1>2. CASE StoreXP(q)
  <2>. DEFINE run == xpRun[q]
              changed == {k \in DOMAIN Deltas(q) : Deltas(q)[k] # 0}
              after == [k \in changed |-> BuildXPChange(run.current[k], Deltas(q)[k])]
              next == [NoXPRun EXCEPT !.pc = "enqueue", !.left = {k \in changed : after[k].pending}]
  <2>1. /\ xp' = [k \in Skills |-> IF k \in changed THEN after[k] ELSE xp[k]]
        /\ xpRun' = [xpRun EXCEPT ![q] = next]
        /\ UNCHANGED verify
    BY <1>2 DEF StoreXP
  <2>2. next.current = [k \in Skills |-> ZeroXP] /\ next.base = 0
    BY DEF NoXPRun
  <2>3. \A k \in changed : Deltas(q)[k] \in Int
    BY XPAssumption DEF Deltas, XPDelta, SkillInv, SkillTypeOK
  <2>4. ASSUME NEW k \in Skills
        PROVE  /\ xp'[k] \in XPRow /\ Agrees(xp'[k])
               /\ verifier = "none" => EffectiveTier(xp'[k]) <= confirmed[k]
    <3>1. CASE k \in changed
      <4>. DEFINE row == run.current[k]
      <4>1. row \in XPRow /\ (verifier = "none" => EffectiveTier(row) <= confirmed[k]) /\ confirmed[k] \in Nat
        BY DEF SkillInv, SkillTypeOK
      <4>2. xp'[k] = BuildXPChange(row, Deltas(q)[k]) /\ Deltas(q)[k] \in Int
        BY <2>1, <2>3, <3>1
      <4>3. /\ xp'[k] \in XPRow /\ Agrees(xp'[k]) /\ EffectiveTier(xp'[k]) <= EffectiveTier(row)
        <5>. HIDE DEF row
        <5>. QED  BY <4>1, <4>2, ChangedRow
      <4>4. EffectiveTier(xp'[k]) \in Nat /\ EffectiveTier(row) \in Nat
        <5>. HIDE DEF row
        <5>. QED  BY <4>1, <4>3, XPAssumption DEF EffectiveTier, XPRow
      <4>. HIDE DEF row
      <4>. QED  BY <4>1, <4>3, <4>4
    <3>2. CASE k \notin changed
      BY <2>1, <3>2 DEF SkillInv, SkillTypeOK
    <3>. QED  BY <3>1, <3>2
  <2>. HIDE DEF changed, after, next, run
  <2>5. SkillTypeOK'
    <3>1. xp' \in [Skills -> XPRow]
      BY <2>1, <2>4
    <3>2. \A p \in Learners : xpRun'[p] = IF p = q THEN next ELSE xpRun[p]
      BY <2>1 DEF SkillInv, SkillTypeOK
    <3>3. DOMAIN xpRun' = Learners
      BY <2>1 DEF SkillInv, SkillTypeOK
    <3>. QED  BY <1>0, <2>1, <2>2, <3>1, <3>2, <3>3, ZeroXPIsRow DEF SkillInv, SkillTypeOK
  <2>6. \A p \in Learners, k \in Skills :
            xpRun'[p].current[k] = ZeroXP \/ xpRun'[p].current[k] = xpRun[p].current[k]
    BY <2>1, <2>2 DEF SkillInv, SkillTypeOK
  <2>. QED  BY <1>0, <2>1, <2>4, <2>5, <2>6 DEF SkillInv
<1>3. CASE \E k \in Skills : EnqueueSkillVerify(q, k)
  <2>. PICK k \in Skills : EnqueueSkillVerify(q, k)
    BY <1>3
  <2>1. /\ UNCHANGED xp /\ DOMAIN xpRun' = Learners
        /\ \A p \in Learners : xpRun'[p].current = xpRun[p].current /\ xpRun'[p].base = xpRun[p].base
    <3>1. xpRun' = [xpRun EXCEPT ![q] = [xpRun[q] EXCEPT !.left = xpRun[q].left \ {k}]]
      BY DEF EnqueueSkillVerify, SkillInv, SkillTypeOK
    <3>. QED  BY <3>1 DEF EnqueueSkillVerify, SkillInv, SkillTypeOK
  <2>2. /\ verify' \in [Skills -> [status : {"none", "queued", "running"}, copy : XPRow]]
        /\ \A l \in Skills : verify'[l].copy = verify[l].copy
    BY DEF EnqueueSkillVerify, SkillInv, SkillTypeOK
  <2>. QED  BY <1>0, <2>1, <2>2 DEF SkillInv, SkillTypeOK
<1>4. CASE XPApplied(q)
  <2>1. /\ UNCHANGED <<xp, verify>> /\ DOMAIN xpRun' = Learners
        /\ \A p \in Learners : xpRun'[p].current = xpRun[p].current /\ xpRun'[p].base = xpRun[p].base
    <3>1. xpRun' = [xpRun EXCEPT ![q] = [xpRun[q] EXCEPT !.pc = "done"]]
      BY <1>4 DEF XPApplied, SkillInv, SkillTypeOK
    <3>. QED  BY <1>4, <3>1 DEF XPApplied, SkillInv, SkillTypeOK
  <2>. QED  BY <1>0, <2>1 DEF SkillInv, SkillTypeOK
<1>5. ASSUME NEW items \in SUBSET DOMAIN SkillsOf, NEW shown \in SUBSET DOMAIN SkillsOf,
             NEW correct \in BOOLEAN, NEW base \in Nat,
             BeginXPRun(q, items, shown, correct, base), UNCHANGED <<xp, verify, verifier, confirmed>>
      PROVE  SkillInv'
  <2>. DEFINE next == [NoXPRun EXCEPT !.pc = "load", !.items = items, !.shown = shown,
                                      !.correct = correct, !.base = base]
  <2>1. next.current = [k \in Skills |-> ZeroXP] /\ next.base = base
    BY DEF NoXPRun
  <2>2. xpRun' = [xpRun EXCEPT ![q] = next]
    BY <1>5 DEF BeginXPRun
  <2>. HIDE DEF next
  <2>3. /\ DOMAIN xpRun' = Learners /\ xpRun'[q] = next
        /\ \A p \in Learners \ {q} : xpRun'[p] = xpRun[p]
    BY <2>2 DEF SkillInv, SkillTypeOK
  <2>4. SkillTypeOK'
    BY <1>5, <2>1, <2>3, ZeroXPIsRow DEF SkillInv, SkillTypeOK
  <2>. QED  BY <1>0, <1>5, <2>1, <2>3, <2>4 DEF SkillInv
<1>. QED  BY <1>1, <1>2, <1>3, <1>4, <1>5 DEF ApplyXP

\* A verification writes back the row it read, confirmed or rejected.
LEMMA VerificationKeeps ==
    ASSUME SkillInv, NEW k \in Skills, VerifySkill(k)
    PROVE  SkillInv'
<1>0. /\ UNCHANGED <<xpRun, verifier>> /\ verify[k].copy \in XPRow /\ Agrees(verify[k].copy)
      /\ confirmed[k] \in Nat
      /\ NoVerify \in [status : {"none", "queued", "running"}, copy : XPRow] /\ NoVerify.copy = ZeroXP
  BY ZeroXPIsRow DEF VerifySkill, StartVerify, Promote, Reject, VerifyFails, NoVerify, SkillInv, SkillTypeOK
<1>1. ASSUME NEW row \in [status : {"none", "queued", "running"}, copy : XPRow], Agrees(row.copy),
             verify' = [verify EXCEPT ![k] = row]
      PROVE  /\ verify' \in [Skills -> [status : {"none", "queued", "running"}, copy : XPRow]]
             /\ \A l \in Skills : Agrees(verify'[l].copy)
  BY <1>1 DEF SkillInv, SkillTypeOK
<1>2. CASE StartVerify(k)
  <2>. DEFINE row == IF xp[k].pending THEN [status |-> "running", copy |-> xp[k]] ELSE NoVerify
  <2>1. row \in [status : {"none", "queued", "running"}, copy : XPRow] /\ Agrees(row.copy)
    BY <1>0, ZeroXPIsRow DEF SkillInv, SkillTypeOK
  <2>2. verify' = [verify EXCEPT ![k] = row] /\ UNCHANGED <<xp, confirmed>>
    BY <1>2 DEF StartVerify
  <2>. HIDE DEF row
  <2>. QED  BY <1>0, <1>1, <2>1, <2>2 DEF SkillInv, SkillTypeOK
<1>3. CASE VerifyFails(k)
  <2>. PICK next \in {"queued", "none"} : verify' = [verify EXCEPT ![k] = [NoVerify EXCEPT !.status = next]]
    BY <1>3 DEF VerifyFails
  <2>. DEFINE row == [NoVerify EXCEPT !.status = next]
  <2>1. row \in [status : {"none", "queued", "running"}, copy : XPRow] /\ Agrees(row.copy)
    BY <1>0, ZeroXPIsRow DEF NoVerify
  <2>2. verify' = [verify EXCEPT ![k] = row] /\ UNCHANGED <<xp, confirmed>>
    BY <1>3 DEF VerifyFails
  <2>. HIDE DEF row
  <2>. QED  BY <1>0, <1>1, <2>1, <2>2 DEF SkillInv, SkillTypeOK
<1>4. CASE Promote(k)
  <2>. DEFINE row == [verify[k].copy EXCEPT !.pending = FALSE]
              tier == AtLeast(verify[k].copy.tier, confirmed[k])
  <2>1. row \in XPRow /\ Agrees(row) /\ EffectiveTier(row) = verify[k].copy.tier
    <3>1. row \in XPRow /\ row.xp = verify[k].copy.xp /\ row.tier = verify[k].copy.tier /\ ~row.pending
      BY <1>0 DEF XPRow
    <3>2. row.tier \in Nat
      BY <3>1, XPAssumption DEF XPRow
    <3>. HIDE DEF row
    <3>3. Agrees(row)
      BY <1>0, <3>1 DEF Agrees
    <3>4. EffectiveTier(row) = row.tier
      BY <3>1, <3>2 DEF EffectiveTier
    <3>. QED  BY <3>1, <3>3, <3>4
  <2>2. tier \in Nat /\ tier >= confirmed[k] /\ tier >= verify[k].copy.tier
    BY <1>0, XPAssumption DEF XPRow, AtLeast
  <2>3. /\ xp' = [xp EXCEPT ![k] = row] /\ confirmed' = [confirmed EXCEPT ![k] = tier]
        /\ verify' = [verify EXCEPT ![k] = NoVerify]
    BY <1>4 DEF Promote, SkillInv, SkillTypeOK
  <2>. HIDE DEF row, tier
  <2>4. SkillTypeOK'
    BY <1>0, <2>1, <2>2, <2>3 DEF SkillInv, SkillTypeOK
  <2>5. \A l \in Skills : /\ Agrees(xp'[l]) /\ Agrees(verify'[l].copy)
                          /\ confirmed'[l] >= confirmed[l] /\ confirmed[l] \in Nat /\ confirmed'[l] \in Nat
    BY <1>0, <2>1, <2>2, <2>3, ZeroXPIsRow DEF SkillInv, SkillTypeOK
  <2>6. ASSUME verifier = "none", NEW l \in Skills
        PROVE  /\ EffectiveTier(xp'[l]) <= confirmed'[l]
               /\ \A q \in Learners : EffectiveTier(xpRun[q].current[l]) <= confirmed'[l]
    <3>1. xp[l] \in XPRow /\ \A q \in Learners : xpRun[q].current[l] \in XPRow
      BY DEF SkillInv, SkillTypeOK
    <3>2. \A r \in XPRow : EffectiveTier(r) \in Nat
      BY XPAssumption DEF XPRow, EffectiveTier
    <3>3. \A q \in Learners : EffectiveTier(xpRun[q].current[l]) <= confirmed'[l]
      <4>. TAKE q \in Learners
      <4>1. EffectiveTier(xpRun[q].current[l]) <= confirmed[l]
        BY <2>6 DEF SkillInv
      <4>. QED  BY <2>5, <3>1, <3>2, <4>1
    <3>4. EffectiveTier(xp[l]) <= confirmed[l] /\ EffectiveTier(xp[l]) \in Nat
      BY <2>6, <3>1, <3>2 DEF SkillInv
    <3>5. CASE l = k
      <4>1. xp'[l] = row /\ confirmed'[l] = tier
        BY <2>3, <3>5 DEF SkillInv, SkillTypeOK
      <4>. QED  BY <2>1, <2>2, <3>3, <4>1
    <3>6. CASE l # k
      <4>1. xp'[l] = xp[l]
        BY <2>3, <3>6 DEF SkillInv, SkillTypeOK
      <4>. QED  BY <2>5, <3>3, <3>4, <4>1
    <3>. QED  BY <3>5, <3>6
  <2>. QED  BY <1>0, <2>4, <2>5, <2>6 DEF SkillInv
<1>5. CASE Reject(k)
  <2>1. /\ xp' = [xp EXCEPT ![k] = RejectedRow(verify[k].copy)] /\ verify' = [verify EXCEPT ![k] = NoVerify]
        /\ UNCHANGED confirmed /\ verifier = "llm"
    BY <1>5 DEF Reject
  <2>2. RejectedRow(verify[k].copy) \in XPRow /\ Agrees(RejectedRow(verify[k].copy))
    BY <1>0, Rejected
  <2>3. SkillTypeOK'
    BY <1>0, <2>1, <2>2 DEF SkillInv, SkillTypeOK
  <2>4. \A l \in Skills : Agrees(xp'[l]) /\ Agrees(verify'[l].copy)
    BY <1>0, <2>1, <2>2, ZeroXPIsRow DEF SkillInv, SkillTypeOK
  <2>. QED  BY <1>0, <2>1, <2>3, <2>4 DEF SkillInv
<1>. QED  BY <1>2, <1>3, <1>4, <1>5 DEF VerifySkill

\* Every reachable state has it.
THEOREM SkillInvariant == SkillSpec => []SkillInv
<1>1. SkillInv /\ [SkillNext]_skillVars => SkillInv'
  <2>. SUFFICES ASSUME SkillInv, [SkillNext]_skillVars PROVE SkillInv'
    OBVIOUS
  <2>1. CASE UNCHANGED skillVars
    BY <2>1 DEF skillVars, SkillInv, SkillTypeOK
  <2>. QED  BY <2>1, GradeKeeps, VerificationKeeps DEF SkillNext
<1>. QED  BY <1>1, InitialSkills, PTL DEF SkillSpec

\* Tier and experience of a stored row agree (xp.go buildXPChange, verify.go), whichever
\* writer was last and however old its copy, for any tier size and number of tiers.
THEOREM TiersAgree == SkillSpec => []TierAgreesWithXp
<1>1. SkillInv => TierAgreesWithXp
  BY DEF SkillInv, Agrees, TierAgreesWithXp
<1>. QED  BY <1>1, SkillInvariant, PTL

\* Without a model no tier counts for the level before it was verified (level.go
\* effectiveTier), although grades and verifications overwrite one another's rows.
THEOREM TiersAreConfirmed == SkillSpec => []ConfirmedBeforeEffective
<1>1. SkillInv => ConfirmedBeforeEffective
  BY DEF SkillInv, ConfirmedBeforeEffective
<1>. QED  BY <1>1, SkillInvariant, PTL
=============================================================================
