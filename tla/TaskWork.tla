------------------------------ MODULE TaskWork ------------------------------
(***************************************************************************)
(* The work on one session's tasks: submissions are graded and turned into *)
(* signals (handler/tasks.go), reported tasks are replaced by a job        *)
(* (handler/task_reports.go, Pipeline.RegenerateTaskAttempt).              *)
(*                                                                         *)
(* A submission reads the task, is graded (by a rule, or by the model for  *)
(* as long as that takes), records the grade and only then applies its     *)
(* signals, first to the knowledge rows (AcquireEngine), then to skill     *)
(* experience (SkillXp).  A report is counted against the session's cap    *)
(* and created in one transaction; its job is inserted after the commit.   *)
(***************************************************************************)
EXTENDS AcquireEngine, SkillXp

CONSTANTS
    Tasks, TargetsOf, RuleGraded, BaseXP,
    Reports, ReportOf,       \* reports the learner may file, each of one task
    RegenerationCap,
    MaxRegenAttempts,
    MaxFaults,               \* kind of fault -> how often it may strike
    TaskFaults               \* kinds of fault: "none", "crash", "enqueue", "ambiguous", "generation"

ASSUME TaskAssumption ==
    /\ Tasks # {} /\ TargetsOf \in [Tasks -> SUBSET Items] /\ RuleGraded \in [Tasks -> BOOLEAN]
    /\ IsFiniteSet(Signals) /\ IsFiniteSet(Reports) /\ ReportOf \in [Reports -> Tasks]
    /\ RegenerationCap \in Nat

\* An answer can earn: a task of any type is worth some experience (xp.go DefaultXPConfig).
ASSUME CreditAssumption ==
    /\ BaseXP \in [Tasks -> Nat \ {0}] /\ SkillsOf \in [Items -> SUBSET Skills]
    /\ Signals \subseteq Learners

VARIABLES
    task,        \* task -> its grade, the version of its content, its attempt count
    submission,  \* submission -> its place in submitTask
    report,      \* report -> its row and its place in reportTask
    regen,       \* report -> its job
    faults,      \* faults so far
    faultKind    \* the kind of fault this behaviour may meet

taskVars == <<task, submission, report, regen, faults, faultKind>>

CountedOutcomes == {"queued", "regenerating", "regenerated", "failed"}
TerminalOutcomes == {"regenerated", "failed", "answered", "cap_reached", "unavailable"}

NoSubmission == [pc |-> "idle", task |-> CHOOSE t \in Tasks : TRUE, content |-> 0,
                 again |-> FALSE, before |-> FALSE, correct |-> FALSE, shown |-> {}]

NoReport == [pc |-> "idle", graded |-> FALSE, outcome |-> "none"]
NoRegen == [status |-> "none", pc |-> "idle", attempt |-> 0]

TaskInit ==
    /\ task = [t \in Tasks |-> [graded |-> FALSE, correct |-> FALSE, content |-> 1, attempts |-> 1]]
    /\ submission = [q \in Signals |-> NoSubmission]
    /\ report = [r \in Reports |-> NoReport]
    /\ regen = [r \in Reports |-> NoRegen]
    /\ faults = 0
    /\ faultKind \in TaskFaults

Fault(kind) == kind = faultKind /\ faults < MaxFaults[kind] /\ faults' = faults + 1 /\ UNCHANGED faultKind

-----------------------------------------------------------------------------
\* submitTask reads the task: whether it was graded before, and how, is decided here.
Submit(q, t) ==
    /\ submission[q].pc = "idle"
    /\ submission' = [submission EXCEPT ![q] = [NoSubmission EXCEPT
                         !.pc = "grade", !.task = t, !.content = task[t].content,
                         !.again = task[t].graded, !.before = task[t].graded /\ task[t].correct]]
    /\ UNCHANGED <<task, report, regen, faults, faultKind, acquireVars, skillVars>>

\* A rule demonstrates all targets of a correct answer and none otherwise; the model may
\* name any of them, whatever its verdict.
GradesOf(t) ==
    IF RuleGraded[t]
    THEN {<<TRUE, TargetsOf[t]>>, <<FALSE, {}>>}
    ELSE BOOLEAN \X SUBSET TargetsOf[t]

Grade(q) ==
    /\ submission[q].pc = "grade"
    /\ \/ \E g \in GradesOf(submission[q].task) :
              submission' = [submission EXCEPT ![q].pc = "record", ![q].correct = g[1], ![q].shown = g[2]]
       \/ submission' = [submission EXCEPT ![q].pc = "done"]
    /\ UNCHANGED <<task, report, regen, faults, faultKind, acquireVars, skillVars>>

X_OnlyAgain(sub) == sub.again /\ ~sub.before /\ sub.correct

\* Best grade wins: a first answer counts, and one that improves on the grade before it.
Improves(sub) == ~sub.again \/ (~sub.before /\ sub.correct)

X_CountEveryGrade(q) ==
    LET sub == submission[q]
        t   == sub.task
    IN  /\ sub.pc = "record"
        /\ task' = [task EXCEPT ![t].graded = TRUE, ![t].correct = sub.correct, ![t].attempts = @ + 1]
        /\ submission' = [submission EXCEPT ![q].pc = IF Improves(sub) THEN "signal" ELSE "done"]
        /\ IF Improves(sub) THEN BeginSignal(q, TargetsOf[t], sub.shown) /\ UNCHANGED uk
                            ELSE UNCHANGED acquireVars
        /\ UNCHANGED <<report, regen, faults, faultKind, skillVars>>

\* The grade and the attempt count in one transaction; the grade of whatever the task now
\* holds is overwritten.
RecordTaskGrade(q) ==
    LET sub == submission[q]
        t   == sub.task
    IN  /\ sub.pc = "record"
        /\ task' = [task EXCEPT ![t].graded = TRUE, ![t].correct = sub.correct,
                                ![t].attempts = @ + IF sub.again THEN 1 ELSE 0]
        /\ submission' = [submission EXCEPT ![q].pc = IF Improves(sub) THEN "signal" ELSE "done"]
        /\ IF Improves(sub) THEN BeginSignal(q, TargetsOf[t], sub.shown) /\ UNCHANGED uk
                            ELSE UNCHANGED acquireVars
        /\ UNCHANGED <<report, regen, faults, faultKind, skillVars>>

LearnItems(q) ==
    /\ submission[q].pc = "signal"
    /\ ApplyTaskSignal(q)
    /\ UNCHANGED <<taskVars, skillVars>>

BeginXP(q) ==
    LET sub == submission[q] IN
    /\ sub.pc = "signal"
    /\ signal[q].pc = "done"
    /\ submission' = [submission EXCEPT ![q].pc = "xp"]
    /\ signal' = [signal EXCEPT ![q] = NoSignal]
    /\ BeginXPRun(q, TargetsOf[sub.task], sub.shown, sub.correct, BaseXP[sub.task])
    /\ UNCHANGED <<task, report, regen, faults, faultKind, uk, xp, verify, verifier, confirmed>>

LearnSkills(q) ==
    /\ submission[q].pc = "xp"
    /\ ApplyXP(q)
    /\ submission' = [submission EXCEPT ![q].pc = IF xpRun'[q].pc = "done" THEN "done" ELSE @]
    /\ UNCHANGED <<task, report, regen, faults, faultKind, acquireVars>>

\* The process dies, or a statement fails and the request ends in a 500: what was stored
\* stays, nothing resumes it.
SubmissionDies(q) ==
    /\ submission[q].pc \notin {"idle", "done"}
    /\ Fault("crash")
    /\ submission' = [submission EXCEPT ![q].pc = "dead"]
    /\ UNCHANGED <<task, report, regen, acquireVars, skillVars>>

VerifyStep(k) == VerifySkill(k) /\ UNCHANGED <<taskVars, acquireVars>>

SubmitStep(q) == Grade(q) \/ RecordTaskGrade(q) \/ LearnItems(q) \/ BeginXP(q) \/ LearnSkills(q)

-----------------------------------------------------------------------------
Counted == {r \in Reports : report[r].outcome \in CountedOutcomes}

\* reportTask reads the task before its transaction.
ReportTask(r) ==
    /\ report[r].pc = "idle"
    /\ report' = [report EXCEPT ![r].pc = "create", ![r].graded = task[ReportOf[r]].graded]
    /\ UNCHANGED <<task, submission, regen, faults, faultKind, acquireVars, skillVars>>

X_CapInclusive(r) ==
    IF report[r].graded THEN "answered"
    ELSE IF Cardinality(Counted) > RegenerationCap THEN "cap_reached"
    ELSE "queued"

\* Under the session's row lock: count, decide, create.
ReportOutcome(r) ==
    IF report[r].graded THEN "answered"
    ELSE IF Cardinality(Counted) >= RegenerationCap THEN "cap_reached"
    ELSE "queued"

CreateReport(r) ==
    /\ report[r].pc = "create"
    /\ report' = [report EXCEPT ![r].outcome = ReportOutcome(r),
                                ![r].pc = IF ReportOutcome(r) = "queued" THEN "enqueue" ELSE "done"]
    /\ UNCHANGED <<task, submission, regen, faults, faultKind, acquireVars, skillVars>>

QueuedRegen == [status |-> "queued", pc |-> "idle", attempt |-> 0]

EnqueueRegeneration(r) ==
    /\ report[r].pc = "enqueue"
    /\ regen' = [regen EXCEPT ![r] = QueuedRegen]
    /\ report' = [report EXCEPT ![r].pc = "done"]
    /\ UNCHANGED <<task, submission, faults, faultKind, acquireVars, skillVars>>

\* The insertion fails; "ambiguous": its error is a timeout after the job was inserted.
EnqueueRegenerationFails(r) ==
    /\ report[r].pc = "enqueue"
    /\ \/ Fault("enqueue") /\ UNCHANGED regen
       \/ Fault("ambiguous") /\ regen' = [regen EXCEPT ![r] = QueuedRegen]
    /\ report' = [report EXCEPT ![r].pc = "unavailable"]
    /\ UNCHANGED <<task, submission, acquireVars, skillVars>>

RecordUnavailable(r) ==
    /\ report[r].pc = "unavailable"
    /\ report' = [report EXCEPT ![r].pc = "done", ![r].outcome = "unavailable"]
    /\ UNCHANGED <<task, submission, regen, faults, faultKind, acquireVars, skillVars>>

ReportDies(r) ==
    /\ report[r].pc \in {"create", "enqueue", "unavailable"}
    /\ Fault("crash")
    /\ report' = [report EXCEPT ![r].pc = "done"]
    /\ UNCHANGED <<task, submission, regen, acquireVars, skillVars>>

ReportStep(r) == CreateReport(r) \/ EnqueueRegeneration(r) \/ RecordUnavailable(r)

-----------------------------------------------------------------------------
FinalAttempt(r) == regen[r].attempt >= MaxRegenAttempts

\* The job after an error or a crash.
Retried(r) == IF FinalAttempt(r) THEN [NoRegen EXCEPT !.status = "discarded"]
              ELSE [regen[r] EXCEPT !.status = "queued", !.pc = "idle"]

\* The attempt reads report and task.
RegenLoad(r) ==
    /\ regen[r].status = "queued"
    /\ regen' = [regen EXCEPT ![r] = [status |-> "running", attempt |-> @.attempt + 1,
                    pc |-> IF task[ReportOf[r]].graded THEN "answered" ELSE "regenerating"]]
    /\ UNCHANGED <<task, submission, report, faults, faultKind, acquireVars, skillVars>>

\* An outcome is written without a look at the one it replaces.
RegenWritesOutcome(r) ==
    /\ regen[r].pc \in {"answered", "regenerating", "regenerated"}
    /\ report' = [report EXCEPT ![r].outcome = regen[r].pc]
    /\ regen' = [regen EXCEPT ![r].pc = IF @ = "regenerating" THEN "generate" ELSE "finish"]
    /\ UNCHANGED <<task, submission, faults, faultKind, acquireVars, skillVars>>

RegenGenerate(r) ==
    /\ regen[r].pc = "generate"
    /\ regen' = [regen EXCEPT ![r].pc = "replace"]
    /\ UNCHANGED <<task, submission, report, faults, faultKind, acquireVars, skillVars>>

X_ReplaceAnyway(r) ==
    LET t == ReportOf[r] IN
    /\ regen[r].pc = "replace"
    /\ task' = [task EXCEPT ![t].content = @ + 1, ![t].attempts = 1, ![t].graded = FALSE]
    /\ regen' = [regen EXCEPT ![r].pc = "regenerated"]
    /\ UNCHANGED <<submission, report, faults, faultKind, acquireVars, skillVars>>

\* One transaction, only while the task has no grade.
ReplaceTaskContent(r) ==
    LET t == ReportOf[r] IN
    /\ regen[r].pc = "replace"
    /\ ~task[t].graded
    /\ task' = [task EXCEPT ![t].content = @ + 1, ![t].attempts = 1]
    /\ regen' = [regen EXCEPT ![r].pc = "regenerated"]
    /\ UNCHANGED <<submission, report, faults, faultKind, acquireVars, skillVars>>

X_FailEveryAttempt(r) ==
    /\ report' = [report EXCEPT ![r].outcome = "failed"]
    /\ regen' = [regen EXCEPT ![r] = Retried(r)]
    /\ UNCHANGED <<task, submission, acquireVars, skillVars>>

X_FailSilently(r) ==
    /\ regen' = [regen EXCEPT ![r] = Retried(r)]
    /\ UNCHANGED <<task, submission, report, acquireVars, skillVars>>

\* failTaskRegeneration: only the last attempt says so in the report.
FailTaskRegeneration(r) ==
    /\ report' = IF FinalAttempt(r) THEN [report EXCEPT ![r].outcome = "failed"] ELSE report
    /\ regen' = [regen EXCEPT ![r] = Retried(r)]
    /\ UNCHANGED <<task, submission, acquireVars, skillVars>>

RegenFails(r) ==
    \/ regen[r].pc = "generate" /\ Fault("generation") /\ FailTaskRegeneration(r)
    \/ regen[r].pc = "replace" /\ task[ReportOf[r]].graded /\ UNCHANGED <<faults, faultKind>> /\ FailTaskRegeneration(r)

RegenFinish(r) ==
    /\ regen[r].pc = "finish"
    /\ regen' = [regen EXCEPT ![r] = [NoRegen EXCEPT !.status = "completed"]]
    /\ UNCHANGED <<task, submission, report, faults, faultKind, acquireVars, skillVars>>

\* The worker dies, or an outcome cannot be written and the error is returned.
RegenDies(r) ==
    /\ regen[r].status = "running"
    /\ Fault("crash")
    /\ regen' = [regen EXCEPT ![r] = Retried(r)]
    /\ UNCHANGED <<task, submission, report, acquireVars, skillVars>>

RegenStep(r) ==
    \/ RegenLoad(r) \/ RegenWritesOutcome(r) \/ RegenGenerate(r) \/ ReplaceTaskContent(r)
    \/ RegenFails(r) \/ RegenFinish(r)

-----------------------------------------------------------------------------
TaskNext ==
    \/ \E q \in Signals : \/ SubmitStep(q) \/ SubmissionDies(q)
                          \/ \E t \in Tasks : Submit(q, t)
    \/ \E k \in Skills : VerifyStep(k)
    \/ \E r \in Reports : \/ ReportTask(r) \/ ReportStep(r) \/ EnqueueRegenerationFails(r) \/ ReportDies(r)
                          \/ RegenStep(r) \/ RegenDies(r)

\* Whatever else happens to the rows of the learner's knowledge and skills.
TaskSpec == TaskInit /\ [][TaskNext]_taskVars

-----------------------------------------------------------------------------
\* Reports of a session filed at once, retried, failed and redelivered never hold more
\* regenerations than the cap allows (task_reports.go:58 counts and creates under a lock).
\* Not when an insertion that was reported as failed took place: its job counts late.
CapRespected == faultKind # "ambiguous" => Cardinality(Counted) <= RegenerationCap

\* A learner who was told that a regeneration failed is never told otherwise, through
\* crashes and redeliveries (pipeline.go:738); without a crash every final outcome is final.
TerminalReportIsFinal ==
    [][\A r \in Reports :
        (\/ report[r].outcome = "failed" /\ faultKind # "ambiguous"
         \/ report[r].outcome \in TerminalOutcomes /\ faults' = 0)
        => report'[r].outcome = report[r].outcome]_<<taskVars, acquireVars, skillVars>>

\* A task keeps its content from its first grade on, however late a regeneration arrives.
GradedContentKept ==
    [][\A t \in Tasks : task[t].graded => task'[t].content = task[t].content
                                          /\ task'[t].graded]_<<taskVars, acquireVars, skillVars>>

\* A report that waits for its regeneration gets a final outcome, however often the model
\* fails, unless a process dies: the handler between commit and insertion, or the worker
\* of the last attempt.
ReportsResolve ==
    \A r \in Reports : (report[r].outcome \in {"queued", "regenerating"} /\ faultKind # "crash")
                        ~> report[r].outcome \in TerminalOutcomes

\* Answers are credited no more often than they were graded, and attempts are no more
\* than grades.
CreditsAreGrades ==
    LET graded == {q \in Signals : submission[q].pc \in {"signal", "xp", "done", "dead"}} IN
    /\ \A i \in Items : uk[i].total <= Cardinality({q \in graded : i \in TargetsOf[submission[q].task]})
    /\ \A t \in Tasks : task[t].attempts <= AtLeast(Cardinality({q \in graded : submission[q].task = t}), 1)

\* Alone and undisturbed, every graded answer that improves on the last leaves its mark.
\* (Two submissions at once may overwrite each other's row.)  A tier that is rejected takes
\* points back, but all of them only where a tier is worth a single one.
AloneIsCredited ==
    \A q \in Signals :
        (/\ submission[q].pc = "done" /\ submission[q].correct /\ faults = 0
         /\ \A p \in Signals \ {q} : submission[p].pc = "idle")
        => \A i \in submission[q].shown :
              /\ uk[i].correct >= 1
              /\ \A k \in SkillsOf[i] : xp[k].xp > 0 \/ (verifier = "llm" /\ XPPerTier = 1)
=============================================================================
