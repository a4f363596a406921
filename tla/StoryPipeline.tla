---------------------------- MODULE StoryPipeline ----------------------------
(***************************************************************************)
(* The staged, checkpointed generation of one session's content and tasks  *)
(* (internal/story/pipeline.go): Pipeline.Generate, Pipeline.Retry and the *)
(* stages they run.  A step is one database operation, together with the   *)
(* LLM calls before it: between two steps other sessions' runs, the        *)
(* learner, a crash or the run's deadline may come.                        *)
(*                                                                         *)
(* Outcomes of an LLM call are free: it may fail, answer out of scope,     *)
(* miss the coverage target on every attempt or give invalid tasks.        *)
(***************************************************************************)
EXTENDS SessionStore

CONSTANT Faults     \* what may go wrong besides the LLM: a subset of FaultKinds

FaultKinds == {"database", "timeout", "crash"}

ASSUME FaultsAssumption == Faults \subseteq FaultKinds

VARIABLE run        \* the goroutine that generates a session

(***************************************************************************)
(* A run: where it is, whether it resumes task stages one by one (Retry)   *)
(* or runs them all at once (Generate), the session row it read, the text  *)
(* its tasks are made from, how far each task type is, whether its context *)
(* is past its deadline, and whether it returns an error.                  *)
(***************************************************************************)
QueueLabels == {"idle", "gate", "check", "claim", "end", "return"}
PipelineLabels ==
    {"generate", "begin", "scope", "scopeCall", "select", "content",
     "contentCall", "contentSaved", "tokenize", "saveTokens", "tokenized",
     "tasks", "retry", "resume", "rebuild", "restart", "markFailed"}

WorkStates == {"skip", "todo", "call", "rows", "ok", "err"}

Run == [pc: QueueLabels \cup PipelineLabels,
        resumed: BOOLEAN,
        seen: Row,
        source: Revisions,
        work: [TaskTypes -> WorkStates],
        expired: BOOLEAN,
        err: BOOLEAN]

IdleRun == [pc |-> "idle", resumed |-> FALSE, seen |-> EmptyRow, source |-> 0,
            work |-> [t \in TaskTypes |-> "skip"],
            expired |-> FALSE, err |-> FALSE]

PipelineTypeOK == run \in [Sessions -> Run]

PipelineInit == run = [s \in Sessions |-> IdleRun]

At(s, label) == run[s].pc = label
Goto(s, label) == run' = [run EXCEPT ![s].pc = label]

\* A statement of the run succeeds only inside its deadline and on a session
\* that still exists (UPDATE ... requireRow, foreign keys on sessions); the
\* database may also refuse it for reasons of its own.
\* (Mutant: the rows of a deleted session are written all the same.)
DbWorks_AnyRow(s) == ~run[s].expired
DbWorks(s) == ~run[s].expired /\ Exists(s)
DbFails(s) == run[s].expired \/ ~Exists(s) \/ "database" \in Faults

Abort(s) == /\ run' = [run EXCEPT ![s].pc = "end", ![s].err = TRUE]
            /\ UNCHANGED store
FailRun(s) == run' = [run EXCEPT ![s].pc = "markFailed", ![s].err = TRUE]

\* The error of a stage write is dropped (_ = UpsertStage).
WriteStage(s, g, status) ==
    \/ DbWorks(s) /\ UpsertStage(s, g, status)
    \/ DbFails(s) /\ UNCHANGED store

(***************************************************************************)
(* Generate                                                                *)
(***************************************************************************)
Generate(s) ==
    /\ At(s, "generate")
    /\ \/ DbWorks(s) /\ Goto(s, IF IsUserAdded(s) THEN "retry" ELSE "begin")
                     /\ UNCHANGED store
       \/ DbFails(s) /\ Abort(s)

\* The only change of status that does not end a run.
BeginGenerating(s) ==
    /\ At(s, "begin")
    /\ \/ /\ DbWorks(s)
          /\ UpdateSessionStatus(s, "generating")
          /\ Goto(s, IF Kind[s] = "topic_guided" THEN "scope" ELSE "select")
       \/ DbFails(s) /\ Abort(s)

\* beginStage of the scope check, of the content and of the tokenization.
BeginStageOf(s, from, g, to) ==
    /\ At(s, from)
    /\ WriteStage(s, g, "in_progress")
    /\ Goto(s, to)

BeginStage(s) ==
    \/ BeginStageOf(s, "scope", "scope_check", "scopeCall")
    \/ BeginStageOf(s, "content", "content", "contentCall")
    \/ BeginStageOf(s, "tokenize", "tokenization", "saveTokens")

\* failStage: the call failed or its result was rejected or could not be saved.
FailStageOf(s, from, g) ==
    /\ At(s, from)
    /\ WriteStage(s, g, "failed")
    /\ FailRun(s)

FailStage(s) ==
    \/ FailStageOf(s, "scopeCall", "scope_check")
    \/ FailStageOf(s, "contentCall", "content")
    \/ FailStageOf(s, "saveTokens", "tokenization") /\ DbFails(s)

CompleteScopeCheck(s) ==
    /\ At(s, "scopeCall")
    /\ ~run[s].expired
    /\ WriteStage(s, "scope_check", "complete")
    /\ Goto(s, "select")

\* Topic and selection: neither is a checkpoint, both run on every Generate.
Select(s) ==
    /\ At(s, "select")
    /\ UNCHANGED store
    /\ \/ DbWorks(s) /\ Goto(s, "content")
       \/ DbFails(s) /\ FailRun(s)

StoreContent(s) ==
    /\ At(s, "contentCall")
    /\ DbWorks(s)
    /\ SaveContent(s)
    /\ run' = [run EXCEPT ![s].pc = "contentSaved",
                          ![s].source = session[s].content + 1]

AllTasks == [t \in TaskTypes |-> "todo"]

CompleteContent(s) ==
    /\ At(s, "contentSaved")
    /\ WriteStage(s, "content", "complete")
    /\ IF HasStory(s)
       THEN Goto(s, "tokenize")
       ELSE run' = [run EXCEPT ![s].pc = "tasks", ![s].work = AllTasks]

SaveTokens(s) ==
    /\ At(s, "saveTokens")
    /\ DbWorks(s)
    /\ ReplaceStoryTokens(s)
    /\ Goto(s, "tokenized")

CompleteTokenization(s) ==
    /\ At(s, "tokenized")
    /\ WriteStage(s, "tokenization", "complete")
    /\ run' = [run EXCEPT ![s].pc = "tasks", ![s].work = AllTasks]

(***************************************************************************)
(* Task types: concurrent goroutines in Generate, one after the other in   *)
(* Retry.  The rows of a type are created one by one, so a failure in the  *)
(* middle leaves some of them behind.                                      *)
(***************************************************************************)
SetWork(s, t, w) == run' = [run EXCEPT ![s].work[t] = w]

BeginTaskType(s, t) ==
    /\ At(s, "tasks")
    /\ run[s].work[t] = "todo"
    /\ run[s].resumed => \A u \in TaskTypes : run[s].work[u] \notin {"call", "rows"}
    /\ WriteStage(s, t, "in_progress")
    /\ SetWork(s, t, "call")

CreateTaskRows(s, t) ==
    /\ At(s, "tasks")
    /\ run[s].work[t] = "call"
    /\ DbWorks(s)
    /\ CreateTask(s, t, run[s].source)
    /\ SetWork(s, t, "rows")

FailTaskType(s, t) ==
    /\ At(s, "tasks")
    /\ \/ run[s].work[t] = "call"
       \/ run[s].work[t] = "rows" /\ DbFails(s)
    /\ WriteStage(s, t, "failed")
    /\ SetWork(s, t, "err")

CompleteTaskType(s, t) ==
    /\ At(s, "tasks")
    /\ run[s].work[t] = "rows"
    /\ WriteStage(s, t, "complete")
    /\ SetWork(s, t, "ok")

ReadableUserStoryStatus(row) ==
    IF row.completed THEN "complete" ELSE IF row.reading THEN "reading" ELSE "ready"

\* Generate counts the goroutines that succeeded, Retry the stages it lists
\* (none when the listing fails).
CompletedTasks(s) ==
    IF run[s].resumed THEN {t \in TaskTypes : stage[s][t] = "complete"}
                      ELSE {t \in TaskTypes : run[s].work[t] = "ok"}

\* Mutant: a batch without a task is good enough.
FinalStatus_AlwaysReady(s, completed) ==
    IF IsUserAdded(s) THEN ReadableUserStoryStatus(run[s].seen) ELSE "ready"

FinalStatus(s, completed) ==
    IF IsUserAdded(s) THEN ReadableUserStoryStatus(run[s].seen)
    ELSE IF completed # {} THEN "ready" ELSE "failed"

FinishTasks(s) ==
    /\ At(s, "tasks")
    /\ \A t \in TaskTypes : run[s].work[t] \in {"skip", "ok", "err"}
    /\ \/ /\ DbWorks(s)
          /\ \E completed \in {CompletedTasks(s)} \cup
                              (IF run[s].resumed /\ DbFails(s) THEN {{}} ELSE {}) :
                UpdateSessionStatus(s, FinalStatus(s, completed))
          /\ Goto(s, "end")
       \/ DbFails(s) /\ Abort(s)

(***************************************************************************)
(* Retry                                                                   *)
(***************************************************************************)
ContentDone(s) ==
    /\ session[s].content # 0
    /\ stage[s]["content"] = "complete"
    /\ HasStory(s) => stage[s]["tokenization"] = "complete"

Retry(s) ==
    /\ At(s, "retry")
    /\ \/ /\ DbWorks(s)
          /\ run' = [run EXCEPT ![s].pc = "resume", ![s].seen = session[s]]
          /\ UNCHANGED store
       \/ DbFails(s) /\ Abort(s)

\* A read that fails counts as content that is not done.  The excerpt comes
\* from the row read before, the text from the story as it is now.
Resume(s) ==
    /\ At(s, "resume")
    /\ UNCHANGED store
    /\ \/ /\ DbWorks(s)
          /\ ContentDone(s)
          /\ run' = [run EXCEPT
                ![s].pc = "rebuild",
                ![s].source = IF run[s].seen.excerpt # 0 THEN run[s].seen.excerpt
                                                         ELSE session[s].content,
                ![s].work = [t \in TaskTypes |->
                    IF stage[s][t] = "complete" THEN "skip" ELSE "todo"]]
       \/ /\ ~ContentDone(s) \/ DbFails(s)
          /\ IF IsUserAdded(s) THEN FailRun(s) ELSE Goto(s, "generate")

\* Mutant: a resumed run goes through tokenization again.
RebuildTaskContext_Retokenizes(s) ==
    /\ At(s, "rebuild")
    /\ UNCHANGED store
    /\ \/ DbWorks(s) /\ Goto(s, "tokenize")
       \/ DbFails(s) /\ FailRun(s)

RebuildTaskContext(s) ==
    /\ At(s, "rebuild")
    /\ UNCHANGED store
    /\ \/ DbWorks(s) /\ Goto(s, "restart")
       \/ DbFails(s) /\ FailRun(s)

RestartTasks(s) ==
    /\ At(s, "restart")
    /\ \/ /\ DbWorks(s)
          /\ UpdateSessionStatus(s, "generating")
          /\ run' = [run EXCEPT ![s].pc = "tasks", ![s].resumed = TRUE]
       \/ DbFails(s) /\ Abort(s)

\* Mutant: the session is not marked.
MarkFailed_Skipped(s) == At(s, "markFailed") /\ Goto(s, "end") /\ UNCHANGED store

\* The error of this write is dropped: the run ends with the stage's error.
MarkFailed(s) ==
    /\ At(s, "markFailed")
    /\ \/ DbWorks(s) /\ UpdateSessionStatus(s, "failed")
       \/ DbFails(s) /\ UNCHANGED store
    /\ Goto(s, "end")

PipelineStep(s) ==
    \/ Generate(s) \/ BeginGenerating(s) \/ BeginStage(s) \/ FailStage(s)
    \/ CompleteScopeCheck(s) \/ Select(s) \/ StoreContent(s) \/ CompleteContent(s)
    \/ SaveTokens(s) \/ CompleteTokenization(s)
    \/ Retry(s) \/ Resume(s) \/ RebuildTaskContext(s) \/ RestartTasks(s)
    \/ FinishTasks(s) \/ MarkFailed(s)
    \/ \E t \in TaskTypes : \/ BeginTaskType(s, t) \/ CreateTaskRows(s, t)
                            \/ FailTaskType(s, t) \/ CompleteTaskType(s, t)
=============================================================================
