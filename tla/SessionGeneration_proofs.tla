---------------------- MODULE SessionGeneration_proofs ----------------------
(***************************************************************************)
(* What is proved about SessionGeneration, for any sessions, kinds, task   *)
(* types, faults and bounds.  Everything rests on one inductive invariant, *)
(* IInv.  The order of the module: every repository operation keeps the    *)
(* store well typed; each step of the pipeline has a bounded effect on the *)
(* store and on its own run (PipelineStepEffect); every action of the      *)
(* queue and of a handler keeps its part of IInv; and then the theorems.   *)
(***************************************************************************)
EXTENDS SessionGeneration, TLAPS

(***************************************************************************)
(* Each operation of the repository leaves rows that are well typed.       *)
(***************************************************************************)
\* UpdateSessionStatus.
LEMMA StatusWriteType ==
    ASSUME StoreTypeOK, NEW s \in Sessions, NEW status \in Statuses,
           UpdateSessionStatus(s, status)
    PROVE  StoreTypeOK'
  BY DEF StoreTypeOK, UpdateSessionStatus, Row

\* A stage write, whether or not the database takes it.
LEMMA StageWriteType ==
    ASSUME StoreTypeOK, NEW s \in Sessions, NEW g \in Stages, NEW status \in StageStatuses,
           WriteStage(s, g, status)
    PROVE  StoreTypeOK'
<1>1. CASE UNCHANGED store
  BY <1>1 DEF StoreTypeOK, store
<1>2. CASE UpsertStage(s, g, status)
  <2>1. [stage[s] EXCEPT ![g] = status] \in [Stages -> StageStatuses]
    BY DEF StoreTypeOK
  <2>2. stage' = [stage EXCEPT ![s] = [stage[s] EXCEPT ![g] = status]]
    BY <1>2 DEF UpsertStage, StoreTypeOK
  <2>. QED  BY <1>2, <2>1, <2>2 DEF StoreTypeOK, UpsertStage
<1>. QED  BY <1>1, <1>2 DEF WriteStage

\* CreateStory and the session's link to it: the next revision is in range.
LEMMA ContentWriteType ==
    ASSUME StoreTypeOK, NEW s \in Sessions, SaveContent(s)
    PROVE  StoreTypeOK' /\ session[s].content + 1 \in Revisions
  BY RevisionAssumption DEF StoreTypeOK, SaveContent, Row, Revisions

\* ReplaceStoryTokens.
LEMMA TokenWriteType ==
    ASSUME StoreTypeOK, NEW s \in Sessions, ReplaceStoryTokens(s)
    PROVE  StoreTypeOK'
  BY DEF StoreTypeOK, ReplaceStoryTokens, Row

\* CreateTask.
LEMMA TaskWriteType ==
    ASSUME StoreTypeOK, NEW s \in Sessions, NEW t \in TaskTypes, NEW source \in Revisions,
           CreateTask(s, t, source)
    PROVE  StoreTypeOK'
  BY DEF StoreTypeOK, CreateTask

\* A session that is ordered, and one that is imported.
LEMMA CreationType ==
    ASSUME StoreTypeOK, NEW s \in Sessions, CreateSession(s) \/ ImportText(s)
    PROVE  StoreTypeOK'
<1>1. CASE CreateSession(s)
  BY <1>1 DEF StoreTypeOK, CreateSession, Row, Statuses
<1>2. CASE ImportText(s)
  <2>1. 1 \in Revisions
    BY RevisionAssumption DEF Revisions
  <2>2. session' \in [Sessions -> Row]
    <3>. DEFINE row == [session[s] EXCEPT !.status = "ready", !.content = 1]
    <3>1. session' = [session EXCEPT ![s] = row]
      BY <1>2 DEF ImportText, StoreTypeOK
    <3>2. row \in Row
      BY <2>1 DEF StoreTypeOK, Row, Statuses
    <3>. QED  BY <3>1, <3>2 DEF StoreTypeOK
  <2>3. stage' \in [Sessions -> [Stages -> StageStatuses]]
    <3>1. stage' = [stage EXCEPT ![s] = [stage[s] EXCEPT !["content"] = "complete",
                                                         !["tokenization"] = "complete"]]
      BY <1>2 DEF ImportText, StoreTypeOK
    <3>. QED  BY <3>1 DEF StoreTypeOK, StageStatuses
  <2>. QED  BY <1>2, <2>1, <2>2, <2>3 DEF StoreTypeOK, ImportText
<1>. QED  BY <1>1, <1>2

\* Reading, completing, archiving and deleting.
LEMMA LearnerType ==
    ASSUME StoreTypeOK, NEW s \in Sessions,
           \/ MarkSessionReading(s) \/ MarkSessionComplete(s)
           \/ SetSessionArchived(s, ~session[s].archived) \/ DeleteSession(s)
    PROVE  StoreTypeOK'
<1>1. CASE MarkSessionReading(s)
  BY ZenonT(30), <1>1 DEF StoreTypeOK, MarkSessionReading, Row, Statuses
<1>2. CASE MarkSessionComplete(s)
  BY ZenonT(30), <1>2 DEF StoreTypeOK, MarkSessionComplete, Row, Statuses
<1>3. CASE SetSessionArchived(s, ~session[s].archived)
  BY <1>3 DEF StoreTypeOK, SetSessionArchived, Row
<1>4. CASE DeleteSession(s)
  <2>1. 0 \in Revisions
    BY RevisionAssumption DEF Revisions
  <2>2. [EmptyRow EXCEPT !.status = "deleted"] \in Row
    BY <2>1 DEF EmptyRow, Row, Statuses
  <2>3. NoStages \in [Stages -> StageStatuses]
    BY DEF NoStages, StageStatuses
  <2>. QED  BY <1>4, <2>1, <2>2, <2>3 DEF StoreTypeOK, DeleteSession
<1>. QED  BY <1>1, <1>2, <1>3, <1>4

\* The two transactions on the text of a user-added session.
LEMMA UserStoryType ==
    ASSUME StoreTypeOK, NEW s \in Sessions,
           \/ ReplaceUserStory(s)
           \/ \E excerpt \in Revisions : SetUserStoryTaskSource(s, excerpt)
    PROVE  StoreTypeOK'
<1>1. WithoutTaskStages(s) \in [Stages -> StageStatuses]
  BY DEF StoreTypeOK, WithoutTaskStages, StageStatuses
<1>2. CASE ReplaceUserStory(s)
  <2>1. 0 \in Revisions /\ session[s].content + 1 \in Revisions
    BY <1>2, RevisionAssumption DEF StoreTypeOK, ReplaceUserStory, Row, Revisions
  <2>2. session' \in [Sessions -> Row]
    <3>. DEFINE row == [session[s] EXCEPT !.status = "ready", !.content = session[s].content + 1,
                                          !.excerpt = 0, !.reading = FALSE, !.completed = FALSE]
    <3>1. session' = [session EXCEPT ![s] = row]
      BY <1>2 DEF ReplaceUserStory, StoreTypeOK
    <3>2. row \in Row
      BY <2>1 DEF StoreTypeOK, Row, Statuses
    <3>. QED  BY <3>1, <3>2 DEF StoreTypeOK
  <2>. QED  BY <1>1, <1>2, <2>1, <2>2 DEF StoreTypeOK, ReplaceUserStory
<1>3. ASSUME NEW excerpt \in Revisions, SetUserStoryTaskSource(s, excerpt)
      PROVE  StoreTypeOK'
  <2>1. session' \in [Sessions -> Row]
    <3>. DEFINE row == [session[s] EXCEPT !.status = "generating", !.excerpt = excerpt]
    <3>1. session' = [session EXCEPT ![s] = row]
      BY <1>3 DEF SetUserStoryTaskSource, StoreTypeOK
    <3>2. row \in Row
      BY DEF StoreTypeOK, Row, Statuses
    <3>. QED  BY <3>1, <3>2 DEF StoreTypeOK
  <2>. QED  BY <1>1, <1>3, <2>1 DEF StoreTypeOK, SetUserStoryTaskSource
<1>. QED  BY <1>2, <1>3

(***************************************************************************)
(* What a step of the pipeline can do.  A run is in its content stages     *)
(* (ContentLabels) or past them; only the first may write the story, the   *)
(* tokens or a content checkpoint, a run of a user-added session never     *)
(* comes back to them, and whatever is written the session still exists.   *)
(***************************************************************************)
\* The labels of a run that has not finished its content stages.
ContentLabels ==
    {"begin", "scope", "scopeCall", "select", "content", "contentCall",
     "contentSaved", "tokenize", "saveTokens", "tokenized"}

\* The run of s goes on at label; the other runs stay where they are.
Moves(s, label) ==
    \E r \in Run : run' = [run EXCEPT ![s] = r] /\ r.pc = label

\* The writes of one step, all of them to a session that exists.
PipelineWrite(s) ==
    \/ UNCHANGED store
    \/ /\ Exists(s)
       /\ \/ \E status \in Statuses \ {"none", "deleted"} : UpdateSessionStatus(s, status)
          \/ \E t \in TaskTypes, status \in StageStatuses : UpsertStage(s, t, status)
          \/ \E t \in TaskTypes, source \in Revisions : CreateTask(s, t, source)
          \/ /\ run[s].pc \in ContentLabels
             /\ \/ \E g \in Stages, status \in StageStatuses : UpsertStage(s, g, status)
                \/ SaveContent(s)
                \/ ReplaceStoryTokens(s)

\* Where a step leads.
PipelineMove(s) ==
    \E label \in PipelineLabels \cup {"end"} :
        /\ Moves(s, label)
        /\ IsUserAdded(s) /\ run[s].pc \notin ContentLabels => label \notin ContentLabels

\* The effect of one step on the store and on the run.
PipelineEffect(s) ==
    /\ run[s].pc \in PipelineLabels
    /\ PipelineWrite(s)
    /\ PipelineMove(s)

\* Goto is a move.
LEMMA GotoMoves ==
    ASSUME PipelineTypeOK, NEW s \in Sessions, NEW label \in QueueLabels \cup PipelineLabels,
           Goto(s, label)
    PROVE  Moves(s, label)
<1>. DEFINE r == [run[s] EXCEPT !.pc = label]
<1>1. run' = [run EXCEPT ![s] = r] /\ r \in Run /\ r.pc = label
  BY DEF PipelineTypeOK, Run, Goto
<1>. QED  BY <1>1 DEF Moves

\* So is a failure that is recorded next,
LEMMA FailRunMoves ==
    ASSUME PipelineTypeOK, NEW s \in Sessions, FailRun(s)
    PROVE  Moves(s, "markFailed")
<1>. DEFINE r == [run[s] EXCEPT !.pc = "markFailed", !.err = TRUE]
<1>1. run' = [run EXCEPT ![s] = r] /\ r \in Run /\ r.pc = "markFailed"
  BY DEF PipelineTypeOK, Run, FailRun, PipelineLabels
<1>. QED  BY <1>1 DEF Moves

\* an error that is returned at once,
LEMMA AbortMoves ==
    ASSUME PipelineTypeOK, NEW s \in Sessions, Abort(s)
    PROVE  Moves(s, "end") /\ UNCHANGED store
<1>. DEFINE r == [run[s] EXCEPT !.pc = "end", !.err = TRUE]
<1>1. run' = [run EXCEPT ![s] = r] /\ r \in Run /\ r.pc = "end"
  BY DEF PipelineTypeOK, Run, Abort, QueueLabels
<1>. QED  BY <1>1 DEF Moves, Abort

\* and progress of one task type.
LEMMA SetWorkMoves ==
    ASSUME PipelineTypeOK, NEW s \in Sessions, NEW t \in TaskTypes, NEW w \in WorkStates,
           At(s, "tasks"), SetWork(s, t, w)
    PROVE  Moves(s, "tasks")
<1>. DEFINE r == [run[s] EXCEPT !.work = [run[s].work EXCEPT ![t] = w]]
<1>1. run' = [run EXCEPT ![s] = r]
  BY DEF PipelineTypeOK, Run, SetWork
<1>2. [run[s].work EXCEPT ![t] = w] \in [TaskTypes -> WorkStates]
  BY DEF PipelineTypeOK, Run
<1>3. r \in Run /\ r.pc = "tasks"
  BY <1>2 DEF PipelineTypeOK, Run, At
<1>. QED  BY <1>1, <1>3 DEF Moves

\* A stage write of a task type, or of a content stage while the run is in them.
LEMMA StageWrite ==
    ASSUME NEW s \in Sessions, NEW g \in Stages, NEW status \in StageStatuses,
           g \in TaskTypes \/ run[s].pc \in ContentLabels, WriteStage(s, g, status)
    PROVE  PipelineWrite(s)
<1>1. CASE g \in TaskTypes
  BY <1>1 DEF WriteStage, DbWorks, PipelineWrite
<1>2. CASE run[s].pc \in ContentLabels
  BY <1>2 DEF WriteStage, DbWorks, PipelineWrite
<1>. QED  BY <1>1, <1>2

\* A write of the session's status.
LEMMA StatusWrite ==
    ASSUME NEW s \in Sessions, NEW status \in Statuses \ {"none", "deleted"},
           Exists(s), UpdateSessionStatus(s, status)
    PROVE  PipelineWrite(s)
  BY DEF PipelineWrite

\* One case per action of StoryPipeline.
LEMMA PipelineStepEffect ==
    ASSUME StoreTypeOK, PipelineTypeOK, NEW s \in Sessions, PipelineStep(s)
    PROVE  PipelineEffect(s)
<1>. USE DEF At, PipelineMove, PipelineLabels, QueueLabels, ContentLabels
<1>1. CASE Generate(s)
  <2>1. CASE DbWorks(s) /\ Goto(s, IF IsUserAdded(s) THEN "retry" ELSE "begin") /\ UNCHANGED store
    BY <1>1, <2>1, GotoMoves DEF Generate, PipelineEffect, PipelineWrite
  <2>2. CASE Abort(s)
    BY <1>1, <2>2, AbortMoves DEF Generate, PipelineEffect, PipelineWrite
  <2>. QED  BY <1>1, <2>1, <2>2 DEF Generate
<1>2. CASE BeginGenerating(s)
  <2>1. CASE Abort(s)
    BY <1>2, <2>1, AbortMoves DEF BeginGenerating, PipelineEffect, PipelineWrite
  <2>2. CASE /\ DbWorks(s)
             /\ UpdateSessionStatus(s, "generating")
             /\ Goto(s, IF Kind[s] = "topic_guided" THEN "scope" ELSE "select")
    <3>1. PipelineWrite(s)
      BY <2>2, StatusWrite DEF DbWorks, Statuses
    <3>. QED  BY <1>2, <2>2, <3>1, GotoMoves DEF BeginGenerating, PipelineEffect
  <2>. QED  BY <1>2, <2>1, <2>2 DEF BeginGenerating
<1>3. ASSUME NEW from \in ContentLabels, NEW to \in ContentLabels, NEW g \in Stages,
             BeginStageOf(s, from, g, to)
      PROVE  PipelineEffect(s)
  <2>1. PipelineWrite(s)
    BY <1>3, StageWrite DEF BeginStageOf, StageStatuses
  <2>. QED  BY <1>3, <2>1, GotoMoves DEF BeginStageOf, PipelineEffect
<1>4. CASE BeginStage(s)
  BY <1>3, <1>4 DEF BeginStage, Stages
<1>5. ASSUME NEW from \in ContentLabels, NEW g \in Stages, FailStageOf(s, from, g)
      PROVE  PipelineEffect(s)
  <2>1. PipelineWrite(s)
    BY <1>5, StageWrite DEF FailStageOf, StageStatuses
  <2>. QED  BY <1>5, <2>1, FailRunMoves DEF FailStageOf, PipelineEffect
<1>6. CASE FailStage(s)
  BY <1>5, <1>6 DEF FailStage, Stages
<1>7. CASE CompleteScopeCheck(s)
  <2>1. PipelineWrite(s)
    BY <1>7, StageWrite DEF CompleteScopeCheck, StageStatuses, Stages
  <2>. QED  BY <1>7, <2>1, GotoMoves DEF CompleteScopeCheck, PipelineEffect
<1>8. CASE Select(s)
  BY <1>8, GotoMoves, FailRunMoves DEF Select, PipelineEffect, PipelineWrite
<1>9. CASE StoreContent(s)
  <2>. DEFINE r == [run[s] EXCEPT !.pc = "contentSaved", !.source = session[s].content + 1]
  <2>1. session[s].content + 1 \in Revisions
    BY <1>9, ContentWriteType DEF StoreContent
  <2>2. run' = [run EXCEPT ![s] = r] /\ r \in Run /\ r.pc = "contentSaved"
    BY <1>9, <2>1 DEF StoreContent, PipelineTypeOK, Run
  <2>. QED  BY <1>9, <2>2 DEF StoreContent, PipelineEffect, PipelineWrite, DbWorks, Moves
<1>10. [run[s] EXCEPT !.pc = "tasks", !.work = AllTasks] \in Run
  BY ZenonT(30) DEF PipelineTypeOK, Run, AllTasks, WorkStates
<1>11. CASE CompleteContent(s)
  <2>1. PipelineWrite(s)
    BY <1>11, StageWrite DEF CompleteContent, StageStatuses, Stages
  <2>2. CASE HasStory(s)
    BY <1>11, <2>1, <2>2, GotoMoves DEF CompleteContent, PipelineEffect
  <2>3. CASE ~HasStory(s)
    <3>1. run' = [run EXCEPT ![s] = [run[s] EXCEPT !.pc = "tasks", !.work = AllTasks]]
      BY <1>11, <2>3 DEF CompleteContent, PipelineTypeOK, Run
    <3>2. Moves(s, "tasks")
      BY <1>10, <3>1 DEF Moves, Run, PipelineTypeOK
    <3>. QED  BY <1>11, <2>1, <3>2 DEF CompleteContent, PipelineEffect
  <2>. QED  BY <2>2, <2>3
<1>12. CASE SaveTokens(s)
  BY <1>12, GotoMoves DEF SaveTokens, PipelineEffect, PipelineWrite, DbWorks
<1>13. CASE CompleteTokenization(s)
  <2>1. PipelineWrite(s)
    BY <1>13, StageWrite DEF CompleteTokenization, StageStatuses, Stages
  <2>2. run' = [run EXCEPT ![s] = [run[s] EXCEPT !.pc = "tasks", !.work = AllTasks]]
    BY <1>13 DEF CompleteTokenization, PipelineTypeOK, Run
  <2>3. Moves(s, "tasks")
    BY <1>10, <2>2 DEF Moves, Run, PipelineTypeOK
  <2>. QED  BY <1>13, <2>1, <2>3 DEF CompleteTokenization, PipelineEffect
<1>14. CASE Retry(s)
  <2>. DEFINE r == [run[s] EXCEPT !.pc = "resume", !.seen = session[s]]
  <2>1. r \in Run /\ r.pc = "resume"
    BY ZenonT(30) DEF PipelineTypeOK, StoreTypeOK, Run
  <2>2. CASE run' = [run EXCEPT ![s].pc = "resume", ![s].seen = session[s]] /\ UNCHANGED store
    <3>1. run' = [run EXCEPT ![s] = r]
      BY <2>2 DEF PipelineTypeOK
    <3>. QED  BY <1>14, <2>1, <2>2, <3>1 DEF Retry, PipelineEffect, PipelineWrite, Moves
  <2>3. CASE Abort(s)
    BY <1>14, <2>3, AbortMoves DEF Retry, PipelineEffect, PipelineWrite
  <2>. QED  BY <1>14, <2>2, <2>3 DEF Retry
<1>15. CASE Resume(s)
  <2>. DEFINE source == IF run[s].seen.excerpt # 0 THEN run[s].seen.excerpt ELSE session[s].content
              work == [t \in TaskTypes |-> IF stage[s][t] = "complete" THEN "skip" ELSE "todo"]
              r == [run[s] EXCEPT !.pc = "rebuild", !.source = source, !.work = work]
  <2>1. source \in Revisions /\ work \in [TaskTypes -> WorkStates]
    BY DEF PipelineTypeOK, StoreTypeOK, Run, Row, WorkStates
  <2>2. r \in Run /\ r.pc = "rebuild"
    <3>. HIDE DEF source, work
    <3>. QED  BY <2>1 DEF PipelineTypeOK, Run
  <2>3. CASE run' = [run EXCEPT ![s].pc = "rebuild", ![s].source = source, ![s].work = work]
    <3>. HIDE DEF source, work
    <3>1. run' = [run EXCEPT ![s] = r]
      BY <2>3 DEF PipelineTypeOK
    <3>2. Moves(s, "rebuild")
      BY <2>2, <3>1 DEF Moves
    <3>. QED  BY <1>15, <3>2 DEF Resume, PipelineEffect, PipelineWrite
  <2>4. CASE IF IsUserAdded(s) THEN FailRun(s) ELSE Goto(s, "generate")
    BY <1>15, <2>4, GotoMoves, FailRunMoves DEF Resume, PipelineEffect, PipelineWrite
  <2>. QED  BY <1>15, <2>3, <2>4 DEF Resume
<1>16. CASE RebuildTaskContext(s)
  BY <1>16, GotoMoves, FailRunMoves DEF RebuildTaskContext, PipelineEffect, PipelineWrite
<1>17. CASE RestartTasks(s)
  <2>. DEFINE r == [run[s] EXCEPT !.pc = "tasks", !.resumed = TRUE]
  <2>1. r \in Run /\ r.pc = "tasks"
    BY ZenonT(30) DEF PipelineTypeOK, Run
  <2>2. CASE /\ DbWorks(s)
             /\ UpdateSessionStatus(s, "generating")
             /\ run' = [run EXCEPT ![s].pc = "tasks", ![s].resumed = TRUE]
    <3>1. run' = [run EXCEPT ![s] = r]
      BY <2>2 DEF PipelineTypeOK
    <3>2. PipelineWrite(s)
      BY <2>2, StatusWrite DEF DbWorks, Statuses
    <3>. QED  BY <1>17, <2>1, <3>1, <3>2 DEF RestartTasks, PipelineEffect, Moves
  <2>3. CASE Abort(s)
    BY <1>17, <2>3, AbortMoves DEF RestartTasks, PipelineEffect, PipelineWrite
  <2>. QED  BY <1>17, <2>2, <2>3 DEF RestartTasks
<1>18. CASE FinishTasks(s)
  <2>1. \A completed : FinalStatus(s, completed) \in Statuses \ {"none", "deleted"}
    BY DEF FinalStatus, ReadableUserStoryStatus, Statuses
  <2>2. CASE /\ DbWorks(s)
             /\ \E completed \in {CompletedTasks(s)} \cup
                                   (IF run[s].resumed /\ DbFails(s) THEN {{}} ELSE {}) :
                   UpdateSessionStatus(s, FinalStatus(s, completed))
             /\ Goto(s, "end")
    <3>1. PipelineWrite(s)
      BY <2>1, <2>2, StatusWrite DEF DbWorks
    <3>. QED  BY <1>18, <2>2, <3>1, GotoMoves DEF FinishTasks, PipelineEffect
  <2>3. CASE Abort(s)
    BY <1>18, <2>3, AbortMoves DEF FinishTasks, PipelineEffect, PipelineWrite
  <2>. QED  BY <1>18, <2>2, <2>3 DEF FinishTasks
<1>19. CASE MarkFailed(s)
  <2>1. PipelineWrite(s)
    BY <1>19, StatusWrite DEF MarkFailed, DbWorks, PipelineWrite, Statuses
  <2>. QED  BY <1>19, <2>1, GotoMoves DEF MarkFailed, PipelineEffect
<1>20. ASSUME NEW t \in TaskTypes, BeginTaskType(s, t) PROVE PipelineEffect(s)
  <2>1. PipelineWrite(s)
    BY <1>20, StageWrite DEF BeginTaskType, Stages, StageStatuses
  <2>. QED  BY <1>20, <2>1, SetWorkMoves DEF BeginTaskType, PipelineEffect, WorkStates
<1>21. ASSUME NEW t \in TaskTypes, CreateTaskRows(s, t) PROVE PipelineEffect(s)
  <2>1. PipelineWrite(s)
    BY <1>21 DEF CreateTaskRows, DbWorks, PipelineWrite, PipelineTypeOK, Run
  <2>. QED  BY <1>21, <2>1, SetWorkMoves DEF CreateTaskRows, PipelineEffect, WorkStates
<1>22. ASSUME NEW t \in TaskTypes, FailTaskType(s, t) PROVE PipelineEffect(s)
  <2>1. PipelineWrite(s)
    BY <1>22, StageWrite DEF FailTaskType, Stages, StageStatuses
  <2>. QED  BY <1>22, <2>1, SetWorkMoves DEF FailTaskType, PipelineEffect, WorkStates
<1>23. ASSUME NEW t \in TaskTypes, CompleteTaskType(s, t) PROVE PipelineEffect(s)
  <2>1. PipelineWrite(s)
    BY <1>23, StageWrite DEF CompleteTaskType, Stages, StageStatuses
  <2>. QED  BY <1>23, <2>1, SetWorkMoves DEF CompleteTaskType, PipelineEffect, WorkStates
<1>. QED
  BY <1>1, <1>2, <1>4, <1>6, <1>7, <1>8, <1>9, <1>11, <1>12, <1>13, <1>14, <1>15, <1>16,
     <1>17, <1>18, <1>19, <1>20, <1>21, <1>22, <1>23 DEF PipelineStep

(***************************************************************************)
(* The inductive invariant.  TypeOK alone is not inductive: fetching a job *)
(* counts its attempt up and snoozing counts it down, so the range of the  *)
(* counter depends on the state of the job, and that on where the run is.  *)
(***************************************************************************)
\* A queued job has an attempt left, a running one has used one, there are no
\* jobs without a queue, and with a queue only a running job has a run.
JobInv(s) ==
    /\ job[s].state = "queued" => job[s].attempt < MaxAttempts
    /\ job[s].state = "running" => job[s].attempt >= 1
    /\ ~Durable => job[s].state = "none"
    /\ Durable /\ ~At(s, "idle") => job[s].state = "running"
    /\ run[s].pc \in {"gate", "check", "claim", "return"} => Durable

\* The broker's claim of a session is its run inside the pipeline.
ClaimInv(s) == s \in active <=> IsRunning(s)

\* Runs of user-added sessions enter at retry and never reach the content stages.
UserRunInv(s) == IsUserAdded(s) => run[s].pc \notin ContentLabels

\* The runs, jobs and claims of all sessions.
QueueInv ==
    /\ PipelineTypeOK
    /\ job \in [Sessions -> Job]
    /\ active \subseteq Sessions
    /\ \A s \in Sessions : JobInv(s) /\ ClaimInv(s) /\ UserRunInv(s)

\* Handlers of generated sessions wait only without a queue; the status a task
\* request may put back is that of a session that exists.
RequestInv(s) ==
    /\ request[s].pc = "start" /\ ~IsUserAdded(s) => ~Durable
    /\ request[s].pc # "idle" /\ IsUserAdded(s) => request[s].prev \notin {"none", "deleted"}

\* The requests of all sessions.
HandlerInv ==
    /\ request \in [Sessions -> Request]
    /\ used \in [requests: 0..MaxRequests, crashes: 0..MaxCrashes]
    /\ \A s \in Sessions : RequestInv(s)

\* The invariant: well-typed rows, consistent queue, consistent handlers.
IInv == StoreTypeOK /\ QueueInv /\ HandlerInv

\* A step that changes the run and the job of one session keeps QueueInv if the
\* new ones satisfy their part of it.
LEMMA QueueStep ==
    ASSUME QueueInv, NEW s \in Sessions, NEW r \in Run, NEW j \in Job,
           run' = [run EXCEPT ![s] = r],
           job' = [job EXCEPT ![s] = j],
           active' \subseteq Sessions,
           \A t \in Sessions \ {s} : t \in active' <=> t \in active,
           j.state = "queued" => j.attempt < MaxAttempts,
           j.state = "running" => j.attempt >= 1,
           ~Durable => j.state = "none",
           Durable /\ r.pc # "idle" => j.state = "running",
           r.pc \in {"gate", "check", "claim", "return"} => Durable,
           s \in active' <=> r.pc \in PipelineLabels \cup {"end"},
           IsUserAdded(s) => r.pc \notin ContentLabels
    PROVE  QueueInv'
<1>1. PipelineTypeOK' /\ job' \in [Sessions -> Job]
  BY DEF QueueInv, PipelineTypeOK
<1>2. ASSUME NEW t \in Sessions PROVE JobInv(t)' /\ ClaimInv(t)' /\ UserRunInv(t)'
  <2>1. CASE t = s
    <3>1. run'[t] = r /\ job'[t] = j
      BY <2>1 DEF QueueInv, PipelineTypeOK
    <3>. QED  BY <2>1, <3>1 DEF JobInv, ClaimInv, UserRunInv, At, IsRunning, IsUserAdded
  <2>2. CASE t # s
    <3>1. run'[t] = run[t] /\ job'[t] = job[t] /\ (t \in active' <=> t \in active)
      BY <2>2 DEF QueueInv, PipelineTypeOK
    <3>2. JobInv(t) /\ ClaimInv(t) /\ UserRunInv(t)
      BY DEF QueueInv
    <3>. QED  BY <3>1, <3>2 DEF JobInv, ClaimInv, UserRunInv, At, IsRunning, IsUserAdded
  <2>. QED  BY <2>1, <2>2
<1>. QED  BY <1>1, <1>2 DEF QueueInv

\* Steps that leave a part of the state alone keep the part of IInv about it.
LEMMA QueueUnchanged ==
    ASSUME QueueInv, UNCHANGED <<run, job, active>>
    PROVE  QueueInv'
  BY DEF QueueInv, PipelineTypeOK, JobInv, ClaimInv, UserRunInv, At, IsRunning, IsUserAdded

\* The same for the handlers,
LEMMA HandlerUnchanged ==
    ASSUME HandlerInv, UNCHANGED <<request, used>>
    PROVE  HandlerInv'
  BY DEF HandlerInv, RequestInv, IsUserAdded

\* and for the rows.
LEMMA StoreUnchanged ==
    ASSUME StoreTypeOK, UNCHANGED store
    PROVE  StoreTypeOK'
  BY DEF StoreTypeOK, store

\* The run of a session that nobody generates.
LEMMA IdleRunType == IdleRun \in Run /\ IdleRun.pc = "idle"
<1>1. EmptyRow \in Row /\ 0 \in Revisions
  BY RevisionAssumption DEF EmptyRow, Row, Statuses, Revisions
<1>. QED  BY <1>1 DEF IdleRun, Run, QueueLabels, WorkStates

\* A step that changes only the run of one session, inside its job.
LEMMA QueueMove ==
    ASSUME QueueInv, NEW s \in Sessions, NEW label \in QueueLabels \cup PipelineLabels,
           Moves(s, label), UNCHANGED <<job, active>>,
           ~At(s, "idle"), label # "idle",
           label \in {"gate", "check", "claim", "return"} => Durable,
           IsRunning(s) <=> label \in PipelineLabels \cup {"end"},
           IsUserAdded(s) => label \notin ContentLabels
    PROVE  QueueInv'
<1>1. PICK r \in Run : run' = [run EXCEPT ![s] = r] /\ r.pc = label
  BY DEF Moves
<1>2. job[s] \in Job /\ job' = [job EXCEPT ![s] = job[s]] /\ JobInv(s) /\ ClaimInv(s)
  BY DEF QueueInv
<1>3. active' \subseteq Sessions /\ (s \in active' <=> label \in PipelineLabels \cup {"end"})
  BY <1>2 DEF ClaimInv, QueueInv
<1>. QED  BY <1>1, <1>2, <1>3, QueueStep DEF JobInv

\* A new job is queued with all its attempts; a second one is dropped.
LEMMA EnqueueQueue ==
    ASSUME QueueInv, NEW s \in Sessions, Durable, Enqueue(s)
    PROVE  QueueInv'
<1>1. CASE job[s].state # "none"
  BY <1>1, QueueUnchanged DEF Enqueue
<1>2. CASE job[s].state = "none"
  <2>. DEFINE j == [state |-> "queued", attempt |-> 0]
  <2>1. j \in Job /\ 0 < MaxAttempts
    BY AttemptsAssumption DEF Job
  <2>2. job' = [job EXCEPT ![s] = j] /\ UNCHANGED <<run, active>>
    BY <1>2 DEF Enqueue
  <2>3. run[s] \in Run /\ run' = [run EXCEPT ![s] = run[s]] /\ JobInv(s) /\ ClaimInv(s)
        /\ UserRunInv(s) /\ active \subseteq Sessions
    BY <2>2 DEF QueueInv, PipelineTypeOK
  <2>. QED  BY <1>2, <2>1, <2>2, <2>3, QueueStep DEF JobInv, ClaimInv, UserRunInv, IsRunning, At
<1>. QED  BY <1>1, <1>2

\* A run that starts in the process is claimed by it.
LEMMA StartInProcessQueue ==
    ASSUME QueueInv, NEW s \in Sessions, NEW entry \in {"generate", "retry"}, ~Durable,
           StartInProcess(s, entry)
    PROVE  QueueInv'
<1>1. CASE s \in active
  BY <1>1, QueueUnchanged DEF StartInProcess
<1>2. CASE s \notin active
  <2>. DEFINE r == [IdleRun EXCEPT !.pc = entry]
  <2>1. r \in Run /\ r.pc = entry
    BY IdleRunType DEF Run, PipelineLabels
  <2>2. run' = [run EXCEPT ![s] = r] /\ active' = active \cup {s} /\ UNCHANGED job
    BY <1>2 DEF StartInProcess
  <2>3. job[s] \in Job /\ job' = [job EXCEPT ![s] = job[s]] /\ JobInv(s) /\ active \subseteq Sessions
    BY <2>2 DEF QueueInv
  <2>. QED
    <3>. HIDE DEF r
    <3>. QED  BY <2>1, <2>2, <2>3, QueueStep DEF JobInv, PipelineLabels, ContentLabels
<1>. QED  BY <1>1, <1>2

\* Either way to start a retry.
LEMMA StartQueue ==
    ASSUME QueueInv, NEW s \in Sessions, Start(s, "retry")
    PROVE  QueueInv'
  BY EnqueueQueue, StartInProcessQueue DEF Start

\* Taking a job uses one of the attempts it has left.
LEMMA FetchJobQueue ==
    ASSUME QueueInv, NEW s \in Sessions, FetchJob(s)
    PROVE  QueueInv'
<1>. DEFINE r == [IdleRun EXCEPT !.pc = "gate"]
            j == [state |-> "running", attempt |-> job[s].attempt + 1]
<1>1. r \in Run /\ r.pc = "gate"
  BY IdleRunType DEF Run, QueueLabels
<1>2. job[s] \in Job /\ JobInv(s) /\ ClaimInv(s) /\ active \subseteq Sessions /\ Durable
  BY DEF QueueInv, FetchJob, JobInv
<1>3. j \in Job /\ j.attempt >= 1
  BY <1>2, AttemptsAssumption DEF FetchJob, JobInv, Job
<1>4. run' = [run EXCEPT ![s] = r] /\ job' = [job EXCEPT ![s] = j] /\ UNCHANGED active
  BY DEF FetchJob, QueueInv
<1>5. s \notin active
  BY <1>2 DEF FetchJob, JobInv, ClaimInv, IsRunning, At, PipelineLabels
<1>6. j.state = "running"
  OBVIOUS
<1>. QED
  <2>. HIDE DEF r, j
  <2>. QED  BY <1>1, <1>2, <1>3, <1>4, <1>5, <1>6, QueueStep DEF PipelineLabels, ContentLabels

\* A snooze gives the attempt back, which a running job has used.
LEMMA PassGateQueue ==
    ASSUME QueueInv, NEW s \in Sessions, PassGate(s)
    PROVE  QueueInv'
<1>1. job[s] \in Job /\ JobInv(s) /\ ClaimInv(s) /\ active \subseteq Sessions /\ Durable
      /\ UNCHANGED active
  BY DEF QueueInv, PassGate, JobInv, At
<1>2. CASE Goto(s, "check") /\ UNCHANGED job
  <2>1. Moves(s, "check")
    BY <1>2, GotoMoves DEF QueueInv, QueueLabels
  <2>. QED  BY <1>1, <1>2, <2>1, QueueMove
       DEF PassGate, At, IsRunning, QueueLabels, PipelineLabels, ContentLabels
<1>3. CASE /\ job' = [job EXCEPT ![s] = [state |-> "queued", attempt |-> @.attempt - 1]]
           /\ run' = [run EXCEPT ![s] = IdleRun]
  <2>. DEFINE j == [state |-> "queued", attempt |-> job[s].attempt - 1]
  <2>1. j \in Job /\ j.attempt < MaxAttempts
    BY <1>1, AttemptsAssumption DEF PassGate, JobInv, Job, At
  <2>2. job' = [job EXCEPT ![s] = j] /\ j.state = "queued"
    BY <1>3 DEF QueueInv
  <2>3. s \notin active
    BY <1>1 DEF PassGate, ClaimInv, IsRunning, At, PipelineLabels
  <2>. QED
    <3>. HIDE DEF j
    <3>. QED  BY <1>1, <1>3, <2>1, <2>2, <2>3, IdleRunType, QueueStep DEF PipelineLabels, ContentLabels
<1>. QED  BY <1>2, <1>3 DEF PassGate

\* The early return of RunGeneration is a move inside the job.
LEMMA CheckStatusQueue ==
    ASSUME QueueInv, StoreTypeOK, NEW s \in Sessions, CheckStatus(s)
    PROVE  QueueInv'
<1>1. JobInv(s) /\ ClaimInv(s) /\ Durable /\ PipelineTypeOK
  BY DEF QueueInv, CheckStatus, JobInv, At
<1>2. Moves(s, "return") \/ Moves(s, "claim")
  <2>1. CASE Goto(s, "return")
    BY <1>1, <2>1, GotoMoves DEF QueueLabels
  <2>2. CASE run' = [run EXCEPT ![s].pc = "claim", ![s].seen = session[s]]
    <3>. DEFINE r == [run[s] EXCEPT !.pc = "claim", !.seen = session[s]]
    <3>1. run' = [run EXCEPT ![s] = r] /\ r \in Run /\ r.pc = "claim"
      BY <1>1, <2>2 DEF PipelineTypeOK, StoreTypeOK, Run, QueueLabels
    <3>. QED  BY <3>1 DEF Moves
  <2>3. CASE run' = [run EXCEPT ![s].pc = "return", ![s].err = TRUE]
    <3>. DEFINE r == [run[s] EXCEPT !.pc = "return", !.err = TRUE]
    <3>1. run' = [run EXCEPT ![s] = r] /\ r \in Run /\ r.pc = "return"
      BY <1>1, <2>3 DEF PipelineTypeOK, Run, QueueLabels
    <3>. QED  BY <3>1 DEF Moves
  <2>. QED  BY <2>1, <2>2, <2>3 DEF CheckStatus
<1>. QED  BY <1>1, <1>2, QueueMove
     DEF CheckStatus, At, IsRunning, QueueLabels, PipelineLabels, ContentLabels

\* A session that reaches the claim has no run yet, so the claim succeeds.
LEMMA ClaimQueue ==
    ASSUME QueueInv, NEW s \in Sessions, Claim(s)
    PROVE  QueueInv'
<1>1. JobInv(s) /\ ClaimInv(s) /\ Durable /\ PipelineTypeOK /\ active \subseteq Sessions
  BY DEF QueueInv, Claim, JobInv, At
<1>2. s \notin active
  BY <1>1 DEF Claim, ClaimInv, IsRunning, At, PipelineLabels
<1>3. PICK label \in {"retry", "generate"} : Goto(s, label)
  BY <1>2 DEF Claim
<1>4. PICK r \in Run : run' = [run EXCEPT ![s] = r] /\ r.pc = label
  BY <1>1, <1>3, GotoMoves DEF Moves, PipelineLabels
<1>5. job[s] \in Job /\ job' = [job EXCEPT ![s] = job[s]] /\ active' = active \cup {s}
  BY <1>2 DEF QueueInv, Claim
<1>. QED  BY <1>1, <1>4, <1>5, QueueStep DEF Claim, JobInv, At, PipelineLabels, ContentLabels

\* The claim goes with the run; the job is retried only with an attempt left.
LEMMA EndRunQueue ==
    ASSUME QueueInv, NEW s \in Sessions, EndRun(s)
    PROVE  QueueInv'
<1>. DEFINE j == IF ~Durable THEN job[s]
                 ELSE IF run[s].err /\ job[s].attempt < MaxAttempts
                      THEN [job[s] EXCEPT !.state = "queued"] ELSE NoJob
<1>1. job[s] \in Job /\ JobInv(s) /\ ClaimInv(s) /\ active \subseteq Sessions
  BY DEF QueueInv
<1>2. j \in Job /\ j.state # "running" /\ (j.state = "queued" => j.attempt < MaxAttempts)
      /\ (~Durable => j.state = "none")
  BY <1>1, AttemptsAssumption DEF JobInv, Job, NoJob
<1>3. job' = [job EXCEPT ![s] = j]
  BY DEF EndRun, QueueInv
<1>4. run' = [run EXCEPT ![s] = IdleRun] /\ active' \subseteq Sessions /\ s \notin active'
      /\ \A t \in Sessions \ {s} : t \in active' <=> t \in active
  BY <1>1 DEF EndRun, ClaimInv, IsRunning, At, PipelineLabels
<1>. QED
  <2>. HIDE DEF j
  <2>. QED  BY <1>2, <1>3, <1>4, IdleRunType, QueueStep DEF PipelineLabels, ContentLabels

\* A deadline does not move the run.
LEMMA ExpireQueue ==
    ASSUME QueueInv, NEW s \in Sessions, Expire(s)
    PROVE  QueueInv'
<1>. DEFINE r == [run[s] EXCEPT !.expired = TRUE]
<1>1. r \in Run /\ r.pc = run[s].pc /\ run' = [run EXCEPT ![s] = r] /\ run[s].pc \in QueueLabels \cup PipelineLabels
  BY DEF Expire, QueueInv, PipelineTypeOK, Run
<1>2. Moves(s, run[s].pc)
  BY <1>1 DEF Moves
<1>3. JobInv(s) /\ ClaimInv(s) /\ UserRunInv(s)
  BY DEF QueueInv
<1>. QED  BY <1>1, <1>2, <1>3, QueueMove DEF Expire, JobInv, UserRunInv, IsRunning, At

\* A crash loses every run and every claim and keeps the jobs.
LEMMA CrashQueue ==
    ASSUME QueueInv, Crash
    PROVE  QueueInv'
<1>1. PipelineTypeOK'
  BY IdleRunType DEF Crash, PipelineTypeOK
<1>2. ASSUME NEW s \in Sessions PROVE JobInv(s)' /\ ClaimInv(s)' /\ UserRunInv(s)'
  BY IdleRunType
     DEF QueueInv, Crash, JobInv, ClaimInv, UserRunInv, IsRunning, At, PipelineLabels, ContentLabels
<1>. QED  BY <1>1, <1>2 DEF QueueInv, Crash

\* A rescued job has an attempt left or is discarded.
LEMMA RescueJobQueue ==
    ASSUME QueueInv, NEW s \in Sessions, RescueJob(s)
    PROVE  QueueInv'
<1>. DEFINE j == IF job[s].attempt < MaxAttempts THEN [job[s] EXCEPT !.state = "queued"] ELSE NoJob
<1>1. job[s] \in Job /\ JobInv(s) /\ ClaimInv(s) /\ active \subseteq Sessions /\ Durable
  BY DEF QueueInv, RescueJob, JobInv
<1>2. j \in Job /\ j.state # "running" /\ (j.state = "queued" => j.attempt < MaxAttempts)
  BY <1>1, AttemptsAssumption DEF Job, NoJob
<1>3. job' = [job EXCEPT ![s] = j] /\ run' = [run EXCEPT ![s] = run[s]] /\ run[s] \in Run
      /\ UNCHANGED active
  BY DEF RescueJob, QueueInv, PipelineTypeOK
<1>. QED
  <2>. HIDE DEF j
  <2>. QED  BY ZenonT(30), <1>1, <1>2, <1>3, QueueStep
       DEF RescueJob, ClaimInv, IsRunning, At, PipelineLabels, ContentLabels

\* A step of the pipeline stays inside it, and out of a user's content stages.
LEMMA PipelineStepQueue ==
    ASSUME QueueInv, StoreTypeOK, NEW s \in Sessions, PipelineStep(s), UNCHANGED <<job, active>>
    PROVE  QueueInv'
<1>1. PipelineEffect(s) /\ UserRunInv(s)
  BY PipelineStepEffect DEF QueueInv
<1>2. PICK label \in PipelineLabels \cup {"end"} :
          /\ Moves(s, label)
          /\ IsUserAdded(s) => label \notin ContentLabels
  BY <1>1 DEF PipelineEffect, PipelineMove, UserRunInv
<1>. QED  BY <1>1, <1>2, QueueMove
     DEF PipelineEffect, IsRunning, At, PipelineLabels, QueueLabels

\* A handler at rest.
LEMMA NoRequestType == NoRequest \in Request /\ NoRequest.pc = "idle"
<1>1. 0 \in Revisions
  BY RevisionAssumption DEF Revisions
<1>. QED  BY <1>1 DEF NoRequest, Request, Statuses

\* A step of one session's handler.
LEMMA RequestStep ==
    ASSUME HandlerInv, NEW s \in Sessions, NEW r \in Request,
           request' = [request EXCEPT ![s] = r],
           used' \in [requests: 0..MaxRequests, crashes: 0..MaxCrashes],
           r.pc = "start" /\ ~IsUserAdded(s) => ~Durable,
           r.pc # "idle" /\ IsUserAdded(s) => r.prev \notin {"none", "deleted"}
    PROVE  HandlerInv'
  BY DEF HandlerInv, RequestInv, IsUserAdded

\* A request uses one of the requests of the bound.
LEMMA AsksType ==
    ASSUME HandlerInv, NEW kind, Asks(kind)
    PROVE  used' \in [requests: 0..MaxRequests, crashes: 0..MaxCrashes]
  BY BoundsAssumption DEF HandlerInv, Asks

\* Only without a queue does the handler of a generated session go on.
LEMMA GenerateSessionHandler ==
    ASSUME HandlerInv, NEW s \in Sessions, GenerateSession(s)
    PROVE  HandlerInv'
<1>1. CASE Durable
  BY <1>1, HandlerUnchanged DEF GenerateSession
<1>2. CASE ~Durable
  <2>. DEFINE r == [request[s] EXCEPT !.pc = "start"]
  <2>1. r \in Request /\ request' = [request EXCEPT ![s] = r]
    BY <1>2 DEF HandlerInv, GenerateSession, Request
  <2>. QED  BY <1>2, <2>1, RequestStep DEF GenerateSession, HandlerInv
<1>. QED  BY <1>1, <1>2

\* The status a task request remembers is that of an existing session,
LEMMA GenerateStoryTasksHandler ==
    ASSUME StoreTypeOK, HandlerInv, NEW s \in Sessions, GenerateStoryTasks(s)
    PROVE  HandlerInv'
<1>1. PICK excerpt \in {0, tokens[s]} :
          request' = [request EXCEPT ![s] = [pc |-> "prepare", prev |-> session[s].status,
                                             excerpt |-> excerpt]]
  BY DEF GenerateStoryTasks
<1>2. [pc |-> "prepare", prev |-> session[s].status, excerpt |-> excerpt] \in Request
  BY RevisionAssumption DEF StoreTypeOK, Request, Row, Revisions
<1>3. used' \in [requests: 0..MaxRequests, crashes: 0..MaxCrashes]
  BY AsksType DEF GenerateStoryTasks
<1>4. IsUserAdded(s) /\ session[s].status \notin {"none", "deleted"}
  BY DEF GenerateStoryTasks, UserStoryIsIdle
<1>. QED  BY <1>1, <1>2, <1>3, <1>4, RequestStep

\* and stays so when the source is stored.
LEMMA PrepareTaskSourceHandler ==
    ASSUME HandlerInv, NEW s \in Sessions, PrepareTaskSource(s)
    PROVE  HandlerInv'
<1>1. used' \in [requests: 0..MaxRequests, crashes: 0..MaxCrashes]
  BY DEF HandlerInv, PrepareTaskSource
<1>2. CASE IsUserAdded(s) /\ request' = [request EXCEPT ![s].pc = "start"]
  <2>. DEFINE r == [request[s] EXCEPT !.pc = "start"]
  <2>1. /\ r \in Request
        /\ request' = [request EXCEPT ![s] = r]
        /\ r.prev \notin {"none", "deleted"}
    BY <1>2 DEF HandlerInv, RequestInv, PrepareTaskSource, Request
  <2>. QED  BY <1>1, <1>2, <2>1, RequestStep
<1>3. CASE request' = [request EXCEPT ![s] = NoRequest]
  BY <1>1, <1>3, NoRequestType, RequestStep
<1>. QED  BY <1>2, <1>3 DEF PrepareTaskSource, SetUserStoryTaskSource, UserStoryIsIdle

\* A handler that started its run is done.
LEMMA StartHandler ==
    ASSUME HandlerInv, NEW s \in Sessions, StartGeneration(s) \/ StartStoryTasks(s)
    PROVE  HandlerInv'
  BY NoRequestType, RequestStep DEF StartGeneration, StartStoryTasks, HandlerInv

\* A crash loses the handlers.
LEMMA CrashHandler ==
    ASSUME HandlerInv, Crash
    PROVE  HandlerInv'
<1>1. used' \in [requests: 0..MaxRequests, crashes: 0..MaxCrashes]
  BY BoundsAssumption DEF HandlerInv, Crash
<1>. QED  BY <1>1, NoRequestType DEF HandlerInv, Crash, RequestInv

\* Whatever a step of the pipeline writes is well typed.
LEMMA PipelineWriteType ==
    ASSUME StoreTypeOK, NEW s \in Sessions, PipelineWrite(s)
    PROVE  StoreTypeOK'
<1>1. CASE UNCHANGED store
  BY <1>1, StoreUnchanged
<1>2. ASSUME NEW status \in Statuses, UpdateSessionStatus(s, status) PROVE StoreTypeOK'
  BY <1>2, StatusWriteType
<1>3. ASSUME NEW g \in Stages, NEW status \in StageStatuses, UpsertStage(s, g, status), Exists(s)
      PROVE  StoreTypeOK'
  <2>1. [stage[s] EXCEPT ![g] = status] \in [Stages -> StageStatuses]
    BY DEF StoreTypeOK
  <2>2. stage' = [stage EXCEPT ![s] = [stage[s] EXCEPT ![g] = status]]
    BY <1>3 DEF UpsertStage, StoreTypeOK
  <2>. QED  BY <1>3, <2>1, <2>2 DEF StoreTypeOK, UpsertStage
<1>4. ASSUME NEW t \in TaskTypes, NEW source \in Revisions, CreateTask(s, t, source)
      PROVE  StoreTypeOK'
  BY <1>4, TaskWriteType
<1>5. CASE SaveContent(s)
  BY <1>5, ContentWriteType
<1>6. CASE ReplaceStoryTokens(s)
  BY <1>6, TokenWriteType
<1>. QED  BY <1>1, <1>2, <1>3, <1>4, <1>5, <1>6 DEF PipelineWrite, Stages

\* The invariant holds at the start,
LEMMA InitInv == Init => IInv
<1>. SUFFICES ASSUME Init PROVE IInv
  OBVIOUS
<1>1. 0 \in Revisions /\ EmptyRow \in Row /\ NoStages \in [Stages -> StageStatuses]
  BY RevisionAssumption DEF Revisions, EmptyRow, Row, Statuses, NoStages, StageStatuses
<1>2. StoreTypeOK
  BY <1>1 DEF Init, StoreInit, StoreTypeOK
<1>3. QueueInv
  <2>1. NoJob \in Job /\ NoJob.state = "none"
    BY AttemptsAssumption DEF NoJob, Job
  <2>. QED  BY <2>1, IdleRunType
       DEF Init, PipelineInit, QueueInv, PipelineTypeOK, JobInv, ClaimInv, UserRunInv, At,
           IsRunning, PipelineLabels, ContentLabels
<1>4. HandlerInv
  BY NoRequestType, BoundsAssumption DEF Init, HandlerInv, RequestInv
<1>. QED  BY <1>2, <1>3, <1>4 DEF IInv

\* and every action keeps it.
LEMMA NextInv == IInv /\ [Next]_vars => IInv'
<1>. SUFFICES ASSUME IInv, [Next]_vars PROVE IInv'
  OBVIOUS
<1>. USE DEF IInv
<1>1. CASE UNCHANGED vars
  BY <1>1, StoreUnchanged, QueueUnchanged, HandlerUnchanged DEF vars, store
<1>2. ASSUME NEW s \in Sessions, GenerateSession(s) PROVE IInv'
  <2>1. QueueInv'
    <3>1. CASE Durable
      BY <1>2, <3>1, EnqueueQueue DEF GenerateSession
    <3>2. CASE ~Durable
      BY <1>2, <3>2, QueueUnchanged DEF GenerateSession
    <3>. QED  BY <3>1, <3>2
  <2>2. StoreTypeOK'
    BY <1>2, CreationType DEF GenerateSession
  <2>3. HandlerInv'
    BY <1>2, GenerateSessionHandler
  <2>. QED  BY <2>1, <2>2, <2>3
<1>3. ASSUME NEW s \in Sessions, StartGeneration(s) PROVE IInv'
  <2>1. ~Durable
    BY <1>3 DEF HandlerInv, RequestInv, StartGeneration
  <2>2. QueueInv'
    BY <1>3, <2>1, StartInProcessQueue DEF StartGeneration
  <2>. QED  BY <1>3, <2>2, StoreUnchanged, StartHandler DEF StartGeneration
<1>4. ASSUME NEW s \in Sessions, ImportStory(s) PROVE IInv'
  BY <1>4, CreationType, QueueUnchanged, HandlerUnchanged DEF ImportStory
<1>5. ASSUME NEW s \in Sessions, RetrySession(s) PROVE IInv'
  <2>1. HandlerInv'
    BY <1>5, AsksType DEF RetrySession, HandlerInv, RequestInv, IsUserAdded
  <2>. QED  BY <1>5, <2>1, StoreUnchanged, StartQueue DEF RetrySession
<1>6. ASSUME NEW s \in Sessions, GenerateStoryTasks(s) PROVE IInv'
  BY <1>6, StoreUnchanged, QueueUnchanged, GenerateStoryTasksHandler DEF GenerateStoryTasks
<1>7. ASSUME NEW s \in Sessions, PrepareTaskSource(s) PROVE IInv'
  <2>1. StoreTypeOK'
    <3>1. request[s].excerpt \in Revisions
      BY DEF HandlerInv, Request
    <3>. QED  BY <1>7, <3>1, StoreUnchanged, UserStoryType DEF PrepareTaskSource
  <2>. QED  BY <1>7, <2>1, QueueUnchanged, PrepareTaskSourceHandler DEF PrepareTaskSource
<1>8. ASSUME NEW s \in Sessions, StartStoryTasks(s) PROVE IInv'
  <2>1. StoreTypeOK'
    <3>1. request[s].prev \in Statuses
      BY DEF HandlerInv, Request
    <3>. QED  BY <1>8, <3>1, StoreUnchanged, StatusWriteType DEF StartStoryTasks
  <2>2. QueueInv'
    BY <1>8, StartQueue, QueueUnchanged DEF StartStoryTasks
  <2>. QED  BY <1>8, <2>1, <2>2, StartHandler
<1>9. ASSUME NEW s \in Sessions, UpdateStory(s) PROVE IInv'
  <2>1. HandlerInv'
    BY <1>9, AsksType DEF UpdateStory, HandlerInv, RequestInv, IsUserAdded
  <2>. QED  BY <1>9, <2>1, UserStoryType, QueueUnchanged DEF UpdateStory
<1>10. ASSUME NEW s \in Sessions, Learner(s) PROVE IInv'
  BY <1>10, LearnerType, QueueUnchanged, HandlerUnchanged DEF Learner
<1>11. ASSUME NEW s \in Sessions, FetchJob(s) PROVE IInv'
  BY <1>11, StoreUnchanged, FetchJobQueue, HandlerUnchanged DEF FetchJob
<1>12. ASSUME NEW s \in Sessions, PassGate(s) PROVE IInv'
  BY <1>12, StoreUnchanged, PassGateQueue, HandlerUnchanged DEF PassGate
<1>13. ASSUME NEW s \in Sessions, CheckStatus(s) PROVE IInv'
  BY <1>13, StoreUnchanged, CheckStatusQueue, HandlerUnchanged DEF CheckStatus
<1>14. ASSUME NEW s \in Sessions, Claim(s) PROVE IInv'
  BY <1>14, StoreUnchanged, ClaimQueue, HandlerUnchanged DEF Claim
<1>15. ASSUME NEW s \in Sessions, EndRun(s) PROVE IInv'
  BY <1>15, StoreUnchanged, EndRunQueue, HandlerUnchanged DEF EndRun
<1>16. ASSUME NEW s \in Sessions, Expire(s) PROVE IInv'
  BY <1>16, StoreUnchanged, ExpireQueue, HandlerUnchanged DEF Expire
<1>17. ASSUME NEW s \in Sessions, RescueJob(s) PROVE IInv'
  BY <1>17, StoreUnchanged, RescueJobQueue, HandlerUnchanged DEF RescueJob
<1>18. ASSUME NEW s \in Sessions, PipelineStep(s), UNCHANGED <<job, active, request, used>>
       PROVE  IInv'
  <2>1. PipelineWrite(s)
    BY <1>18, PipelineStepEffect DEF QueueInv, PipelineEffect
  <2>. QED  BY <1>18, <2>1, PipelineWriteType, PipelineStepQueue, HandlerUnchanged
<1>19. CASE Crash
  BY <1>19, StoreUnchanged, CrashQueue, CrashHandler DEF Crash
<1>. QED
  BY <1>1, <1>2, <1>3, <1>4, <1>5, <1>6, <1>7, <1>8, <1>9, <1>10, <1>11, <1>12, <1>13, <1>14,
     <1>15, <1>16, <1>17, <1>18, <1>19 DEF Next, RunStep, HandlerStep

(***************************************************************************)
(* The theorems.                                                           *)
(***************************************************************************)
\* Rows, runs, jobs, claims and handlers are consistent in every reachable state:
\* a run of the queue always belongs to a running job with an attempt in use.
THEOREM InductiveInvariant == Spec => []IInv
  BY InitInv, NextInv, PTL DEF Spec

\* Every variable keeps its type; in particular a job is never worked more often
\* than MaxAttempts allows, however often it is snoozed (jobs/generation.go).
THEOREM TypeCorrect == Spec => []TypeOK
<1>1. IInv => TypeOK
  BY DEF IInv, QueueInv, HandlerInv, TypeOK
<1>. QED  BY <1>1, InductiveInvariant, PTL

\* The claims in the broker's memory are the runs of its process, whatever errors,
\* deadlines, crashes and retries during a run come (story/broker.go, claim, release).
THEOREM ClaimsAreTheRuns == Spec => []ClaimsAreRuns
<1>1. IInv => ClaimsAreRuns
  BY DEF IInv, QueueInv, ClaimInv, ClaimsAreRuns
<1>. QED  BY <1>1, InductiveInvariant, PTL

\* All rows of session t are as before.
RowKept(t) ==
    session'[t] = session[t] /\ stage'[t] = stage[t] /\ tokens'[t] = tokens[t] /\ tasks'[t] = tasks[t]

\* No write,
LEMMA StoreKept ==
    ASSUME NothingOutlivesDeletion, UNCHANGED store
    PROVE  NothingOutlivesDeletion'
  BY DEF NothingOutlivesDeletion, store

\* or writes to one session that is not deleted by them,
LEMMA LiveWrite ==
    ASSUME NothingOutlivesDeletion, NEW s \in Sessions,
           \A t \in Sessions \ {s} : RowKept(t), session'[s].status # "deleted"
    PROVE  NothingOutlivesDeletion'
  BY DEF NothingOutlivesDeletion, RowKept

\* such as a new status,
LEMMA StatusLive ==
    ASSUME StoreTypeOK, NothingOutlivesDeletion, NEW s \in Sessions, NEW status,
           status # "deleted", UpdateSessionStatus(s, status)
    PROVE  NothingOutlivesDeletion'
<1>1. \A t \in Sessions \ {s} : RowKept(t)
  BY DEF UpdateSessionStatus, StoreTypeOK, RowKept
<1>2. session'[s].status = status
  BY DEF UpdateSessionStatus, StoreTypeOK, Row
<1>. QED  BY <1>1, <1>2, LiveWrite

\* or a write of the pipeline, keep deleted sessions empty;
LEMMA PipelineLive ==
    ASSUME StoreTypeOK, NothingOutlivesDeletion, NEW s \in Sessions, PipelineWrite(s)
    PROVE  NothingOutlivesDeletion'
<1>1. CASE UNCHANGED store
  BY <1>1, StoreKept
<1>2. ASSUME NEW status \in Statuses \ {"none", "deleted"}, UpdateSessionStatus(s, status)
      PROVE  NothingOutlivesDeletion'
  BY <1>2, StatusLive
<1>3. ASSUME Exists(s),
             \/ \E g \in Stages, status \in StageStatuses : UpsertStage(s, g, status)
             \/ \E t \in TaskTypes, source \in Revisions : CreateTask(s, t, source)
             \/ ReplaceStoryTokens(s)
             \/ SaveContent(s)
      PROVE  NothingOutlivesDeletion'
  <2>1. \A t \in Sessions \ {s} : RowKept(t)
    BY <1>3 DEF UpsertStage, CreateTask, ReplaceStoryTokens, SaveContent, StoreTypeOK, RowKept
  <2>2. session'[s].status = session[s].status
    BY <1>3 DEF UpsertStage, CreateTask, ReplaceStoryTokens, SaveContent, StoreTypeOK, Row
  <2>. QED  BY <1>3, <2>1, <2>2, LiveWrite DEF Exists
<1>. QED  BY <1>1, <1>2, <1>3 DEF PipelineWrite, Stages

\* and DeleteSession is the only other thing that happens to a session.
LEMMA DeletionStep ==
    IInv /\ NothingOutlivesDeletion /\ [Next]_vars => NothingOutlivesDeletion'
<1>. SUFFICES ASSUME IInv, NothingOutlivesDeletion, [Next]_vars PROVE NothingOutlivesDeletion'
  OBVIOUS
<1>. USE DEF IInv
<1>1. CASE UNCHANGED store
  BY <1>1, StoreKept
<1>2. ASSUME NEW s \in Sessions, CreateSession(s) \/ ImportText(s) PROVE NothingOutlivesDeletion'
  <2>1. \A t \in Sessions \ {s} : RowKept(t)
    BY <1>2 DEF CreateSession, ImportText, StoreTypeOK, RowKept
  <2>2. session'[s].status \in {"pending", "ready"}
    BY <1>2 DEF CreateSession, ImportText, StoreTypeOK, Row
  <2>. QED  BY <2>1, <2>2, LiveWrite
<1>3. ASSUME NEW s \in Sessions,
             \/ ReplaceUserStory(s)
             \/ \E excerpt : SetUserStoryTaskSource(s, excerpt)
             \/ MarkSessionReading(s) \/ MarkSessionComplete(s)
             \/ SetSessionArchived(s, ~session[s].archived)
      PROVE  NothingOutlivesDeletion'
  <2>1. \A t \in Sessions \ {s} : RowKept(t)
    BY <1>3 DEF ReplaceUserStory, SetUserStoryTaskSource, MarkSessionReading, MarkSessionComplete,
                SetSessionArchived, StoreTypeOK, RowKept
  <2>2. session'[s].status \in {"ready", "generating", "reading", "complete", session[s].status}
    BY <1>3 DEF ReplaceUserStory, SetUserStoryTaskSource, MarkSessionReading, MarkSessionComplete,
                SetSessionArchived, StoreTypeOK, Row
  <2>3. session[s].status # "deleted"
    BY <1>3 DEF ReplaceUserStory, SetUserStoryTaskSource, UserStoryIsIdle, MarkSessionReading,
                MarkSessionComplete, SetSessionArchived, Exists
  <2>. QED  BY <2>1, <2>2, <2>3, LiveWrite
<1>4. ASSUME NEW s \in Sessions, DeleteSession(s) PROVE NothingOutlivesDeletion'
  <2>1. \A t \in Sessions \ {s} : RowKept(t)
    BY <1>4 DEF DeleteSession, StoreTypeOK, RowKept
  <2>2. session'[s].content = 0 /\ stage'[s] = NoStages /\ tokens'[s] = 0 /\ tasks'[s] = {}
    BY <1>4 DEF DeleteSession, StoreTypeOK, EmptyRow
  <2>3. NoStages' = NoStages
    BY DEF NoStages
  <2>. QED  BY <2>1, <2>2, <2>3 DEF NothingOutlivesDeletion, RowKept
<1>5. ASSUME NEW s \in Sessions, StartStoryTasks(s) PROVE NothingOutlivesDeletion'
  <2>1. request[s].prev # "deleted"
    BY <1>5 DEF HandlerInv, RequestInv, StartStoryTasks
  <2>2. UNCHANGED store \/ UpdateSessionStatus(s, request[s].prev)
    BY <1>5 DEF StartStoryTasks
  <2>. QED  BY <2>1, <2>2, StoreKept, StatusLive
<1>6. ASSUME NEW s \in Sessions, PipelineStep(s) PROVE NothingOutlivesDeletion'
  <2>1. PipelineWrite(s)
    BY <1>6, PipelineStepEffect DEF QueueInv, PipelineEffect
  <2>. QED  BY <2>1, PipelineLive
<1>7. ASSUME NEW s \in Sessions,
             \/ GenerateSession(s) \/ ImportStory(s) \/ RetrySession(s)
             \/ GenerateStoryTasks(s) \/ UpdateStory(s) \/ Learner(s)
      PROVE  NothingOutlivesDeletion'
  BY <1>1, <1>2, <1>3, <1>4, <1>7
     DEF GenerateSession, ImportStory, RetrySession, GenerateStoryTasks, UpdateStory, Learner
<1>8. ASSUME NEW s \in Sessions, HandlerStep(s) PROVE NothingOutlivesDeletion'
  BY <1>1, <1>3, <1>5, <1>8 DEF HandlerStep, StartGeneration, PrepareTaskSource
<1>9. ASSUME NEW s \in Sessions, FetchJob(s) \/ RunStep(s) \/ Expire(s) \/ RescueJob(s)
      PROVE  NothingOutlivesDeletion'
  BY <1>1, <1>6, <1>9
     DEF FetchJob, RunStep, PassGate, CheckStatus, Claim, EndRun, Expire, RescueJob
<1>10. CASE Crash
  BY <1>1, <1>10 DEF Crash
<1>11. CASE UNCHANGED vars
  BY <1>1, <1>11 DEF vars, store
<1>. QED  BY <1>7, <1>8, <1>9, <1>10, <1>11 DEF Next

\* After DeleteSession no run, handler, retry or redelivered job leaves a stage, a
\* text, tokens or tasks of the session behind (db/sql_pipeline.go).
THEOREM DeletionIsFinal == Spec => []NothingOutlivesDeletion
<1>1. Init => NothingOutlivesDeletion
  BY DEF Init, StoreInit, EmptyRow, NothingOutlivesDeletion
<1>. QED  BY <1>1, DeletionStep, InductiveInvariant, PTL DEF Spec

\* A run of a user-added session is past the content stages, so its steps write
\* only the session's status, task stages and tasks.
LEMMA UserTextStep ==
    ASSUME StoreTypeOK, PipelineTypeOK, NEW s \in Sessions, IsUserAdded(s), UserRunInv(s),
           RunStep(s)
    PROVE  /\ session'[s].content = session[s].content
           /\ tokens'[s] = tokens[s]
           /\ ContentDone(s)' = ContentDone(s)
<1>. DEFINE Kept == /\ session'[s].content = session[s].content
                    /\ tokens'[s] = tokens[s]
                    /\ stage'[s]["content"] = stage[s]["content"]
                    /\ stage'[s]["tokenization"] = stage[s]["tokenization"]
<1>1. ASSUME UNCHANGED store PROVE Kept
  BY <1>1 DEF store
<1>2. ASSUME NEW status \in Statuses, UpdateSessionStatus(s, status) PROVE Kept
  BY <1>2 DEF UpdateSessionStatus, StoreTypeOK, Row
<1>3. ASSUME NEW t \in TaskTypes, NEW status \in StageStatuses, UpsertStage(s, t, status)
      PROVE  Kept
  <2>1. t \notin {"content", "tokenization"}
    BY TaskTypesAssumption
  <2>2. stage' = [stage EXCEPT ![s] = [stage[s] EXCEPT ![t] = status]]
    BY <1>3 DEF UpsertStage, StoreTypeOK
  <2>. QED  BY <1>3, <2>1, <2>2 DEF UpsertStage, StoreTypeOK, Stages
<1>4. ASSUME NEW t \in TaskTypes, NEW source \in Revisions, CreateTask(s, t, source) PROVE Kept
  BY <1>4 DEF CreateTask
<1>5. ASSUME PipelineStep(s) PROVE Kept
  <2>1. PipelineWrite(s)
    BY <1>5, PipelineStepEffect DEF PipelineEffect
  <2>. QED  BY <1>1, <1>2, <1>3, <1>4, <2>1 DEF PipelineWrite, UserRunInv
<1>6. Kept
  BY <1>1, <1>5 DEF RunStep, PassGate, CheckStatus, Claim, EndRun
<1>. QED  BY <1>6 DEF ContentDone, HasStory

\* No step of a run changes the text, the tokens or the import checkpoints of a
\* session its learner brought ("never replaces the user's text", session-types.md).
THEOREM UserTextIsKept == Spec => RunsKeepUserText
<1>1. IInv /\ [Next]_vars =>
        [\A s \in Sessions : IsUserAdded(s) /\ RunStep(s) =>
            /\ session'[s].content = session[s].content
            /\ tokens'[s] = tokens[s]
            /\ ContentDone(s)' = ContentDone(s)]_vars
  BY UserTextStep DEF IInv, QueueInv
<1>. QED  BY <1>1, InductiveInvariant, PTL DEF Spec, RunsKeepUserText
=============================================================================
