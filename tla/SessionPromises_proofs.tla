----------------------- MODULE SessionPromises_proofs -----------------------
(***************************************************************************)
(* What SessionGeneration promises the learner, proved for any sessions,   *)
(* task types and bounds, each promise under the weakest faults and        *)
(* requests it was found to hold for: that a ready session is readable,    *)
(* that a session in preparation has somebody at work, that a task batch   *)
(* keeps the marks of reading, that a finished text is not paid for again, *)
(* and that all of it implements StudySession.                             *)
(*                                                                         *)
(* A promise about a session needs only that session's rows, run, job and  *)
(* handler, so the invariant Promised(s) is one of a single session, with  *)
(* one part per question.  There is one lemma for each action; where its   *)
(* proof is not a single leaf, steps 20 to 27 are the eight parts.         *)
(***************************************************************************)
EXTENDS SessionGeneration_proofs

(***************************************************************************)
(* The inductive invariant.                                                *)
(***************************************************************************)
\* A run inside its deadline whose session exists: unless the database itself
\* refuses statements, all that the run wrote so far is there.
Live(s) == ~run[s].expired /\ Exists(s)

\* Which fields of a run say something at which of its labels.
RunShape(s) ==
    /\ run[s].resumed => run[s].pc \in {"tasks", "end"}
    /\ run[s].expired => "timeout" \in Faults
    /\ run[s].err => run[s].pc \in {"markFailed", "end", "return"}
    /\ run[s].pc \in {"scope", "scopeCall"} => Kind[s] = "topic_guided"

\* Nobody works for a session that was not created yet.
Unborn(s) ==
    session[s].status = "none" =>
        /\ session[s].content = 0 /\ ~session[s].reading /\ ~session[s].completed
        /\ job[s].state = "none"
        /\ At(s, "idle")
        /\ request[s].pc = "idle"

\* The text of a user-added session is complete from its import on.
Brought(s) == IsUserAdded(s) =>
    /\ session[s].status # "pending"
    /\ request[s].pc # "idle" => request[s].prev # "pending"
    /\ Exists(s) => ContentDone(s) /\ tokens[s] = session[s].content

\* The labels of a run that has marked its session, and those of Retry.
GeneratingLabels ==
    {"scope", "scopeCall", "select", "content", "contentCall", "contentSaved",
     "tokenize", "saveTokens", "tokenized", "tasks"}
ResumeLabels == {"retry", "resume", "rebuild", "restart"}

\* Nobody but its run changes the status of a generated session that is not ready;
\* with a queue only a failed session is resumed.
Ordered(s) == ~IsUserAdded(s) =>
    /\ session[s].excerpt = 0 /\ run[s].seen.excerpt = 0
    /\ run[s].pc \in GeneratingLabels => session[s].status \in {"generating", "deleted"}
    /\ Durable /\ (run[s].pc \in ResumeLabels \/ (At(s, "claim") /\ run[s].seen.status = "failed"))
          => session[s].status \in {"failed", "deleted"}

\* What the other parts rest on, for all faults and requests.
LifeInv(s) == RunShape(s) /\ Unborn(s) /\ Brought(s) /\ Ordered(s)

\* ReadyMeansReadable holds of a text the learner brought; of others when no run is
\* cut off, or when one that is cut off begins again with a new text.
Spared(s) ==
    \/ IsUserAdded(s)
    \/ Faults = {}
    \/ Durable /\ "database" \notin Faults /\ Kind[s] # "topic_guided"

\* A task of type t was made from the text that is linked.
MadeFromText(s, t) == <<t, session[s].content>> \in tasks[s]

\* What is marked as complete was made from the text that is linked.
Checkpointed(s) ==
    ContentDone(s) =>
        /\ HasStory(s) => tokens[s] = session[s].content
        /\ \A t \in TaskTypes : stage[s][t] = "complete" => MadeFromText(s, t)

\* The run works on the text that is linked.
TextStored(s) == session[s].content # 0 /\ run[s].source = session[s].content

\* What a live run has written at each of its labels,
Written(s) ==
    /\ run[s].pc \in {"contentCall", "contentSaved"} => stage[s]["content"] = "in_progress"
    /\ run[s].pc \in {"contentSaved", "tokenize", "saveTokens", "tokenized", "tasks",
                      "rebuild", "restart"} => TextStored(s)
    /\ run[s].pc \in {"rebuild", "restart"} => ContentDone(s)
    /\ run[s].pc \in {"tokenized", "tasks"} /\ HasStory(s) => tokens[s] = session[s].content
    /\ run[s].pc \in {"tokenize", "saveTokens", "tokenized"} => HasStory(s)

\* and of each task type.
WorkDone(s, t) ==
    /\ run[s].work[t] = "skip" => stage[s][t] = "complete"
    /\ run[s].work[t] = "todo" /\ (run[s].resumed \/ ~At(s, "tasks")) => stage[s][t] # "complete"
    /\ run[s].work[t] \in {"call", "rows"} => stage[s][t] = "in_progress"
    /\ run[s].work[t] = "ok" => stage[s][t] = "complete"
    /\ run[s].work[t] = "err" => stage[s][t] = "failed"
    /\ run[s].work[t] \in {"skip", "rows", "ok"} => MadeFromText(s, t)

\* What a run inside its deadline has written so far is there,
WorkInv(s) == Spared(s) /\ ~IsUserAdded(s) /\ Live(s) =>
    /\ Written(s)
    /\ run[s].pc \in {"tasks", "rebuild", "restart"} => \A t \in TaskTypes : WorkDone(s, t)

\* and although between a new text and its tasks the checkpoints may be those of an
\* older text, they are not whenever a retry may look at them.
CheckpointInv(s) == Spared(s) /\ ~IsUserAdded(s) =>
    /\ session[s].status = "failed" => Checkpointed(s)
    /\ Faults = {} /\ run[s].pc \notin {"tokenize", "saveTokens", "tokenized", "tasks"} =>
          Checkpointed(s)
    /\ Live(s) /\ At(s, "markFailed") => Checkpointed(s)

\* ReadyMeansReadable, of a generated session.
ReadyInv(s) == Spared(s) /\ ~IsUserAdded(s) /\ Readable(s) =>
    /\ session[s].content # 0
    /\ HasStory(s) => tokens[s] = session[s].content
    /\ \E t \in TaskTypes : stage[s][t] = "complete" /\ MadeFromText(s, t)

\* The sessions that implement StudySession: user-added ones unless the database
\* fails, others while a queue starts their runs and nobody begins to read them.
Shown(s) ==
    IF IsUserAdded(s) THEN "database" \notin Faults ELSE Durable /\ "read" \notin Requests

\* A user-added session never fails; a run that is about to work on a generated one
\* does not find it ready, and one that is past its content has stored a text.
ShownInv(s) == Shown(s) =>
    /\ IsUserAdded(s) =>
          /\ session[s].status # "failed"
          /\ At(s, "markFailed") => ~Live(s)
    /\ ~IsUserAdded(s) =>
          /\ session[s].status \notin {"reading", "complete"}
          /\ run[s].pc \in {"claim", "generate", "begin", "markFailed"} =>
                session[s].status # "ready"
          /\ run[s].pc \in {"contentSaved", "tokenize", "saveTokens", "tokenized", "tasks",
                            "rebuild", "restart"} /\ Exists(s) => session[s].content # 0

\* PreparingIsOwned, where no run is cut off: a run ends only after it has taken its
\* session out of preparation.
OwnedInv(s) == Faults = {} /\ ~IsUserAdded(s) =>
    /\ run[s].pc \in {"end", "return"} => ~Preparing(s)
    /\ job[s].state = "running" => ~At(s, "idle")
    /\ Preparing(s) => job[s].state # "none" \/ IsRunning(s) \/ request[s].pc = "start"

\* The sessions whose batches keep the reading marks: without a crash, a database
\* error or a retry of a session that is not in a batch.
Calm(s) == IsUserAdded(s) /\ Faults \subseteq {"timeout"} /\ "retry" \notin Requests

\* The session is in a batch, so nobody reads, completes or edits it.
InBatch(s) == session[s].status \in {"generating", "deleted"}

\* ReadingLifecyclePreserved: while a job, a run or a handler is at work the session
\* is in a batch, so the marks the run has read are those of the row.
ReadingInv(s) == Calm(s) =>
    /\ job[s].state = "running" => ~At(s, "idle")
    /\ run[s].pc \notin {"idle", "end"} => InBatch(s)
    /\ At(s, "end") /\ run[s].err => InBatch(s)
    /\ job[s].state = "queued" => InBatch(s)
    /\ request[s].pc = "start" =>
          /\ InBatch(s)
          /\ job[s].state # "queued"
          /\ At(s, "idle") \/ (At(s, "end") /\ ~run[s].err)
    /\ session[s].status # "failed"
    /\ At(s, "markFailed") => ~Live(s)
    /\ run[s].pc \in {"resume", "rebuild", "restart", "tasks"} /\ Exists(s) =>
          /\ run[s].seen.reading = session[s].reading
          /\ run[s].seen.completed = session[s].completed
    /\ Readable(s) => session[s].status = ReadableUserStoryStatus(session[s])

\* The generated sessions whose text is paid for once: a queue, no fault, nobody
\* begins to read.
Undisturbed == Durable /\ Faults = {} /\ "read" \notin Requests

\* ContentCheckpointKept: a run that may begin with the content finds none, and a
\* tokenization is complete only with the content it belongs to.
PaidInv(s) == Undisturbed /\ ~IsUserAdded(s) =>
    /\ session[s].status \notin {"reading", "complete"}
    /\ session[s].status = "pending" => session[s].content = 0
    /\ run[s].pc \in QueueLabels => session[s].status # "generating"
    /\ At(s, "claim") /\ run[s].seen.status # "failed" => ~ContentDone(s)
    /\ run[s].pc \in {"generate", "begin", "scope", "scopeCall", "select", "content"} =>
          ~ContentDone(s)
    /\ run[s].pc \in {"contentCall", "contentSaved"} => stage[s]["content"] # "complete"
    /\ run[s].pc \in {"tokenize", "saveTokens"} => stage[s]["tokenization"] # "complete"
    /\ run[s].pc \in {"tokenize", "saveTokens", "tokenized"} /\ Exists(s) =>
          session[s].content # 0 /\ stage[s]["content"] = "complete"
    /\ HasStory(s) /\ stage[s]["tokenization"] = "complete" => ContentDone(s)

\* All that is promised of a session.
Promised(s) ==
    /\ LifeInv(s) /\ WorkInv(s) /\ CheckpointInv(s) /\ ReadyInv(s)
    /\ ShownInv(s) /\ OwnedInv(s) /\ ReadingInv(s) /\ PaidInv(s)

(***************************************************************************)
(* What a step does to the rows and the run of its session.                *)
(***************************************************************************)
\* The part of IInv and of NothingOutlivesDeletion that is about one session.
Typed(s) ==
    /\ session[s] \in Row
    /\ stage[s] \in [Stages -> StageStatuses]
    /\ run[s] \in Run
    /\ job[s] \in Job
    /\ request[s] \in Request
    /\ JobInv(s) /\ ClaimInv(s) /\ UserRunInv(s) /\ RequestInv(s)
    /\ session[s].status = "deleted" => session[s].content = 0 /\ \A g \in Stages : stage[s][g] = "none"

\* It follows from them.
LEMMA SessionTyped ==
    ASSUME IInv, NothingOutlivesDeletion, NEW s \in Sessions
    PROVE  Typed(s)
  BY DEF IInv, NothingOutlivesDeletion, NoStages, StoreTypeOK, QueueInv, PipelineTypeOK, HandlerInv, Typed

\* The row of s is the same but for its status,
StatusSet(s, status) ==
    /\ session'[s] = [session[s] EXCEPT !.status = status]
    /\ stage'[s] = stage[s] /\ tokens'[s] = tokens[s] /\ tasks'[s] = tasks[s]

\* or but for one stage.
StageSet(s, g, status) ==
    /\ stage'[s] = [stage[s] EXCEPT ![g] = status]
    /\ session'[s] = session[s] /\ tokens'[s] = tokens[s] /\ tasks'[s] = tasks[s]

\* The run of s only moves.
LEMMA GotoRun ==
    ASSUME PipelineTypeOK, NEW s \in Sessions, NEW label, Goto(s, label)
    PROVE  run'[s] = [run[s] EXCEPT !.pc = label]
  BY DEF PipelineTypeOK, Run, Goto

\* It moves to the recording of its failure.
LEMMA FailRunRun ==
    ASSUME PipelineTypeOK, NEW s \in Sessions, FailRun(s)
    PROVE  run'[s] = [run[s] EXCEPT !.pc = "markFailed", !.err = TRUE]
  BY DEF PipelineTypeOK, Run, FailRun

\* It ends with an error.
LEMMA AbortRun ==
    ASSUME PipelineTypeOK, NEW s \in Sessions, Abort(s)
    PROVE  run'[s] = [run[s] EXCEPT !.pc = "end", !.err = TRUE] /\ RowKept(s)
  BY DEF PipelineTypeOK, Run, Abort, store, RowKept

\* One task type of it goes on.
LEMMA SetWorkRun ==
    ASSUME PipelineTypeOK, NEW s \in Sessions, NEW t \in TaskTypes, NEW w, SetWork(s, t, w)
    PROVE  /\ run'[s] = [run[s] EXCEPT !.work = [run[s].work EXCEPT ![t] = w]]
           /\ run[s].work \in [TaskTypes -> WorkStates]
  BY DEF PipelineTypeOK, Run, SetWork

\* A status is written.
LEMMA StatusRow ==
    ASSUME StoreTypeOK, NEW s \in Sessions, NEW status, UpdateSessionStatus(s, status)
    PROVE  StatusSet(s, status)
  BY DEF StoreTypeOK, UpdateSessionStatus, Row, StatusSet

\* A stage is written, or the write fails.
LEMMA StageRow ==
    ASSUME StoreTypeOK, NEW s \in Sessions, NEW g \in Stages, NEW status, WriteStage(s, g, status)
    PROVE  \/ DbWorks(s) /\ StageSet(s, g, status)
           \/ DbFails(s) /\ RowKept(s)
  BY DEF StoreTypeOK, WriteStage, UpsertStage, store, RowKept, StageSet

\* The vocabulary of the invariant is open in what follows; each leaf opens the rest.
USE DEF At, Exists, IsUserAdded, HasStory, DbWorks, DbFails, Live, ContentDone, Readable,
        Preparing, MadeFromText, TextStored, Spared, Shown, Calm, InBatch, Undisturbed,
        Typed, Run, Row, QueueLabels, PipelineLabels, IsRunning,
        GeneratingLabels, ResumeLabels, RunShape, Unborn, Brought, Ordered, Written, WorkDone,
        Checkpointed, LifeInv, WorkInv, CheckpointInv, ReadyInv, ShownInv, OwnedInv, ReadingInv, PaidInv

(***************************************************************************)
(* The steps of the pipeline.                                              *)
(***************************************************************************)
\* A step of the run of s, with what is known before it.
PipelineTurn(s) ==
    /\ Promised(s)
    /\ Typed(s) /\ StoreTypeOK /\ PipelineTypeOK
    /\ UNCHANGED <<job, active, request, used>>

\* A run whose statement is refused may end at once,
LEMMA AbortPromise ==
    ASSUME NEW s \in Sessions, PipelineTurn(s), DbFails(s), Abort(s),
           run[s].pc \in {"generate", "begin", "retry", "restart", "tasks"}
    PROVE  Promised(s)'
<1>. USE DEF PipelineTurn
<1>1. RowKept(s) /\ run'[s] = [run[s] EXCEPT !.pc = "end", !.err = TRUE]
  BY AbortRun
<1>20. LifeInv(s)'
  BY <1>1 DEF Promised, RowKept
<1>21. WorkInv(s)'
  BY <1>1 DEF Promised, RowKept
<1>22. CheckpointInv(s)'
  BY <1>1 DEF Promised, RowKept
<1>23. ReadyInv(s)'
  BY <1>1 DEF Promised, RowKept
<1>24. ShownInv(s)'
  BY <1>1 DEF Promised, RowKept
<1>25. OwnedInv(s)'
  BY <1>1 DEF Promised, RowKept
<1>26. ReadingInv(s)'
  BY <1>1 DEF Promised, RowKept
<1>27. PaidInv(s)'
  BY <1>1 DEF Promised, RowKept
<1>. QED  BY <1>20, <1>21, <1>22, <1>23, <1>24, <1>25, <1>26, <1>27 DEF Promised

\* or go on to record its failure.
LEMMA FailRunPromise ==
    ASSUME NEW s \in Sessions, PipelineTurn(s), RowKept(s), FailRun(s),
           \/ DbFails(s) /\ run[s].pc \in {"select", "resume", "rebuild"}
           \/ IsUserAdded(s) /\ At(s, "resume") /\ ~ContentDone(s)
    PROVE  Promised(s)'
<1>. USE DEF PipelineTurn
<1>1. run'[s] = [run[s] EXCEPT !.pc = "markFailed", !.err = TRUE]
  BY FailRunRun
<1>20. LifeInv(s)'
  BY <1>1 DEF Promised, RowKept
<1>21. WorkInv(s)'
  BY <1>1 DEF Promised, RowKept
<1>22. CheckpointInv(s)'
  BY <1>1 DEF Promised, RowKept
<1>23. ReadyInv(s)'
  BY <1>1 DEF Promised, RowKept
<1>24. ShownInv(s)'
  BY <1>1 DEF Promised, RowKept
<1>25. OwnedInv(s)'
  BY <1>1 DEF Promised, RowKept
<1>26. ReadingInv(s)'
  BY <1>1 DEF Promised, RowKept
<1>27. PaidInv(s)'
  BY <1>1 DEF Promised, RowKept
<1>. QED  BY <1>20, <1>21, <1>22, <1>23, <1>24, <1>25, <1>26, <1>27 DEF Promised

\* Generate starts a run,
LEMMA GeneratePromise ==
    ASSUME NEW s \in Sessions, PipelineTurn(s), Generate(s)
    PROVE  Promised(s)'
<1>. USE DEF PipelineTurn
<1>1. At(s, "generate")
  BY DEF Generate
<1>2. CASE DbWorks(s) /\ Goto(s, IF IsUserAdded(s) THEN "retry" ELSE "begin") /\ UNCHANGED store
  <2>1. RowKept(s) /\ run'[s] = [run[s] EXCEPT !.pc = IF IsUserAdded(s) THEN "retry" ELSE "begin"]
    BY <1>2, GotoRun DEF store, RowKept
  <2>20. LifeInv(s)'
    BY <1>1, <1>2, <2>1 DEF Promised, RowKept
  <2>21. WorkInv(s)'
    BY <1>1, <1>2, <2>1 DEF Promised, RowKept
  <2>22. CheckpointInv(s)'
    BY <1>1, <1>2, <2>1 DEF Promised, RowKept
  <2>23. ReadyInv(s)'
    BY <1>1, <1>2, <2>1 DEF Promised, RowKept
  <2>24. ShownInv(s)'
    BY <1>1, <1>2, <2>1 DEF Promised, RowKept
  <2>25. OwnedInv(s)'
    BY <1>1, <1>2, <2>1 DEF Promised, RowKept
  <2>26. ReadingInv(s)'
    BY <1>1, <1>2, <2>1 DEF Promised, RowKept
  <2>27. PaidInv(s)'
    BY <1>1, <1>2, <2>1 DEF Promised, RowKept
  <2>. QED  BY <2>20, <2>21, <2>22, <2>23, <2>24, <2>25, <2>26, <2>27 DEF Promised
<1>3. CASE DbFails(s) /\ Abort(s)
  BY <1>1, <1>3, AbortPromise
<1>. QED  BY <1>2, <1>3 DEF Generate

\* marks its session,
LEMMA BeginGeneratingPromise ==
    ASSUME NEW s \in Sessions, PipelineTurn(s), BeginGenerating(s)
    PROVE  Promised(s)'
<1>. USE DEF PipelineTurn, UserRunInv, ContentLabels
<1>1. At(s, "begin")
  BY DEF BeginGenerating
<1>2. CASE /\ DbWorks(s)
           /\ UpdateSessionStatus(s, "generating")
           /\ Goto(s, IF Kind[s] = "topic_guided" THEN "scope" ELSE "select")
  <2>1. /\ StatusSet(s, "generating")
        /\ run'[s] = [run[s] EXCEPT !.pc = IF Kind[s] = "topic_guided" THEN "scope" ELSE "select"]
    BY <1>2, GotoRun, StatusRow
  <2>. QED  BY <1>1, <1>2, <2>1 DEF Promised, StatusSet
<1>3. CASE DbFails(s) /\ Abort(s)
  BY <1>1, <1>3, AbortPromise
<1>. QED  BY <1>2, <1>3 DEF BeginGenerating

\* begins a stage: the content stage is open from then on,
LEMMA BeginStagePromise ==
    ASSUME NEW s \in Sessions, PipelineTurn(s), BeginStage(s)
    PROVE  Promised(s)'
<1>. USE TaskTypesAssumption DEF PipelineTurn, BeginStageOf, UserRunInv, ContentLabels, Stages
<1>1. CASE BeginStageOf(s, "scope", "scope_check", "scopeCall")
  <2>1. /\ (DbWorks(s) /\ StageSet(s, "scope_check", "in_progress")) \/ (DbFails(s) /\ RowKept(s))
        /\ run'[s] = [run[s] EXCEPT !.pc = "scopeCall"]
    BY <1>1, GotoRun, StageRow
  <2>. QED  BY <1>1, <2>1 DEF Promised, RowKept, StageSet
<1>2. CASE BeginStageOf(s, "content", "content", "contentCall")
  <2>1. /\ (DbWorks(s) /\ StageSet(s, "content", "in_progress")) \/ (DbFails(s) /\ RowKept(s))
        /\ run'[s] = [run[s] EXCEPT !.pc = "contentCall"]
    BY <1>2, GotoRun, StageRow
  <2>20. LifeInv(s)'
    BY <1>2, <2>1 DEF Promised, RowKept, StageSet
  <2>21. WorkInv(s)'
    BY <1>2, <2>1 DEF Promised, RowKept, StageSet
  <2>22. CheckpointInv(s)'
    BY <1>2, <2>1 DEF Promised, RowKept, StageSet
  <2>23. ReadyInv(s)'
    BY <1>2, <2>1 DEF Promised, RowKept, StageSet
  <2>24. ShownInv(s)'
    BY <1>2, <2>1 DEF Promised, RowKept, StageSet
  <2>25. OwnedInv(s)'
    BY <1>2, <2>1 DEF Promised, RowKept, StageSet
  <2>26. ReadingInv(s)'
    BY <1>2, <2>1 DEF Promised, RowKept, StageSet
  <2>27. PaidInv(s)'
    BY <1>2, <2>1 DEF Promised, RowKept, StageSet
  <2>. QED  BY <2>20, <2>21, <2>22, <2>23, <2>24, <2>25, <2>26, <2>27 DEF Promised
<1>3. CASE BeginStageOf(s, "tokenize", "tokenization", "saveTokens")
  <2>1. /\ (DbWorks(s) /\ StageSet(s, "tokenization", "in_progress")) \/ (DbFails(s) /\ RowKept(s))
        /\ run'[s] = [run[s] EXCEPT !.pc = "saveTokens"]
    BY <1>3, GotoRun, StageRow
  <2>. QED  BY <1>3, <2>1 DEF Promised, RowKept, StageSet
<1>. QED  BY <1>1, <1>2, <1>3 DEF BeginStage

\* fails in one,
LEMMA FailStagePromise ==
    ASSUME NEW s \in Sessions, PipelineTurn(s), FailStage(s)
    PROVE  Promised(s)'
<1>. USE TaskTypesAssumption DEF PipelineTurn, FailStageOf, UserRunInv, ContentLabels, Stages
<1>1. CASE FailStageOf(s, "scopeCall", "scope_check")
  <2>1. /\ (DbWorks(s) /\ StageSet(s, "scope_check", "failed")) \/ (DbFails(s) /\ RowKept(s))
        /\ run'[s] = [run[s] EXCEPT !.pc = "markFailed", !.err = TRUE]
    BY <1>1, FailRunRun, StageRow
  <2>. QED  BY <1>1, <2>1 DEF Promised, RowKept, StageSet
<1>2. CASE FailStageOf(s, "contentCall", "content")
  <2>1. /\ (DbWorks(s) /\ StageSet(s, "content", "failed")) \/ (DbFails(s) /\ RowKept(s))
        /\ run'[s] = [run[s] EXCEPT !.pc = "markFailed", !.err = TRUE]
    BY <1>2, FailRunRun, StageRow
  <2>. QED  BY <1>2, <2>1 DEF Promised, RowKept, StageSet
<1>3. CASE FailStageOf(s, "saveTokens", "tokenization") /\ DbFails(s)
  <2>1. /\ (DbWorks(s) /\ StageSet(s, "tokenization", "failed")) \/ (DbFails(s) /\ RowKept(s))
        /\ run'[s] = [run[s] EXCEPT !.pc = "markFailed", !.err = TRUE]
    BY <1>3, FailRunRun, StageRow
  <2>20. LifeInv(s)'
    BY <1>3, <2>1 DEF Promised, RowKept, StageSet
  <2>21. WorkInv(s)'
    BY <1>3, <2>1 DEF Promised, RowKept, StageSet
  <2>22. CheckpointInv(s)'
    BY <1>3, <2>1 DEF Promised, RowKept, StageSet
  <2>23. ReadyInv(s)'
    BY <1>3, <2>1 DEF Promised, RowKept, StageSet
  <2>24. ShownInv(s)'
    BY <1>3, <2>1 DEF Promised, RowKept, StageSet
  <2>25. OwnedInv(s)'
    BY <1>3, <2>1 DEF Promised, RowKept, StageSet
  <2>26. ReadingInv(s)'
    BY <1>3, <2>1 DEF Promised, RowKept, StageSet
  <2>27. PaidInv(s)'
    BY <1>3, <2>1 DEF Promised, RowKept, StageSet
  <2>. QED  BY <2>20, <2>21, <2>22, <2>23, <2>24, <2>25, <2>26, <2>27 DEF Promised
<1>. QED  BY <1>1, <1>2, <1>3 DEF FailStage

\* completes the scope check,
LEMMA CompleteScopeCheckPromise ==
    ASSUME NEW s \in Sessions, PipelineTurn(s), CompleteScopeCheck(s)
    PROVE  Promised(s)'
<1>. USE TaskTypesAssumption DEF PipelineTurn, CompleteScopeCheck, UserRunInv, ContentLabels, Stages
<1>1. /\ (DbWorks(s) /\ StageSet(s, "scope_check", "complete")) \/ (DbFails(s) /\ RowKept(s))
      /\ run'[s] = [run[s] EXCEPT !.pc = "select"]
  BY GotoRun, StageRow
<1>. QED  BY <1>1 DEF Promised, RowKept, StageSet

\* selects,
LEMMA SelectPromise ==
    ASSUME NEW s \in Sessions, PipelineTurn(s), Select(s)
    PROVE  Promised(s)'
<1>. USE DEF PipelineTurn
<1>1. At(s, "select") /\ RowKept(s)
  BY DEF Select, store, RowKept
<1>2. CASE DbWorks(s) /\ Goto(s, "content")
  <2>1. DbWorks(s) /\ run'[s] = [run[s] EXCEPT !.pc = "content"]
    BY <1>2, GotoRun
  <2>. QED  BY <1>1, <2>1 DEF UserRunInv, ContentLabels, Promised, RowKept
<1>3. CASE DbFails(s) /\ FailRun(s)
  BY <1>1, <1>3, FailRunPromise
<1>. QED  BY <1>2, <1>3 DEF Select

\* stores the text,
LEMMA StoreContentPromise ==
    ASSUME NEW s \in Sessions, PipelineTurn(s), StoreContent(s)
    PROVE  Promised(s)'
<1>. USE DEF PipelineTurn
<1>1. /\ At(s, "contentCall") /\ DbWorks(s)
      /\ session[s].content \in Nat /\ session[s].content + 1 \in Nat \ {0}
  BY RevisionAssumption DEF StoreContent, Revisions
<1>2. /\ session'[s] = [session[s] EXCEPT !.content = session[s].content + 1]
      /\ stage'[s] = stage[s] /\ tokens'[s] = tokens[s] /\ tasks'[s] = tasks[s]
      /\ run'[s] = [run[s] EXCEPT !.pc = "contentSaved", !.source = session[s].content + 1]
  BY DEF StoreContent, SaveContent, StoreTypeOK, PipelineTypeOK
<1>20. LifeInv(s)'
  BY <1>1, <1>2 DEF UserRunInv, ContentLabels, Promised
<1>21. WorkInv(s)'
  BY <1>1, <1>2 DEF UserRunInv, ContentLabels, Promised
<1>22. CheckpointInv(s)'
  BY <1>1, <1>2 DEF UserRunInv, ContentLabels, Promised
<1>23. ReadyInv(s)'
  BY <1>1, <1>2 DEF UserRunInv, ContentLabels, Promised
<1>24. ShownInv(s)'
  BY <1>1, <1>2 DEF UserRunInv, ContentLabels, Promised
<1>25. OwnedInv(s)'
  BY <1>1, <1>2 DEF UserRunInv, ContentLabels, Promised
<1>26. ReadingInv(s)'
  BY <1>1, <1>2 DEF UserRunInv, ContentLabels, Promised
<1>27. PaidInv(s)'
  BY <1>1, <1>2 DEF UserRunInv, ContentLabels, Promised
<1>. QED  BY <1>20, <1>21, <1>22, <1>23, <1>24, <1>25, <1>26, <1>27 DEF Promised

\* completes the content,
LEMMA CompleteContentPromise ==
    ASSUME NEW s \in Sessions, PipelineTurn(s), CompleteContent(s)
    PROVE  Promised(s)'
<1>. USE TaskTypesAssumption DEF PipelineTurn, CompleteContent, UserRunInv, ContentLabels, Stages
<1>1. (DbWorks(s) /\ StageSet(s, "content", "complete")) \/ (DbFails(s) /\ RowKept(s))
  BY StageRow
<1>2. CASE HasStory(s)
  <2>1. run'[s] = [run[s] EXCEPT !.pc = "tokenize"]
    BY <1>2, GotoRun
  <2>. QED  BY <1>1, <1>2, <2>1 DEF Promised, RowKept, StageSet
<1>3. CASE ~HasStory(s)
  <2>1. run'[s] = [run[s] EXCEPT !.pc = "tasks", !.work = AllTasks]
    BY <1>3 DEF PipelineTypeOK
  <2>. QED  BY <1>1, <1>3, <2>1 DEF AllTasks, Promised, RowKept, StageSet
<1>. QED  BY <1>2, <1>3

\* stores the tokens,
LEMMA SaveTokensPromise ==
    ASSUME NEW s \in Sessions, PipelineTurn(s), SaveTokens(s)
    PROVE  Promised(s)'
<1>. USE DEF PipelineTurn, SaveTokens, UserRunInv, ContentLabels
<1>1. /\ tokens'[s] = session[s].content
      /\ session'[s] = session[s] /\ stage'[s] = stage[s] /\ tasks'[s] = tasks[s]
      /\ run'[s] = [run[s] EXCEPT !.pc = "tokenized"]
  BY GotoRun DEF ReplaceStoryTokens, StoreTypeOK
<1>. QED  BY <1>1 DEF Promised

\* and completes the tokenization.
LEMMA CompleteTokenizationPromise ==
    ASSUME NEW s \in Sessions, PipelineTurn(s), CompleteTokenization(s)
    PROVE  Promised(s)'
<1>. USE DEF PipelineTurn
<1>1. At(s, "tokenized") /\ "tokenization" \notin TaskTypes /\ "tokenization" \in Stages
  BY TaskTypesAssumption DEF CompleteTokenization, Stages
<1>2. /\ (DbWorks(s) /\ StageSet(s, "tokenization", "complete")) \/ (DbFails(s) /\ RowKept(s))
      /\ run'[s] = [run[s] EXCEPT !.pc = "tasks", !.work = AllTasks]
  BY <1>1, StageRow DEF CompleteTokenization, PipelineTypeOK
<1>20. LifeInv(s)'
  BY <1>1, <1>2 DEF AllTasks, UserRunInv, ContentLabels, Stages, Promised, RowKept, StageSet
<1>21. WorkInv(s)'
  BY <1>1, <1>2 DEF AllTasks, UserRunInv, ContentLabels, Stages, Promised, RowKept, StageSet
<1>22. CheckpointInv(s)'
  BY <1>1, <1>2 DEF AllTasks, UserRunInv, ContentLabels, Stages, Promised, RowKept, StageSet
<1>23. ReadyInv(s)'
  BY <1>1, <1>2 DEF AllTasks, UserRunInv, ContentLabels, Stages, Promised, RowKept, StageSet
<1>24. ShownInv(s)'
  BY <1>1, <1>2 DEF AllTasks, UserRunInv, ContentLabels, Stages, Promised, RowKept, StageSet
<1>25. OwnedInv(s)'
  BY <1>1, <1>2 DEF AllTasks, UserRunInv, ContentLabels, Stages, Promised, RowKept, StageSet
<1>26. ReadingInv(s)'
  BY <1>1, <1>2 DEF AllTasks, UserRunInv, ContentLabels, Stages, Promised, RowKept, StageSet
<1>27. PaidInv(s)'
  BY <1>1, <1>2 DEF AllTasks, UserRunInv, ContentLabels, Stages, Promised, RowKept, StageSet
<1>. QED  BY <1>20, <1>21, <1>22, <1>23, <1>24, <1>25, <1>26, <1>27 DEF Promised

\* Retry reads the row,
LEMMA RetryPromise ==
    ASSUME NEW s \in Sessions, PipelineTurn(s), Retry(s)
    PROVE  Promised(s)'
<1>. USE DEF PipelineTurn
<1>1. At(s, "retry")
  BY DEF Retry
<1>2. CASE DbWorks(s) /\ run' = [run EXCEPT ![s].pc = "resume", ![s].seen = session[s]] /\ UNCHANGED store
  <2>1. DbWorks(s) /\ RowKept(s) /\ run'[s] = [run[s] EXCEPT !.pc = "resume", !.seen = session[s]]
    BY <1>2 DEF PipelineTypeOK, store, RowKept
  <2>20. LifeInv(s)'
    BY <1>1, <2>1 DEF Promised, RowKept
  <2>21. WorkInv(s)'
    BY <1>1, <2>1 DEF Promised, RowKept
  <2>22. CheckpointInv(s)'
    BY <1>1, <2>1 DEF Promised, RowKept
  <2>23. ReadyInv(s)'
    BY <1>1, <2>1 DEF Promised, RowKept
  <2>24. ShownInv(s)'
    BY <1>1, <2>1 DEF Promised, RowKept
  <2>25. OwnedInv(s)'
    BY <1>1, <2>1 DEF Promised, RowKept
  <2>26. ReadingInv(s)'
    BY <1>1, <2>1 DEF Promised, RowKept
  <2>27. PaidInv(s)'
    BY <1>1, <2>1 DEF Promised, RowKept
  <2>. QED  BY <2>20, <2>21, <2>22, <2>23, <2>24, <2>25, <2>26, <2>27 DEF Promised
<1>3. CASE DbFails(s) /\ Abort(s)
  BY <1>1, <1>3, AbortPromise
<1>. QED  BY <1>2, <1>3 DEF Retry

\* goes on with the stages that are not complete or from the start,
LEMMA ResumePromise ==
    ASSUME NEW s \in Sessions, PipelineTurn(s), Resume(s)
    PROVE  Promised(s)'
<1>. USE DEF PipelineTurn
<1>1. At(s, "resume") /\ RowKept(s)
  BY DEF Resume, store, RowKept
<1>2. CASE DbWorks(s) /\ ContentDone(s) /\ run' = [run EXCEPT
                ![s].pc = "rebuild",
                ![s].source = IF run[s].seen.excerpt # 0 THEN run[s].seen.excerpt
                                                         ELSE session[s].content,
                ![s].work = [t \in TaskTypes |->
                    IF stage[s][t] = "complete" THEN "skip" ELSE "todo"]]
  <2>. DEFINE source == IF run[s].seen.excerpt # 0 THEN run[s].seen.excerpt ELSE session[s].content
              work == [t \in TaskTypes |-> IF stage[s][t] = "complete" THEN "skip" ELSE "todo"]
  <2>1. /\ DbWorks(s) /\ ContentDone(s)
        /\ run'[s] = [run[s] EXCEPT !.pc = "rebuild", !.source = source, !.work = work]
    BY <1>2 DEF PipelineTypeOK
  <2>20. LifeInv(s)'
    BY <1>1, <2>1 DEF Promised, RowKept
  <2>21. WorkInv(s)'
    BY <1>1, <2>1 DEF Promised, RowKept
  <2>22. CheckpointInv(s)'
    BY <1>1, <2>1 DEF Promised, RowKept
  <2>23. ReadyInv(s)'
    BY ZenonT(30), <1>1, <2>1 DEF Promised, RowKept
  <2>24. ShownInv(s)'
    BY <1>1, <2>1 DEF Promised, RowKept
  <2>25. OwnedInv(s)'
    BY <1>1, <2>1 DEF Promised, RowKept
  <2>26. ReadingInv(s)'
    BY <1>1, <2>1 DEF Promised, RowKept
  <2>27. PaidInv(s)'
    BY <1>1, <2>1 DEF Promised, RowKept
  <2>. QED  BY <2>20, <2>21, <2>22, <2>23, <2>24, <2>25, <2>26, <2>27 DEF Promised
<1>3. CASE (~ContentDone(s) \/ DbFails(s)) /\ IsUserAdded(s) /\ FailRun(s)
  BY <1>1, <1>3, FailRunPromise
<1>4. CASE (~ContentDone(s) \/ DbFails(s)) /\ ~IsUserAdded(s) /\ Goto(s, "generate")
  <2>1. ~IsUserAdded(s) /\ (~ContentDone(s) \/ DbFails(s)) /\ run'[s] = [run[s] EXCEPT !.pc = "generate"]
    BY <1>4, GotoRun
  <2>20. LifeInv(s)'
    BY <1>1, <2>1 DEF Promised, RowKept
  <2>21. WorkInv(s)'
    BY <1>1, <2>1 DEF Promised, RowKept
  <2>22. CheckpointInv(s)'
    BY <1>1, <2>1 DEF Promised, RowKept
  <2>23. ReadyInv(s)'
    BY <1>1, <2>1 DEF Promised, RowKept
  <2>24. ShownInv(s)'
    BY <1>1, <2>1 DEF Promised, RowKept
  <2>25. OwnedInv(s)'
    BY <1>1, <2>1 DEF Promised, RowKept
  <2>26. ReadingInv(s)'
    BY <1>1, <2>1 DEF Promised, RowKept
  <2>27. PaidInv(s)'
    BY <1>1, <2>1 DEF Promised, RowKept
  <2>. QED  BY <2>20, <2>21, <2>22, <2>23, <2>24, <2>25, <2>26, <2>27 DEF Promised
<1>. QED  BY <1>2, <1>3, <1>4 DEF Resume

\* rebuilds the context of the tasks,
LEMMA RebuildTaskContextPromise ==
    ASSUME NEW s \in Sessions, PipelineTurn(s), RebuildTaskContext(s)
    PROVE  Promised(s)'
<1>. USE DEF PipelineTurn
<1>1. At(s, "rebuild") /\ RowKept(s)
  BY DEF RebuildTaskContext, store, RowKept
<1>2. CASE DbWorks(s) /\ Goto(s, "restart")
  <2>1. DbWorks(s) /\ run'[s] = [run[s] EXCEPT !.pc = "restart"]
    BY <1>2, GotoRun
  <2>20. LifeInv(s)'
    BY <1>1, <2>1 DEF Promised, RowKept
  <2>21. WorkInv(s)'
    BY <1>1, <2>1 DEF Promised, RowKept
  <2>22. CheckpointInv(s)'
    BY <1>1, <2>1 DEF Promised, RowKept
  <2>23. ReadyInv(s)'
    BY <1>1, <2>1 DEF Promised, RowKept
  <2>24. ShownInv(s)'
    BY <1>1, <2>1 DEF Promised, RowKept
  <2>25. OwnedInv(s)'
    BY <1>1, <2>1 DEF Promised, RowKept
  <2>26. ReadingInv(s)'
    BY <1>1, <2>1 DEF Promised, RowKept
  <2>27. PaidInv(s)'
    BY <1>1, <2>1 DEF Promised, RowKept
  <2>. QED  BY <2>20, <2>21, <2>22, <2>23, <2>24, <2>25, <2>26, <2>27 DEF Promised
<1>3. CASE DbFails(s) /\ FailRun(s)
  BY <1>1, <1>3, FailRunPromise
<1>. QED  BY <1>2, <1>3 DEF RebuildTaskContext

\* and marks the session again.
LEMMA RestartTasksPromise ==
    ASSUME NEW s \in Sessions, PipelineTurn(s), RestartTasks(s)
    PROVE  Promised(s)'
<1>. USE DEF PipelineTurn
<1>1. At(s, "restart")
  BY DEF RestartTasks
<1>2. CASE /\ DbWorks(s)
           /\ UpdateSessionStatus(s, "generating")
           /\ run' = [run EXCEPT ![s].pc = "tasks", ![s].resumed = TRUE]
  <2>1. /\ DbWorks(s) /\ StatusSet(s, "generating")
        /\ run'[s] = [run[s] EXCEPT !.pc = "tasks", !.resumed = TRUE]
    BY <1>2, StatusRow DEF PipelineTypeOK
  <2>20. LifeInv(s)'
    BY <1>1, <2>1 DEF Promised, StatusSet
  <2>21. WorkInv(s)'
    BY <1>1, <2>1 DEF Promised, StatusSet
  <2>22. CheckpointInv(s)'
    BY <1>1, <2>1 DEF Promised, StatusSet
  <2>23. ReadyInv(s)'
    BY <1>1, <2>1 DEF Promised, StatusSet
  <2>24. ShownInv(s)'
    BY <1>1, <2>1 DEF Promised, StatusSet
  <2>25. OwnedInv(s)'
    BY <1>1, <2>1 DEF Promised, StatusSet
  <2>26. ReadingInv(s)'
    BY <1>1, <2>1 DEF Promised, StatusSet
  <2>27. PaidInv(s)'
    BY <1>1, <2>1 DEF Promised, StatusSet
  <2>. QED  BY <2>20, <2>21, <2>22, <2>23, <2>24, <2>25, <2>26, <2>27 DEF Promised
<1>3. CASE DbFails(s) /\ Abort(s)
  BY <1>1, <1>3, AbortPromise
<1>. QED  BY <1>2, <1>3 DEF RestartTasks

\* A task type begins,
LEMMA BeginTaskTypePromise ==
    ASSUME NEW s \in Sessions, PipelineTurn(s), NEW t \in TaskTypes, BeginTaskType(s, t)
    PROVE  Promised(s)'
<1>. USE TaskTypesAssumption DEF PipelineTurn, BeginTaskType, Stages
<1>1. /\ (DbWorks(s) /\ StageSet(s, t, "in_progress")) \/ (DbFails(s) /\ RowKept(s))
      /\ run'[s] = [run[s] EXCEPT !.work = [run[s].work EXCEPT ![t] = "call"]]
  BY SetWorkRun, StageRow
<1>. QED  BY <1>1 DEF Promised, RowKept, StageSet

\* stores its rows,
LEMMA CreateTaskRowsPromise ==
    ASSUME NEW s \in Sessions, PipelineTurn(s), NEW t \in TaskTypes, CreateTaskRows(s, t)
    PROVE  Promised(s)'
<1>. USE DEF PipelineTurn, CreateTaskRows
<1>1. /\ tasks'[s] = tasks[s] \cup {<<t, run[s].source>>}
      /\ session'[s] = session[s] /\ stage'[s] = stage[s] /\ tokens'[s] = tokens[s]
      /\ run'[s] = [run[s] EXCEPT !.work = [run[s].work EXCEPT ![t] = "rows"]]
  BY SetWorkRun DEF CreateTask, StoreTypeOK
<1>. QED  BY <1>1 DEF Promised

\* fails,
LEMMA FailTaskTypePromise ==
    ASSUME NEW s \in Sessions, PipelineTurn(s), NEW t \in TaskTypes, FailTaskType(s, t)
    PROVE  Promised(s)'
<1>. USE TaskTypesAssumption DEF PipelineTurn, FailTaskType, Stages
<1>1. /\ (DbWorks(s) /\ StageSet(s, t, "failed")) \/ (DbFails(s) /\ RowKept(s))
      /\ run'[s] = [run[s] EXCEPT !.work = [run[s].work EXCEPT ![t] = "err"]]
  BY SetWorkRun, StageRow
<1>. QED  BY <1>1 DEF Promised, RowKept, StageSet

\* or is completed.
LEMMA CompleteTaskTypePromise ==
    ASSUME NEW s \in Sessions, PipelineTurn(s), NEW t \in TaskTypes, CompleteTaskType(s, t)
    PROVE  Promised(s)'
<1>. USE TaskTypesAssumption DEF PipelineTurn, CompleteTaskType, Stages
<1>1. /\ (DbWorks(s) /\ StageSet(s, t, "complete")) \/ (DbFails(s) /\ RowKept(s))
      /\ run'[s] = [run[s] EXCEPT !.work = [run[s].work EXCEPT ![t] = "ok"]]
  BY SetWorkRun, StageRow
<1>. QED  BY <1>1 DEF Promised, RowKept, StageSet

\* The end of a run that has its tasks: every type is done or failed,
LEMMA FinishTasksPromise ==
    ASSUME NEW s \in Sessions, PipelineTurn(s), FinishTasks(s)
    PROVE  Promised(s)'
<1>. USE DEF PipelineTurn
<1>1. At(s, "tasks") /\ \A t \in TaskTypes : run[s].work[t] \in {"skip", "ok", "err"}
  BY DEF FinishTasks
<1>2. CASE /\ DbWorks(s)
           /\ \E completed \in {CompletedTasks(s)} \cup
                               (IF run[s].resumed /\ DbFails(s) THEN {{}} ELSE {}) :
                  UpdateSessionStatus(s, FinalStatus(s, completed))
           /\ Goto(s, "end")
  <2>1. PICK completed \in {CompletedTasks(s)} \cup
                           (IF run[s].resumed /\ DbFails(s) THEN {{}} ELSE {}) :
               UpdateSessionStatus(s, FinalStatus(s, completed))
    BY <1>2
  <2>4. completed = CompletedTasks(s) \/ (run[s].resumed /\ DbFails(s) /\ completed = {})
    BY <2>1
  <2>2. /\ DbWorks(s) /\ StatusSet(s, FinalStatus(s, completed))
        /\ run'[s] = [run[s] EXCEPT !.pc = "end"]
    BY <1>2, <2>1, GotoRun, StatusRow
  <2>3. FinalStatus(s, completed) \in {"ready", "reading", "complete", "failed"}
    BY DEF FinalStatus, ReadableUserStoryStatus
  <2>20. LifeInv(s)'
    BY <1>1, <2>2, <2>3, <2>4 DEF FinalStatus, CompletedTasks, ReadableUserStoryStatus, Promised, StatusSet
  <2>21. WorkInv(s)'
    BY <1>1, <2>2, <2>3, <2>4 DEF FinalStatus, CompletedTasks, ReadableUserStoryStatus, Promised, StatusSet
  <2>22. CheckpointInv(s)'
    BY <1>1, <2>2, <2>3, <2>4 DEF FinalStatus, CompletedTasks, ReadableUserStoryStatus, Promised, StatusSet
  <2>23. ReadyInv(s)'
    <3>. SUFFICES ASSUME Spared(s), ~IsUserAdded(s), Readable(s)' PROVE ReadyInv(s)'
      OBVIOUS
    <3>1. PICK t \in TaskTypes : t \in completed
      BY <1>1, <2>2, <2>3, <2>4 DEF FinalStatus, CompletedTasks, Promised, StatusSet
    <3>2. TextStored(s) /\ (HasStory(s) => tokens[s] = session[s].content) /\ WorkDone(s, t)
      BY <1>1, <2>2 DEF Promised
    <3>3. stage[s][t] = "complete" /\ MadeFromText(s, t)
      BY <1>1, <2>4, <3>1, <3>2 DEF CompletedTasks
    <3>. QED  BY <2>2, <3>2, <3>3 DEF StatusSet
  <2>24. ShownInv(s)'
    BY <1>1, <2>2, <2>3, <2>4 DEF FinalStatus, CompletedTasks, ReadableUserStoryStatus, Promised, StatusSet
  <2>25. OwnedInv(s)'
    BY <1>1, <2>2, <2>3, <2>4 DEF FinalStatus, CompletedTasks, ReadableUserStoryStatus, Promised, StatusSet
  <2>26. ReadingInv(s)'
    <3>. SUFFICES ASSUME Calm(s) PROVE ReadingInv(s)'
      OBVIOUS
    <3>1. FinalStatus(s, completed) = ReadableUserStoryStatus(session[s])
      BY <1>1, <2>2 DEF FinalStatus, ReadableUserStoryStatus, Promised
    <3>2. ReadableUserStoryStatus(session[s])' = ReadableUserStoryStatus(session[s])
      BY <2>2 DEF ReadableUserStoryStatus, StatusSet
    <3>3. session'[s].status = ReadableUserStoryStatus(session[s])
      BY <2>2, <3>1 DEF StatusSet
    <3>4. session'[s].status = ReadableUserStoryStatus(session[s])'
      BY <3>2, <3>3
    <3>5. session'[s].status \notin {"failed", "generating", "deleted"}
      BY <3>3 DEF ReadableUserStoryStatus
    <3>6. run'[s].pc = "end" /\ ~run'[s].err /\ job[s].state # "queued" /\ request[s].pc # "start"
      BY <1>1, <2>2 DEF JobInv, Promised
    <3>. QED  BY <3>4, <3>5, <3>6 DEF Promised
  <2>27. PaidInv(s)'
    BY <1>1, <2>2, <2>3, <2>4 DEF FinalStatus, CompletedTasks, ReadableUserStoryStatus, Promised, StatusSet
  <2>. QED  BY <2>20, <2>21, <2>22, <2>23, <2>24, <2>25, <2>26, <2>27 DEF Promised
<1>3. CASE DbFails(s) /\ Abort(s)
  BY <1>1, <1>3, AbortPromise
<1>. QED  BY <1>2, <1>3 DEF FinishTasks

\* and of one that failed.
LEMMA MarkFailedPromise ==
    ASSUME NEW s \in Sessions, PipelineTurn(s), MarkFailed(s)
    PROVE  Promised(s)'
<1>. USE DEF PipelineTurn, MarkFailed
<1>1. run'[s] = [run[s] EXCEPT !.pc = "end"]
  BY GotoRun
<1>2. CASE DbWorks(s) /\ UpdateSessionStatus(s, "failed")
  <2>1. StatusSet(s, "failed")
    BY <1>2, StatusRow
  <2>. QED  BY <1>1, <1>2, <2>1 DEF Promised, RowKept, StatusSet
<1>3. CASE DbFails(s) /\ UNCHANGED store
  <2>1. RowKept(s)
    BY <1>3 DEF store, RowKept
  <2>. QED  BY <1>1, <1>3, <2>1 DEF Promised, RowKept, StatusSet
<1>. QED  BY <1>2, <1>3

\* Every step of the pipeline keeps what is promised.
LEMMA PipelinePromise ==
    ASSUME NEW s \in Sessions, PipelineTurn(s), PipelineStep(s)
    PROVE  Promised(s)'
  BY GeneratePromise, BeginGeneratingPromise, BeginStagePromise, FailStagePromise,
     CompleteScopeCheckPromise, SelectPromise, StoreContentPromise, CompleteContentPromise,
     SaveTokensPromise, CompleteTokenizationPromise, RetryPromise, ResumePromise,
     RebuildTaskContextPromise, RestartTasksPromise, FinishTasksPromise, MarkFailedPromise,
     BeginTaskTypePromise, CreateTaskRowsPromise, FailTaskTypePromise, CompleteTaskTypePromise
     DEF PipelineStep

(***************************************************************************)
(* The steps of the learner, of the handlers and of the queue.             *)
(***************************************************************************)
\* What is known of a session before a step.
Turn(s) == Promised(s) /\ Typed(s) /\ IInv

\* Ordering a session,
LEMMA GenerateSessionPromise ==
    ASSUME NEW s \in Sessions, Turn(s), GenerateSession(s)
    PROVE  Promised(s)'
<1>. USE DEF Turn
<1>1. /\ ~IsUserAdded(s) /\ session[s].status = "none"
      /\ StatusSet(s, "pending")
      /\ run'[s] = run[s]
  BY DEF GenerateSession, CreateSession, Enqueue, StatusSet, IInv, StoreTypeOK
<1>2. \/ job'[s].state = "queued" /\ request'[s] = request[s]
      \/ ~Durable /\ job'[s] = job[s] /\ request'[s] = [request[s] EXCEPT !.pc = "start"]
  BY <1>1 DEF GenerateSession, Enqueue, IInv, QueueInv, HandlerInv, Promised
<1>. QED  BY <1>1, <1>2 DEF Request, Promised, StatusSet

\* and starting its run where there is no queue.
LEMMA StartGenerationPromise ==
    ASSUME NEW s \in Sessions, Turn(s), StartGeneration(s)
    PROVE  Promised(s)'
<1>. USE DEF Turn
<1>1. /\ ~IsUserAdded(s) /\ request[s].pc = "start" /\ ~Durable
      /\ RowKept(s) /\ job'[s] = job[s] /\ request'[s] = NoRequest
  BY DEF StartGeneration, StartInProcess, store, RowKept, RequestInv, IInv, HandlerInv
<1>2. \/ IsRunning(s) /\ run'[s] = run[s]
      \/ At(s, "idle") /\ run'[s] = [IdleRun EXCEPT !.pc = "generate"]
  BY <1>1 DEF StartGeneration, StartInProcess, ClaimInv, JobInv, IInv, QueueInv, PipelineTypeOK
<1>20. LifeInv(s)'
  BY <1>1, <1>2 DEF IdleRun, EmptyRow, NoRequest, JobInv, Promised, RowKept
<1>21. WorkInv(s)'
  BY <1>1, <1>2 DEF IdleRun, EmptyRow, NoRequest, JobInv, Promised, RowKept
<1>22. CheckpointInv(s)'
  BY <1>1, <1>2 DEF IdleRun, EmptyRow, NoRequest, JobInv, Promised, RowKept
<1>23. ReadyInv(s)'
  BY ZenonT(30), <1>1, <1>2 DEF IdleRun, EmptyRow, NoRequest, JobInv, Promised, RowKept
<1>24. ShownInv(s)'
  BY <1>1, <1>2 DEF IdleRun, EmptyRow, NoRequest, JobInv, Promised, RowKept
<1>25. OwnedInv(s)'
  BY <1>1, <1>2 DEF IdleRun, EmptyRow, NoRequest, JobInv, Promised, RowKept
<1>26. ReadingInv(s)'
  BY <1>1, <1>2 DEF IdleRun, EmptyRow, NoRequest, JobInv, Promised, RowKept
<1>27. PaidInv(s)'
  BY <1>1, <1>2 DEF IdleRun, EmptyRow, NoRequest, JobInv, Promised, RowKept
<1>. QED  BY <1>20, <1>21, <1>22, <1>23, <1>24, <1>25, <1>26, <1>27 DEF Promised

\* Importing a text.
LEMMA ImportStoryPromise ==
    ASSUME NEW s \in Sessions, Turn(s), ImportStory(s)
    PROVE  Promised(s)'
<1>. USE DEF Turn
<1>1. /\ IsUserAdded(s) /\ session[s].status = "none"
      /\ session'[s] = [session[s] EXCEPT !.status = "ready", !.content = 1]
      /\ tokens'[s] = 1 /\ tasks'[s] = tasks[s]
      /\ run'[s] = run[s] /\ job'[s] = job[s] /\ request'[s] = request[s]
  BY DEF ImportStory, ImportText, IInv, StoreTypeOK
<1>2. stage'[s]["content"] = "complete" /\ stage'[s]["tokenization"] = "complete"
  BY DEF ImportStory, ImportText, IInv, StoreTypeOK, Stages
<1>. QED  BY <1>1, <1>2 DEF ReadableUserStoryStatus, Promised

\* A retry, of a session in any status.
LEMMA RetrySessionPromise ==
    ASSUME NEW s \in Sessions, Turn(s), RetrySession(s)
    PROVE  Promised(s)'
<1>. USE DEF Turn
<1>1. Exists(s) /\ "retry" \in Requests /\ RowKept(s) /\ request'[s] = request[s]
  BY DEF RetrySession, Asks, store, RowKept
<1>2. \/ run'[s] = run[s] /\ job'[s].state = job[s].state
      \/ run'[s] = run[s] /\ job[s].state = "none" /\ job'[s].state = "queued"
      \/ /\ ~Durable /\ At(s, "idle") /\ job'[s] = job[s]
         /\ run'[s] = [IdleRun EXCEPT !.pc = "retry"]
  BY DEF RetrySession, Start, Enqueue, StartInProcess, ClaimInv, JobInv, IInv, QueueInv, PipelineTypeOK
<1>20. LifeInv(s)'
  BY <1>1, <1>2 DEF IdleRun, EmptyRow, Promised, RowKept
<1>21. WorkInv(s)'
  BY <1>1, <1>2 DEF IdleRun, EmptyRow, Promised, RowKept
<1>22. CheckpointInv(s)'
  BY <1>1, <1>2 DEF IdleRun, EmptyRow, Promised, RowKept
<1>23. ReadyInv(s)'
  BY ZenonT(30), <1>1, <1>2 DEF IdleRun, EmptyRow, Promised, RowKept
<1>24. ShownInv(s)'
  BY <1>1, <1>2 DEF IdleRun, EmptyRow, Promised, RowKept
<1>25. OwnedInv(s)'
  BY <1>1, <1>2 DEF IdleRun, EmptyRow, Promised, RowKept
<1>26. ReadingInv(s)'
  BY <1>1, <1>2 DEF IdleRun, EmptyRow, Promised, RowKept
<1>27. PaidInv(s)'
  BY <1>1, <1>2 DEF IdleRun, EmptyRow, Promised, RowKept
<1>. QED  BY <1>20, <1>21, <1>22, <1>23, <1>24, <1>25, <1>26, <1>27 DEF Promised

\* A task batch: the request,
LEMMA GenerateStoryTasksPromise ==
    ASSUME NEW s \in Sessions, Turn(s), GenerateStoryTasks(s)
    PROVE  Promised(s)'
<1>. USE DEF Turn
<1>1. /\ IsUserAdded(s) /\ session[s].status \notin {"none", "pending"} /\ request[s].pc = "idle"
      /\ RowKept(s) /\ run'[s] = run[s] /\ job'[s] = job[s]
  BY DEF GenerateStoryTasks, UserStoryIsIdle, store, RowKept
<1>2. request'[s].pc = "prepare" /\ request'[s].prev = session[s].status
  BY DEF GenerateStoryTasks, IInv, HandlerInv
<1>. QED  BY <1>1, <1>2 DEF Promised, RowKept

\* its source,
LEMMA PrepareTaskSourcePromise ==
    ASSUME NEW s \in Sessions, Turn(s), PrepareTaskSource(s)
    PROVE  Promised(s)'
<1>. USE DEF Turn
<1>1. request[s].pc = "prepare" /\ run'[s] = run[s] /\ job'[s] = job[s]
  BY DEF PrepareTaskSource
<1>2. CASE /\ SetUserStoryTaskSource(s, request[s].excerpt)
           /\ request' = [request EXCEPT ![s].pc = "start"]
  <2>1. /\ IsUserAdded(s) /\ ~InBatch(s) /\ Exists(s)
        /\ session'[s] = [session[s] EXCEPT !.status = "generating", !.excerpt = request[s].excerpt]
        /\ tokens'[s] = tokens[s] /\ tasks'[s] = tasks[s]
        /\ request'[s] = [request[s] EXCEPT !.pc = "start"]
    BY <1>2 DEF SetUserStoryTaskSource, UserStoryIsIdle, IInv, StoreTypeOK, HandlerInv
  <2>2. /\ stage'[s]["content"] = stage[s]["content"]
        /\ stage'[s]["tokenization"] = stage[s]["tokenization"]
    BY <1>2, TaskTypesAssumption
       DEF SetUserStoryTaskSource, WithoutTaskStages, IInv, StoreTypeOK, Stages
  <2>. QED  BY <1>1, <2>1, <2>2 DEF Request, Promised
<1>3. CASE request' = [request EXCEPT ![s] = NoRequest] /\ UNCHANGED store
  <2>1. request'[s] = NoRequest /\ RowKept(s)
    BY <1>3 DEF IInv, HandlerInv, store, RowKept
  <2>. QED  BY <1>1, <2>1 DEF NoRequest, Promised, RowKept
<1>. QED  BY <1>2, <1>3 DEF PrepareTaskSource

\* and its run.
LEMMA StartStoryTasksPromise ==
    ASSUME NEW s \in Sessions, Turn(s), StartStoryTasks(s)
    PROVE  Promised(s)'
<1>. USE DEF Turn
<1>1. IsUserAdded(s) /\ request[s].pc = "start" /\ request'[s] = NoRequest
  BY DEF StartStoryTasks, IInv, HandlerInv
<1>2. CASE Start(s, "retry") /\ UNCHANGED store
  <2>1. RowKept(s)
    BY <1>2 DEF store, RowKept
  <2>2. \/ run'[s] = run[s] /\ job'[s].state = job[s].state
        \/ run'[s] = run[s] /\ job[s].state = "none" /\ job'[s].state = "queued"
        \/ /\ ~Durable /\ At(s, "idle") /\ job'[s] = job[s]
           /\ run'[s] = [IdleRun EXCEPT !.pc = "retry"]
    BY <1>2 DEF Start, Enqueue, StartInProcess, ClaimInv, JobInv, IInv, QueueInv, PipelineTypeOK
  <2>. QED  BY <1>1, <2>1, <2>2 DEF IdleRun, EmptyRow, NoRequest, Promised, RowKept
<1>3. CASE /\ Durable /\ "database" \in Faults
           /\ IF Exists(s) THEN UpdateSessionStatus(s, request[s].prev) ELSE UNCHANGED store
           /\ UNCHANGED <<run, job, active>>
  <2>1. (Exists(s) /\ StatusSet(s, request[s].prev)) \/ RowKept(s)
    BY <1>3, StatusRow DEF IInv, store, RowKept
  <2>2. run'[s] = run[s] /\ job'[s] = job[s] /\ "database" \in Faults
        /\ request[s].prev \notin {"none", "deleted"}
    BY <1>1, <1>3 DEF RequestInv
  <2>. QED  BY <1>1, <2>1, <2>2 DEF NoRequest, Promised, RowKept, StatusSet
<1>. QED  BY <1>2, <1>3 DEF StartStoryTasks

\* An edit of the text.
LEMMA UpdateStoryPromise ==
    ASSUME NEW s \in Sessions, Turn(s), UpdateStory(s)
    PROVE  Promised(s)'
<1>. USE DEF Turn
<1>1. /\ IsUserAdded(s) /\ ~InBatch(s) /\ Exists(s)
      /\ session[s].content \in Nat /\ session[s].content + 1 # 0
      /\ session'[s] = [session[s] EXCEPT !.status = "ready", !.content = session[s].content + 1,
                                          !.excerpt = 0, !.reading = FALSE, !.completed = FALSE]
      /\ tokens'[s] = session[s].content + 1
      /\ run'[s] = run[s] /\ job'[s] = job[s] /\ request'[s] = request[s]
  BY RevisionAssumption
     DEF UpdateStory, ReplaceUserStory, UserStoryIsIdle, IInv, StoreTypeOK, Revisions
<1>2. /\ stage'[s]["content"] = stage[s]["content"]
      /\ stage'[s]["tokenization"] = stage[s]["tokenization"]
  BY TaskTypesAssumption
     DEF UpdateStory, ReplaceUserStory, WithoutTaskStages, IInv, StoreTypeOK, Stages
<1>20. LifeInv(s)'
  BY <1>1, <1>2 DEF Promised
<1>21. WorkInv(s)'
  BY <1>1, <1>2 DEF Promised
<1>22. CheckpointInv(s)'
  BY <1>1, <1>2 DEF Promised
<1>23. ReadyInv(s)'
  BY <1>1, <1>2 DEF Promised
<1>24. ShownInv(s)'
  BY <1>1, <1>2 DEF Promised
<1>25. OwnedInv(s)'
  BY <1>1, <1>2 DEF Promised
<1>26. ReadingInv(s)'
  BY ZenonT(30), <1>1, <1>2 DEF ReadableUserStoryStatus, Promised
<1>27. PaidInv(s)'
  BY <1>1, <1>2 DEF Promised
<1>. QED  BY <1>20, <1>21, <1>22, <1>23, <1>24, <1>25, <1>26, <1>27 DEF Promised

\* Reading, completing, archiving and deleting.
LEMMA LearnerPromise ==
    ASSUME NEW s \in Sessions, Turn(s), Learner(s)
    PROVE  Promised(s)'
<1>. USE DEF Turn
<1>1. run'[s] = run[s] /\ job'[s] = job[s] /\ request'[s] = request[s]
  BY DEF Learner
<1>2. CASE "read" \in Requests /\ MarkSessionReading(s)
  <2>1. /\ "read" \in Requests /\ session[s].status = "ready"
        /\ session'[s] = [session[s] EXCEPT !.status = "reading", !.reading = TRUE]
        /\ stage'[s] = stage[s] /\ tokens'[s] = tokens[s] /\ tasks'[s] = tasks[s]
    BY <1>2 DEF MarkSessionReading, IInv, StoreTypeOK
  <2>20. LifeInv(s)'
    BY <1>1, <2>1 DEF Promised
  <2>21. WorkInv(s)'
    BY <1>1, <2>1 DEF Promised
  <2>22. CheckpointInv(s)'
    BY <1>1, <2>1 DEF Promised
  <2>23. ReadyInv(s)'
    BY <1>1, <2>1 DEF Promised
  <2>24. ShownInv(s)'
    BY <1>1, <2>1 DEF Promised
  <2>25. OwnedInv(s)'
    BY <1>1, <2>1 DEF Promised
  <2>26. ReadingInv(s)'
    BY ZenonT(30), <1>1, <2>1 DEF ReadableUserStoryStatus, Promised
  <2>27. PaidInv(s)'
    BY <1>1, <2>1 DEF Promised
  <2>. QED  BY <2>20, <2>21, <2>22, <2>23, <2>24, <2>25, <2>26, <2>27 DEF Promised
<1>3. CASE MarkSessionComplete(s)
  <2>1. /\ session[s].status = "reading"
        /\ session'[s] = [session[s] EXCEPT !.status = "complete", !.completed = TRUE]
        /\ stage'[s] = stage[s] /\ tokens'[s] = tokens[s] /\ tasks'[s] = tasks[s]
    BY <1>3 DEF MarkSessionComplete, IInv, StoreTypeOK
  <2>20. LifeInv(s)'
    BY <1>1, <2>1 DEF Promised
  <2>21. WorkInv(s)'
    BY <1>1, <2>1 DEF Promised
  <2>22. CheckpointInv(s)'
    BY <1>1, <2>1 DEF Promised
  <2>23. ReadyInv(s)'
    BY <1>1, <2>1 DEF Promised
  <2>24. ShownInv(s)'
    BY <1>1, <2>1 DEF Promised
  <2>25. OwnedInv(s)'
    BY <1>1, <2>1 DEF Promised
  <2>26. ReadingInv(s)'
    BY ZenonT(30), <1>1, <2>1 DEF ReadableUserStoryStatus, Promised
  <2>27. PaidInv(s)'
    BY <1>1, <2>1 DEF Promised
  <2>. QED  BY <2>20, <2>21, <2>22, <2>23, <2>24, <2>25, <2>26, <2>27 DEF Promised
<1>4. CASE SetSessionArchived(s, ~session[s].archived)
  <2>1. /\ Exists(s)
        /\ session'[s] = [session[s] EXCEPT !.archived = ~session[s].archived]
        /\ stage'[s] = stage[s] /\ tokens'[s] = tokens[s] /\ tasks'[s] = tasks[s]
    BY <1>4 DEF SetSessionArchived, IInv, StoreTypeOK
  <2>20. LifeInv(s)'
    BY <1>1, <2>1 DEF Promised
  <2>21. WorkInv(s)'
    BY <1>1, <2>1 DEF Promised
  <2>22. CheckpointInv(s)'
    BY <1>1, <2>1 DEF Promised
  <2>23. ReadyInv(s)'
    BY <1>1, <2>1 DEF Promised
  <2>24. ShownInv(s)'
    BY <1>1, <2>1 DEF Promised
  <2>25. OwnedInv(s)'
    BY <1>1, <2>1 DEF Promised
  <2>26. ReadingInv(s)'
    BY <1>1, <2>1 DEF ReadableUserStoryStatus, Promised
  <2>27. PaidInv(s)'
    BY <1>1, <2>1 DEF Promised
  <2>. QED  BY <2>20, <2>21, <2>22, <2>23, <2>24, <2>25, <2>26, <2>27 DEF Promised
<1>5. CASE DeleteSession(s)
  <2>1. /\ Exists(s)
        /\ session'[s] = [EmptyRow EXCEPT !.status = "deleted"]
        /\ \A g \in Stages : stage'[s][g] = "none"
        /\ tokens'[s] = 0 /\ tasks'[s] = {}
    BY <1>5 DEF DeleteSession, IInv, StoreTypeOK, NoStages
  <2>. QED  BY <1>1, <2>1 DEF EmptyRow, Stages, Promised
<1>. QED  BY <1>2, <1>3, <1>4, <1>5 DEF Learner

\* Taking a job,
LEMMA FetchJobPromise ==
    ASSUME NEW s \in Sessions, Turn(s), FetchJob(s)
    PROVE  Promised(s)'
<1>. USE DEF Turn
<1>1. /\ job[s].state = "queued" /\ At(s, "idle")
      /\ RowKept(s) /\ request'[s] = request[s]
      /\ run'[s] = [IdleRun EXCEPT !.pc = "gate"] /\ job'[s].state = "running"
  BY DEF FetchJob, JobInv, IInv, QueueInv, PipelineTypeOK, store, RowKept
<1>20. LifeInv(s)'
  BY <1>1 DEF IdleRun, EmptyRow, Promised, RowKept
<1>21. WorkInv(s)'
  BY <1>1 DEF IdleRun, EmptyRow, Promised, RowKept
<1>22. CheckpointInv(s)'
  BY <1>1 DEF IdleRun, EmptyRow, Promised, RowKept
<1>23. ReadyInv(s)'
  BY <1>1 DEF IdleRun, EmptyRow, Promised, RowKept
<1>24. ShownInv(s)'
  BY <1>1 DEF IdleRun, EmptyRow, Promised, RowKept
<1>25. OwnedInv(s)'
  BY <1>1 DEF IdleRun, EmptyRow, Promised, RowKept
<1>26. ReadingInv(s)'
  BY <1>1 DEF IdleRun, EmptyRow, Promised, RowKept
<1>27. PaidInv(s)'
  BY <1>1 DEF IdleRun, EmptyRow, Promised, RowKept
<1>. QED  BY <1>20, <1>21, <1>22, <1>23, <1>24, <1>25, <1>26, <1>27 DEF Promised

\* snoozing it while another session of the learner is generating,
LEMMA PassGatePromise ==
    ASSUME NEW s \in Sessions, Turn(s), PassGate(s)
    PROVE  Promised(s)'
<1>. USE DEF Turn
<1>1. /\ At(s, "gate") /\ job[s].state = "running"
      /\ RowKept(s) /\ request'[s] = request[s]
  BY DEF PassGate, JobInv, store, RowKept
<1>2. \/ run'[s] = IdleRun /\ job'[s].state = "queued"
      \/ run'[s] = [run[s] EXCEPT !.pc = "check"] /\ job'[s] = job[s]
  BY GotoRun DEF PassGate, IInv, QueueInv, PipelineTypeOK
<1>20. LifeInv(s)'
  BY <1>1, <1>2 DEF IdleRun, EmptyRow, Promised, RowKept
<1>21. WorkInv(s)'
  BY <1>1, <1>2 DEF IdleRun, EmptyRow, Promised, RowKept
<1>22. CheckpointInv(s)'
  BY <1>1, <1>2 DEF IdleRun, EmptyRow, Promised, RowKept
<1>23. ReadyInv(s)'
  BY ZenonT(30), <1>1, <1>2 DEF IdleRun, EmptyRow, Promised, RowKept
<1>24. ShownInv(s)'
  BY <1>1, <1>2 DEF IdleRun, EmptyRow, Promised, RowKept
<1>25. OwnedInv(s)'
  BY <1>1, <1>2 DEF IdleRun, EmptyRow, Promised, RowKept
<1>26. ReadingInv(s)'
  BY <1>1, <1>2 DEF IdleRun, EmptyRow, Promised, RowKept
<1>27. PaidInv(s)'
  BY <1>1, <1>2 DEF IdleRun, EmptyRow, Promised, RowKept
<1>. QED  BY <1>20, <1>21, <1>22, <1>23, <1>24, <1>25, <1>26, <1>27 DEF Promised

\* leaving a session alone that is ready,
LEMMA CheckStatusPromise ==
    ASSUME NEW s \in Sessions, Turn(s), CheckStatus(s)
    PROVE  Promised(s)'
<1>. USE DEF Turn
<1>1. At(s, "check") /\ RowKept(s) /\ job'[s] = job[s] /\ request'[s] = request[s]
  BY DEF CheckStatus, store, RowKept
<1>2. CASE DbWorks(s) /\ session[s].status \in {"ready", "complete"} /\ Goto(s, "return")
  <2>1. /\ Exists(s) /\ session[s].status \in {"ready", "complete"}
        /\ run'[s] = [run[s] EXCEPT !.pc = "return"]
    BY <1>2, GotoRun DEF IInv, QueueInv
  <2>20. LifeInv(s)'
    BY <1>1, <2>1 DEF Promised, RowKept
  <2>21. WorkInv(s)'
    BY <1>1, <2>1 DEF Promised, RowKept
  <2>22. CheckpointInv(s)'
    BY <1>1, <2>1 DEF Promised, RowKept
  <2>23. ReadyInv(s)'
    BY ZenonT(30), <1>1, <2>1 DEF Promised, RowKept
  <2>24. ShownInv(s)'
    BY <1>1, <2>1 DEF Promised, RowKept
  <2>25. OwnedInv(s)'
    BY <1>1, <2>1 DEF Promised, RowKept
  <2>26. ReadingInv(s)'
    BY <1>1, <2>1 DEF Promised, RowKept
  <2>27. PaidInv(s)'
    BY <1>1, <2>1 DEF Promised, RowKept
  <2>. QED  BY <2>20, <2>21, <2>22, <2>23, <2>24, <2>25, <2>26, <2>27 DEF Promised
<1>3. CASE /\ DbWorks(s) /\ session[s].status \notin {"ready", "complete"}
           /\ run' = [run EXCEPT ![s].pc = "claim", ![s].seen = session[s]]
  <2>1. /\ Exists(s) /\ session[s].status \notin {"ready", "complete"}
        /\ run'[s] = [run[s] EXCEPT !.pc = "claim", !.seen = session[s]]
    BY <1>3 DEF IInv, QueueInv, PipelineTypeOK
  <2>20. LifeInv(s)'
    BY <1>1, <2>1 DEF Promised, RowKept
  <2>21. WorkInv(s)'
    BY <1>1, <2>1 DEF Promised, RowKept
  <2>22. CheckpointInv(s)'
    BY <1>1, <2>1 DEF Promised, RowKept
  <2>23. ReadyInv(s)'
    BY <1>1, <2>1 DEF Promised, RowKept
  <2>24. ShownInv(s)'
    BY <1>1, <2>1 DEF Promised, RowKept
  <2>25. OwnedInv(s)'
    BY <1>1, <2>1 DEF Promised, RowKept
  <2>26. ReadingInv(s)'
    BY <1>1, <2>1 DEF Promised, RowKept
  <2>27. PaidInv(s)'
    BY <1>1, <2>1 DEF Statuses, Promised, RowKept
  <2>. QED  BY <2>20, <2>21, <2>22, <2>23, <2>24, <2>25, <2>26, <2>27 DEF Promised
<1>4. CASE DbFails(s) /\ run' = [run EXCEPT ![s].pc = "return", ![s].err = TRUE]
  <2>1. DbFails(s) /\ run'[s] = [run[s] EXCEPT !.pc = "return", !.err = TRUE]
    BY <1>4 DEF IInv, QueueInv, PipelineTypeOK
  <2>. QED  BY <1>1, <2>1 DEF Promised, RowKept
<1>. QED  BY <1>2, <1>3, <1>4 DEF CheckStatus

\* and claiming the others for a run.
LEMMA ClaimPromise ==
    ASSUME NEW s \in Sessions, Turn(s), Claim(s)
    PROVE  Promised(s)'
<1>. USE DEF Turn
<1>1. /\ At(s, "claim") /\ Durable
      /\ RowKept(s) /\ job'[s] = job[s] /\ request'[s] = request[s]
  BY DEF Claim, JobInv, store, RowKept
<1>2. run'[s] = [run[s] EXCEPT !.pc = IF run[s].seen.status = "failed" \/ IsUserAdded(s)
                                     THEN "retry" ELSE "generate"]
  BY <1>1, GotoRun DEF Claim, ClaimInv, IInv, QueueInv
<1>. QED  BY <1>1, <1>2 DEF Promised, RowKept

\* The end of a run and of its job,
LEMMA EndRunPromise ==
    ASSUME NEW s \in Sessions, Turn(s), EndRun(s)
    PROVE  Promised(s)'
<1>. USE DEF Turn
<1>1. /\ run[s].pc \in {"end", "return"} /\ run'[s] = IdleRun
      /\ RowKept(s) /\ request'[s] = request[s]
  BY DEF EndRun, IInv, QueueInv, PipelineTypeOK, store, RowKept
<1>2. \/ run[s].err /\ job'[s].state = "queued"
      \/ job'[s].state = "none"
  BY DEF EndRun, JobInv, IInv, QueueInv, NoJob
<1>20. LifeInv(s)'
  BY <1>1, <1>2 DEF IdleRun, EmptyRow, Promised, RowKept
<1>21. WorkInv(s)'
  BY <1>1, <1>2 DEF IdleRun, EmptyRow, Promised, RowKept
<1>22. CheckpointInv(s)'
  BY <1>1, <1>2 DEF IdleRun, EmptyRow, Promised, RowKept
<1>23. ReadyInv(s)'
  BY ZenonT(30), <1>1, <1>2 DEF IdleRun, EmptyRow, Promised, RowKept
<1>24. ShownInv(s)'
  BY <1>1, <1>2 DEF IdleRun, EmptyRow, Promised, RowKept
<1>25. OwnedInv(s)'
  BY <1>1, <1>2 DEF IdleRun, EmptyRow, Promised, RowKept
<1>26. ReadingInv(s)'
  BY <1>1, <1>2 DEF IdleRun, EmptyRow, Promised, RowKept
<1>27. PaidInv(s)'
  BY <1>1, <1>2 DEF IdleRun, EmptyRow, Promised, RowKept
<1>. QED  BY <1>20, <1>21, <1>22, <1>23, <1>24, <1>25, <1>26, <1>27 DEF Promised

\* the deadline of a run,
LEMMA ExpirePromise ==
    ASSUME NEW s \in Sessions, Turn(s), Expire(s)
    PROVE  Promised(s)'
<1>. USE DEF Turn
<1>1. /\ "timeout" \in Faults
      /\ run'[s] = [run[s] EXCEPT !.expired = TRUE]
      /\ RowKept(s) /\ job'[s] = job[s] /\ request'[s] = request[s]
  BY DEF Expire, IInv, QueueInv, PipelineTypeOK, store, RowKept
<1>. QED  BY <1>1 DEF Promised, RowKept

\* a job that is rescued,
LEMMA RescueJobPromise ==
    ASSUME NEW s \in Sessions, Turn(s), RescueJob(s)
    PROVE  Promised(s)'
<1>. USE DEF Turn
<1>1. /\ job[s].state = "running" /\ At(s, "idle")
      /\ run'[s] = run[s] /\ RowKept(s) /\ request'[s] = request[s]
  BY DEF RescueJob, store, RowKept
<1>2. job'[s].state \in {"queued", "none"}
  BY DEF RescueJob, IInv, QueueInv, NoJob
<1>20. LifeInv(s)'
  BY <1>1, <1>2 DEF Promised, RowKept
<1>21. WorkInv(s)'
  BY <1>1, <1>2 DEF Promised, RowKept
<1>22. CheckpointInv(s)'
  BY <1>1, <1>2 DEF Promised, RowKept
<1>23. ReadyInv(s)'
  BY <1>1, <1>2 DEF Promised, RowKept
<1>24. ShownInv(s)'
  BY <1>1, <1>2 DEF Promised, RowKept
<1>25. OwnedInv(s)'
  BY <1>1, <1>2 DEF Promised, RowKept
<1>26. ReadingInv(s)'
  BY <1>1, <1>2 DEF Promised, RowKept
<1>27. PaidInv(s)'
  BY <1>1, <1>2 DEF Promised, RowKept
<1>. QED  BY <1>20, <1>21, <1>22, <1>23, <1>24, <1>25, <1>26, <1>27 DEF Promised

\* and the crash that made it necessary.
LEMMA CrashPromise ==
    ASSUME NEW s \in Sessions, Turn(s), Crash
    PROVE  Promised(s)'
<1>. USE DEF Turn
<1>1. /\ "crash" \in Faults
      /\ run'[s] = IdleRun /\ request'[s] = NoRequest
      /\ RowKept(s) /\ job'[s] = job[s]
  BY DEF Crash, store, RowKept
<1>. QED  BY <1>1 DEF IdleRun, EmptyRow, NoRequest, Promised, RowKept

\* A step of another session does not matter.
LEMMA OthersPromise ==
    ASSUME NEW t \in Sessions, Promised(t), RowKept(t),
           run'[t] = run[t], job'[t] = job[t], request'[t] = request[t]
    PROVE  Promised(t)'
  BY DEF Promised, RowKept, ReadableUserStoryStatus

(***************************************************************************)
(* The invariant.                                                          *)
(***************************************************************************)
\* What is promised of every session.
AllPromised == \A s \in Sessions : Promised(s)

\* A step of a session's own actions leaves the others as they are.
SessionStep(s) ==
    \/ GenerateSession(s) \/ ImportStory(s) \/ RetrySession(s)
    \/ GenerateStoryTasks(s) \/ UpdateStory(s) \/ Learner(s)
    \/ HandlerStep(s) \/ FetchJob(s) \/ RunStep(s) \/ Expire(s) \/ RescueJob(s)

\* Whatever a step of s writes, it writes it to s.
LEMMA OthersRowsKept ==
    ASSUME IInv, NEW s \in Sessions, SessionStep(s), NEW t \in Sessions \ {s}
    PROVE  RowKept(t)
<1>1. ASSUME UNCHANGED store PROVE RowKept(t)
  BY <1>1 DEF store, RowKept
<1>2. ASSUME \/ CreateSession(s) \/ ImportText(s) \/ ReplaceUserStory(s)
             \/ \E excerpt : SetUserStoryTaskSource(s, excerpt)
             \/ MarkSessionReading(s) \/ MarkSessionComplete(s)
             \/ SetSessionArchived(s, ~session[s].archived) \/ DeleteSession(s)
      PROVE  RowKept(t)
  BY <1>2 DEF CreateSession, ImportText, ReplaceUserStory, SetUserStoryTaskSource,
              MarkSessionReading, MarkSessionComplete, SetSessionArchived, DeleteSession,
              IInv, StoreTypeOK, RowKept
<1>3. ASSUME NEW status, UpdateSessionStatus(s, status) PROVE RowKept(t)
  BY <1>3 DEF UpdateSessionStatus, IInv, StoreTypeOK, RowKept
<1>4. ASSUME PipelineStep(s) PROVE RowKept(t)
  <2>1. PipelineWrite(s)
    BY <1>4, PipelineStepEffect DEF IInv, QueueInv, PipelineEffect
  <2>2. ASSUME \/ \E g \in Stages, status \in StageStatuses : UpsertStage(s, g, status)
               \/ \E u \in TaskTypes, source \in Revisions : CreateTask(s, u, source)
               \/ SaveContent(s) \/ ReplaceStoryTokens(s)
        PROVE  RowKept(t)
    BY <2>2 DEF UpsertStage, CreateTask, SaveContent, ReplaceStoryTokens, IInv, StoreTypeOK, RowKept
  <2>. QED  BY <1>1, <1>3, <2>1, <2>2 DEF PipelineWrite, Stages
<1>5. CASE GenerateSession(s) \/ ImportStory(s) \/ UpdateStory(s) \/ Learner(s)
  BY <1>2, <1>5 DEF GenerateSession, ImportStory, UpdateStory, Learner
<1>6. CASE RetrySession(s) \/ GenerateStoryTasks(s) \/ FetchJob(s) \/ Expire(s) \/ RescueJob(s)
  BY <1>1, <1>6 DEF RetrySession, GenerateStoryTasks, FetchJob, Expire, RescueJob
<1>7. CASE HandlerStep(s)
  BY <1>1, <1>2, <1>3, <1>7 DEF HandlerStep, StartGeneration, PrepareTaskSource, StartStoryTasks
<1>8. CASE RunStep(s)
  BY <1>1, <1>4, <1>8 DEF RunStep, PassGate, CheckStatus, Claim, EndRun
<1>. QED  BY <1>5, <1>6, <1>7, <1>8 DEF SessionStep

\* The same of its run, its job and its handler.
LEMMA OthersWorkKept ==
    ASSUME IInv, NEW s \in Sessions, SessionStep(s), NEW t \in Sessions \ {s}
    PROVE  run'[t] = run[t] /\ job'[t] = job[t] /\ request'[t] = request[t]
<1>. USE DEF IInv, QueueInv, HandlerInv, PipelineTypeOK
<1>1. ASSUME NEW entry, Start(s, entry) \/ Enqueue(s) \/ StartInProcess(s, entry)
      PROVE  run'[t] = run[t] /\ job'[t] = job[t]
  BY <1>1 DEF Start, Enqueue, StartInProcess
<1>2. CASE GenerateSession(s) \/ ImportStory(s) \/ RetrySession(s)
  BY <1>1, <1>2 DEF GenerateSession, ImportStory, RetrySession
<1>3. CASE GenerateStoryTasks(s) \/ UpdateStory(s) \/ Learner(s)
  BY <1>3 DEF GenerateStoryTasks, UpdateStory, Learner
<1>4. CASE HandlerStep(s)
  BY <1>1, <1>4 DEF HandlerStep, StartGeneration, PrepareTaskSource, StartStoryTasks
<1>5. CASE FetchJob(s) \/ Expire(s) \/ RescueJob(s)
  BY <1>5 DEF FetchJob, Expire, RescueJob
<1>6. CASE PassGate(s) \/ CheckStatus(s) \/ Claim(s) \/ EndRun(s)
  BY <1>6 DEF PassGate, CheckStatus, Claim, EndRun, Goto
<1>7. CASE PipelineStep(s) /\ UNCHANGED <<job, active, request, used>>
  <2>1. PICK label : Moves(s, label)
    BY <1>7, PipelineStepEffect DEF PipelineEffect, PipelineMove
  <2>. QED  BY <1>7, <2>1 DEF Moves
<1>. QED  BY <1>2, <1>3, <1>4, <1>5, <1>6, <1>7 DEF SessionStep, RunStep

\* A session keeps its promises in a step of its own,
LEMMA OwnStep ==
    ASSUME NEW s \in Sessions, Turn(s), SessionStep(s)
    PROVE  Promised(s)'
<1>1. CASE HandlerStep(s)
  BY <1>1, StartGenerationPromise, PrepareTaskSourcePromise, StartStoryTasksPromise
     DEF HandlerStep
<1>2. CASE PipelineStep(s) /\ UNCHANGED <<job, active, request, used>>
  BY <1>2, PipelinePromise DEF Turn, PipelineTurn, IInv, QueueInv
<1>3. CASE RunStep(s)
  BY <1>2, <1>3, PassGatePromise, CheckStatusPromise, ClaimPromise, EndRunPromise DEF RunStep
<1>. QED
  BY <1>1, <1>3, GenerateSessionPromise, ImportStoryPromise, RetrySessionPromise,
     GenerateStoryTasksPromise, UpdateStoryPromise, LearnerPromise, FetchJobPromise,
     ExpirePromise, RescueJobPromise DEF SessionStep

\* and all of them in any step.
LEMMA PromiseStep ==
    IInv /\ NothingOutlivesDeletion /\ AllPromised /\ [Next]_vars => AllPromised'
<1>. SUFFICES ASSUME IInv, NothingOutlivesDeletion, AllPromised, [Next]_vars, NEW t \in Sessions
              PROVE  Promised(t)'
  BY DEF AllPromised
<1>1. Promised(t) /\ Turn(t)
  BY SessionTyped DEF AllPromised, Turn
<1>2. CASE UNCHANGED vars
  <2>1. RowKept(t) /\ run'[t] = run[t] /\ job'[t] = job[t] /\ request'[t] = request[t]
    BY <1>2 DEF vars, RowKept
  <2>. QED  BY <1>1, <2>1, OthersPromise
<1>3. CASE Crash
  BY <1>1, <1>3, CrashPromise
<1>4. ASSUME NEW s \in Sessions, SessionStep(s) PROVE Promised(t)'
  <2>1. CASE s = t
    BY <1>1, <1>4, <2>1, OwnStep
  <2>2. CASE s # t
    BY <1>1, <1>4, <2>2, OthersRowsKept, OthersWorkKept, OthersPromise
  <2>. QED  BY <2>1, <2>2
<1>. QED  BY <1>2, <1>3, <1>4 DEF Next, SessionStep

\* At the start no session was created.
LEMMA PromiseInit == Init => AllPromised
  BY DEF Init, StoreInit, PipelineInit, NoJob, NoRequest, EmptyRow, NoStages, IdleRun, Stages,
         AllPromised, Promised

\* Every promise is kept in every reachable state.
THEOREM PromisesAreKept == Spec => []AllPromised
  BY PromiseInit, PromiseStep, InductiveInvariant, DeletionIsFinal, PTL DEF Spec

(***************************************************************************)
(* The theorems.                                                           *)
(***************************************************************************)
\* A session that is shown as readable has its text, the tokens of that text and a
\* finished task type made from it, through crashes, retries and redeliveries, unless a
\* run is cut off where none begins again with a new text (domain/session.go).
THEOREM ReadyIsReadable ==
    ASSUME \A s \in Sessions : Spared(s)
    PROVE  Spec => []ReadyMeansReadable
<1>1. AllPromised => ReadyMeansReadable
  BY DEF AllPromised, Promised, ReadyMeansReadable
<1>. QED  BY <1>1, PromisesAreKept, PTL

\* Without faults, a session that is being prepared always has a job, a run or a
\* handler that is about to start one, whatever the learner asks for in between.
THEOREM PreparationIsOwned ==
    ASSUME Faults = {}, \A s \in Sessions : ~IsUserAdded(s)
    PROVE  Spec => []PreparingIsOwned
<1>1. AllPromised => PreparingIsOwned
  BY DEF AllPromised, Promised, PreparingIsOwned
<1>. QED  BY <1>1, PromisesAreKept, PTL

\* A task batch puts back the status that the learner's reading marks stand for, also
\* when the batch runs into its deadline (story/pipeline.go, Retry).
THEOREM ReadingLifecycleIsPreserved ==
    ASSUME \A s \in Sessions : IsUserAdded(s) => Calm(s)
    PROVE  Spec => []ReadingLifecyclePreserved
<1>1. AllPromised => ReadingLifecyclePreserved
  BY DEF AllPromised, Promised, ReadingLifecyclePreserved
<1>. QED  BY <1>1, PromisesAreKept, PTL

\* The content of a generated session is not opened again once it is complete,
LEMMA PaidOnce ==
    ASSUME IInv, NothingOutlivesDeletion, NEW s \in Sessions, Promised(s),
           Undisturbed, ~IsUserAdded(s), ContentDone(s), SessionStep(s)
    PROVE  ContentDone(s)' \/ ~Exists(s)'
<1>. USE TaskTypesAssumption DEF IInv, StoreTypeOK, Stages
<1>. DEFINE Done == /\ session'[s].content # 0
                    /\ stage'[s]["content"] = stage[s]["content"]
                    /\ stage'[s]["tokenization"] = stage[s]["tokenization"]
<1>1. Done => ContentDone(s)'
  OBVIOUS
<1>2. ASSUME UNCHANGED store PROVE Done
  BY <1>2 DEF store
<1>3. ASSUME NEW status, UpdateSessionStatus(s, status) PROVE Done
  BY <1>3 DEF UpdateSessionStatus
<1>4. ASSUME NEW g \in {"scope_check"} \cup TaskTypes, NEW status, WriteStage(s, g, status) PROVE Done
  BY <1>2, <1>4 DEF WriteStage, UpsertStage
<1>5. Typed(s)
  BY SessionTyped
<1>6. run[s].pc \notin {"content", "contentCall"} /\ session[s].content # 0
  BY <1>5 DEF Promised
<1>7. run[s].pc \notin {"tokenize", "saveTokens"}
  BY <1>5 DEF Promised
<1>8. CASE PipelineStep(s)
  <2>1. CASE BeginStage(s) \/ FailStage(s)
    BY <1>4, <1>6, <1>7, <2>1 DEF BeginStage, BeginStageOf, FailStage, FailStageOf
  <2>2. CASE CompleteContent(s) \/ CompleteTokenization(s)
    BY <1>2, <2>2 DEF CompleteContent, CompleteTokenization, WriteStage, UpsertStage
  <2>3. CASE StoreContent(s) \/ SaveTokens(s)
    BY <1>6, <2>3 DEF StoreContent, SaveTokens, ReplaceStoryTokens
  <2>4. CASE CompleteScopeCheck(s)
    BY <1>1, <1>4, <2>4 DEF CompleteScopeCheck
  <2>5. CASE \E t \in TaskTypes : \/ BeginTaskType(s, t) \/ CreateTaskRows(s, t)
                                  \/ FailTaskType(s, t) \/ CompleteTaskType(s, t)
    BY <1>1, <1>4, <2>5
       DEF BeginTaskType, CreateTaskRows, CreateTask, FailTaskType, CompleteTaskType
  <2>6. CASE \/ Generate(s) \/ BeginGenerating(s) \/ Select(s) \/ Retry(s) \/ Resume(s)
             \/ RebuildTaskContext(s) \/ RestartTasks(s) \/ FinishTasks(s) \/ MarkFailed(s)
    BY <1>1, <1>2, <1>3, <2>6
       DEF Generate, BeginGenerating, Select, Retry, Resume, RebuildTaskContext, RestartTasks,
           FinishTasks, MarkFailed, Abort
  <2>. QED  BY <1>8, <2>1, <2>2, <2>3, <2>4, <2>5, <2>6 DEF PipelineStep
<1>9. CASE RunStep(s)
  BY <1>1, <1>2, <1>8, <1>9 DEF RunStep, PassGate, CheckStatus, Claim, EndRun
<1>10. CASE Learner(s)
  BY <1>1, <1>6, <1>10
     DEF Learner, MarkSessionReading, MarkSessionComplete, SetSessionArchived, DeleteSession, EmptyRow
<1>11. CASE GenerateSession(s) \/ StartGeneration(s)
  BY <1>1, <1>2, <1>6, <1>11 DEF GenerateSession, CreateSession, StartGeneration
<1>12. CASE PrepareTaskSource(s)
  BY <1>1, <1>2, <1>12 DEF PrepareTaskSource, SetUserStoryTaskSource, UserStoryIsIdle
<1>13. CASE \/ ImportStory(s) \/ StartStoryTasks(s) \/ UpdateStory(s) \/ GenerateStoryTasks(s)
  BY <1>13
     DEF ImportStory, StartStoryTasks, UpdateStory, ReplaceUserStory, GenerateStoryTasks, UserStoryIsIdle
<1>14. CASE RetrySession(s) \/ FetchJob(s) \/ Expire(s) \/ RescueJob(s)
  BY <1>1, <1>2, <1>14 DEF RetrySession, FetchJob, Expire, RescueJob
<1>. QED
  BY <1>9, <1>10, <1>11, <1>12, <1>13, <1>14 DEF SessionStep, HandlerStep

\* and that of a user-added one never is: a step that leaves the session in place keeps
\* completed content complete, so a retry does not pay for a second story.
THEOREM ContentIsPaidOnce ==
    ASSUME \A s \in Sessions : IsUserAdded(s) \/ Undisturbed
    PROVE  Spec => ContentCheckpointKept
<1>1. IInv /\ NothingOutlivesDeletion /\ AllPromised /\ AllPromised' /\ [Next]_vars =>
        [\A s \in Sessions : ContentDone(s) /\ Exists(s)' => ContentDone(s)']_vars
  <2>. SUFFICES ASSUME IInv, NothingOutlivesDeletion, AllPromised, AllPromised', Next,
                       NEW s \in Sessions, ContentDone(s), Exists(s)'
                PROVE  ContentDone(s)'
    OBVIOUS
  <2>1. CASE IsUserAdded(s)
    BY <2>1 DEF AllPromised, Promised
  <2>2. CASE ~IsUserAdded(s)
    <3>1. Undisturbed /\ Promised(s)
      BY <2>2 DEF AllPromised
    <3>2. CASE SessionStep(s)
      BY <2>2, <3>1, <3>2, PaidOnce
    <3>3. ASSUME RowKept(s) PROVE ContentDone(s)'
      BY <3>3 DEF RowKept
    <3>4. CASE Crash
      BY <3>3, <3>4 DEF Crash, store, RowKept
    <3>5. ASSUME NEW t \in Sessions \ {s}, SessionStep(t) PROVE ContentDone(s)'
      BY <3>3, <3>5, OthersRowsKept
    <3>. QED  BY <3>2, <3>4, <3>5 DEF Next, SessionStep
  <2>. QED  BY <2>1, <2>2
<1>. QED
  BY <1>1, PromisesAreKept, InductiveInvariant, DeletionIsFinal, PTL DEF Spec, ContentCheckpointKept

(***************************************************************************)
(* The refinement.  A step writes one session, so it is enough to say what *)
(* it does to the learner's view of that one.                              *)
(***************************************************************************)
\* What the learner can read of a session.
TextShown(s) == IF Readable(s) \/ IsUserAdded(s) THEN session[s].content ELSE 0

\* A step the learner does not see, and one that shows a session as v with text x.
Unseen(s) == StudyView(s)' = StudyView(s) /\ TextShown(s)' = TextShown(s)
Shows(s, v, x) == StudyView(s)' = v /\ TextShown(s)' = x

\* The steps of StudySession, on one session.
StudyStep(s) ==
    \/ Unseen(s)
    \/ StudyView(s) = "absent" /\ ~IsUserAdded(s) /\ Shows(s, "preparing", 0)
    \/ StudyView(s) = "absent" /\ IsUserAdded(s) /\ Shows(s, "readable", 1)
    \/ /\ StudyView(s) = "preparing"
       /\ \E x \in 1..MaxRevision : (TextShown(s) # 0 => x = TextShown(s)) /\ Shows(s, "readable", x)
    \/ StudyView(s) = "preparing" /\ ~IsUserAdded(s) /\ Shows(s, "failed", TextShown(s))
    \/ /\ StudyView(s) = (IF IsUserAdded(s) THEN "readable" ELSE "failed")
       /\ Shows(s, "preparing", TextShown(s))
    \/ /\ StudyView(s) = "readable" /\ IsUserAdded(s)
       /\ \E x \in 1..MaxRevision : x > TextShown(s) /\ Shows(s, "readable", x)
    \/ StudyView(s) \notin {"absent", "gone"} /\ Shows(s, "gone", 0)

\* The view of the learner as StudySession has it.
StudyViews == [s \in Sessions |-> StudyView(s)]
StudyTexts == [s \in Sessions |->
                  IF Readable(s) \/ IsUserAdded(s) THEN session[s].content ELSE 0]

\* A step of one session is a step of StudySession.
LEMMA StudyLift ==
    ASSUME NEW s \in Sessions, StudyStep(s), \A t \in Sessions \ {s} : Unseen(t)
    PROVE  [Study!Next]_<<StudyViews, StudyTexts>>
<1>0. PICK v, x : v = StudyView(s)' /\ x = TextShown(s)'
  OBVIOUS
<1>1. StudyTexts = [t \in Sessions |-> TextShown(t)]
  BY DEF StudyTexts, TextShown
<1>2. StudyTexts' = [t \in Sessions |-> TextShown(t)']
  BY DEF StudyTexts, TextShown
<1>3. StudyViews' = [StudyViews EXCEPT ![s] = v] /\ StudyTexts' = [StudyTexts EXCEPT ![s] = x]
  BY <1>0, <1>1, <1>2 DEF StudyViews, Unseen
<1>4. StudyViews[s] = StudyView(s) /\ StudyTexts[s] = TextShown(s)
  BY <1>1 DEF StudyViews
<1>5. Study!Show(s, v, x)
  BY <1>3 DEF Study!Show, StudyViews, StudyTexts
<1>6. CASE Unseen(s)
  <2>1. v = StudyView(s) /\ x = TextShown(s)
    BY <1>0, <1>6 DEF Unseen
  <2>. QED  BY <1>3, <1>4, <2>1 DEF StudyViews, StudyTexts
<1>7. CASE StudyView(s) = "absent" /\ ~IsUserAdded(s) /\ Shows(s, "preparing", 0)
  <2>1. Study!Order(s)
    BY <1>0, <1>4, <1>5, <1>7 DEF Study!Order, Shows, StudyViews
  <2>. QED  BY <2>1 DEF Study!Next
<1>8. CASE StudyView(s) = "absent" /\ IsUserAdded(s) /\ Shows(s, "readable", 1)
  <2>1. Study!Bring(s)
    BY <1>0, <1>4, <1>5, <1>8 DEF Study!Bring, Shows, StudyViews
  <2>. QED  BY <2>1 DEF Study!Next
<1>9. CASE /\ StudyView(s) = "preparing"
           /\ \E y \in 1..MaxRevision :
                 (TextShown(s) # 0 => y = TextShown(s)) /\ Shows(s, "readable", y)
  <2>1. Study!Publish(s)
    BY <1>0, <1>4, <1>5, <1>9 DEF Study!Publish, Shows, StudyViews, StudyTexts
  <2>. QED  BY <2>1 DEF Study!Next
<1>10. CASE StudyView(s) = "preparing" /\ ~IsUserAdded(s) /\ Shows(s, "failed", TextShown(s))
  <2>1. /\ StudyViews' = [StudyViews EXCEPT ![s] = "failed"]
        /\ StudyTexts' = [StudyTexts EXCEPT ![s] = StudyTexts[s]]
    BY <1>0, <1>3, <1>4, <1>10 DEF Shows
  <2>2. Study!Fail(s)
    BY <1>4, <1>10, <2>1 DEF Study!Fail, Study!Show, StudyViews, StudyTexts
  <2>. QED  BY <2>2 DEF Study!Next
<1>11. CASE /\ StudyView(s) = (IF IsUserAdded(s) THEN "readable" ELSE "failed")
            /\ Shows(s, "preparing", TextShown(s))
  <2>1. /\ StudyViews' = [StudyViews EXCEPT ![s] = "preparing"]
        /\ StudyTexts' = [StudyTexts EXCEPT ![s] = StudyTexts[s]]
    BY <1>0, <1>3, <1>4, <1>11 DEF Shows
  <2>2. Study!Prepare(s)
    BY <1>4, <1>11, <2>1 DEF Study!Prepare, Study!Show, StudyViews, StudyTexts
  <2>. QED  BY <2>2 DEF Study!Next
<1>12. CASE /\ StudyView(s) = "readable" /\ IsUserAdded(s)
            /\ \E y \in 1..MaxRevision : y > TextShown(s) /\ Shows(s, "readable", y)
  <2>1. Study!Edit(s)
    BY <1>0, <1>4, <1>5, <1>12 DEF Study!Edit, Shows, StudyViews, StudyTexts
  <2>. QED  BY <2>1 DEF Study!Next
<1>13. CASE StudyView(s) \notin {"absent", "gone"} /\ Shows(s, "gone", 0)
  <2>1. Study!Remove(s)
    BY <1>0, <1>4, <1>5, <1>13 DEF Study!Remove, Shows, StudyViews, StudyTexts
  <2>. QED  BY <2>1 DEF Study!Next
<1>. QED
  BY <1>6, <1>7, <1>8, <1>9, <1>10, <1>11, <1>12, <1>13 DEF StudyStep

\* A step that does not change the row is not seen,
LEMMA UnseenRow ==
    ASSUME NEW s \in Sessions, session'[s] = session[s]
    PROVE  Unseen(s)
  BY DEF Unseen, StudyView, TextShown

\* nor is one that keeps the text and the view the status stands for.
LEMMA SeenRow ==
    ASSUME NEW s \in Sessions, NEW row \in Row, session'[s] = row
    PROVE  /\ row.status = "none" => StudyView(s)' = "absent"
           /\ row.status \in {"pending", "generating"} => StudyView(s)' = "preparing"
           /\ row.status \in {"ready", "reading", "complete"} => StudyView(s)' = "readable"
           /\ row.status = "failed" => StudyView(s)' = "failed"
           /\ row.status = "deleted" => StudyView(s)' = "gone"
           /\ TextShown(s)' = IF row.status \in {"ready", "reading", "complete"} \/ IsUserAdded(s)
                              THEN row.content ELSE 0
<1>1. session'[s].status = row.status /\ session'[s].content = row.content
  OBVIOUS
<1>. QED  BY <1>1 DEF StudyView, TextShown

\* The same before a step.
LEMMA ShownRow ==
    ASSUME NEW s \in Sessions, session[s] \in Row
    PROVE  /\ session[s].status = "none" => StudyView(s) = "absent"
           /\ session[s].status \in {"pending", "generating"} => StudyView(s) = "preparing"
           /\ session[s].status \in {"ready", "reading", "complete"} => StudyView(s) = "readable"
           /\ session[s].status = "failed" => StudyView(s) = "failed"
           /\ session[s].status = "deleted" => StudyView(s) = "gone"
           /\ TextShown(s) = IF session[s].status \in {"ready", "reading", "complete"} \/ IsUserAdded(s)
                             THEN session[s].content ELSE 0
  BY DEF StudyView, TextShown

\* A status that a run writes: its session is in preparation,
LEMMA PreparingStudy ==
    ASSUME NEW s \in Sessions, session[s] \in Row, StatusSet(s, "generating"), Exists(s),
           IF IsUserAdded(s) THEN session[s].status # "failed" ELSE ~Readable(s)
    PROVE  StudyStep(s)
<1>1. [session[s] EXCEPT !.status = "generating"] \in Row /\ session[s].status \in Statuses
  BY DEF Statuses
<1>2. Shows(s, "preparing", IF IsUserAdded(s) THEN session[s].content ELSE 0)
  BY <1>1, SeenRow DEF StatusSet, Shows
<1>. QED  BY <1>1, <1>2, ShownRow DEF StudyStep, Unseen, Shows, Statuses

\* readable again,
LEMMA ReadableStudy ==
    ASSUME NEW s \in Sessions, session[s] \in Row, NEW status \in {"ready", "reading", "complete"},
           StatusSet(s, status), Exists(s), session[s].status # "failed", session[s].content # 0
    PROVE  StudyStep(s)
<1>1. [session[s] EXCEPT !.status = status] \in Row /\ session[s].status \in Statuses
  BY DEF Statuses
<1>2. Shows(s, "readable", session[s].content)
  BY <1>1, SeenRow DEF StatusSet, Shows
<1>3. session[s].content \in 1..MaxRevision
  BY RevisionAssumption DEF Revisions
<1>. QED  BY <1>1, <1>2, <1>3, ShownRow DEF StudyStep, Unseen, Shows, Statuses

\* or has failed.
LEMMA FailedStudy ==
    ASSUME NEW s \in Sessions, session[s] \in Row, StatusSet(s, "failed"), Exists(s),
           ~IsUserAdded(s), ~Readable(s)
    PROVE  StudyStep(s)
<1>1. [session[s] EXCEPT !.status = "failed"] \in Row /\ session[s].status \in Statuses
  BY DEF Statuses
<1>2. Shows(s, "failed", 0)
  BY <1>1, SeenRow DEF StatusSet, Shows
<1>. QED  BY <1>1, <1>2, ShownRow DEF StudyStep, Unseen, Shows, Statuses

\* A run is seen when it writes the status, and the text it stores is not seen yet.
LEMMA PipelineStudy ==
    ASSUME NEW s \in Sessions, Turn(s), Shown(s), PipelineStep(s)
    PROVE  StudyStep(s)
<1>. USE DEF Turn
<1>1. ASSUME UNCHANGED session PROVE StudyStep(s)
  BY <1>1, UnseenRow DEF StudyStep
<1>2. ASSUME NEW g, NEW status, WriteStage(s, g, status) PROVE StudyStep(s)
  BY <1>1, <1>2 DEF WriteStage, UpsertStage, store
<1>3. StoreTypeOK /\ session[s] \in Row
  BY DEF IInv, StoreTypeOK
<1>4. CASE BeginGenerating(s)
  <2>1. CASE DbWorks(s) /\ UpdateSessionStatus(s, "generating")
    <3>1. StatusSet(s, "generating") /\ Exists(s)
      BY <1>3, <2>1, StatusRow
    <3>2. ~IsUserAdded(s) /\ ~Readable(s)
      BY <1>4 DEF BeginGenerating, UserRunInv, ContentLabels, Promised
    <3>. QED  BY <1>3, <3>1, <3>2, PreparingStudy
  <2>. QED  BY <1>1, <1>4, <2>1 DEF BeginGenerating, Abort, store
<1>5. CASE RestartTasks(s)
  <2>1. CASE DbWorks(s) /\ UpdateSessionStatus(s, "generating")
    <3>1. StatusSet(s, "generating") /\ Exists(s)
      BY <1>3, <2>1, StatusRow
    <3>2. IF IsUserAdded(s) THEN session[s].status # "failed" ELSE ~Readable(s)
      BY <1>5, <3>1 DEF RestartTasks, Promised
    <3>. QED  BY <1>3, <3>1, <3>2, PreparingStudy
  <2>. QED  BY <1>1, <1>5, <2>1 DEF RestartTasks, Abort, store
<1>6. CASE FinishTasks(s)
  <2>1. ASSUME DbWorks(s), NEW completed, UpdateSessionStatus(s, FinalStatus(s, completed))
        PROVE  StudyStep(s)
    <3>1. StatusSet(s, FinalStatus(s, completed)) /\ Exists(s) /\ At(s, "tasks")
      BY <1>3, <1>6, <2>1, StatusRow DEF FinishTasks
    <3>2. session[s].status # "failed" /\ session[s].content # 0
      BY <3>1 DEF Promised
    <3>3. CASE FinalStatus(s, completed) \in {"ready", "reading", "complete"}
      BY <1>3, <3>1, <3>2, <3>3, ReadableStudy
    <3>4. CASE FinalStatus(s, completed) \notin {"ready", "reading", "complete"}
      <4>1. FinalStatus(s, completed) = "failed" /\ ~IsUserAdded(s)
        BY <3>4 DEF FinalStatus, ReadableUserStoryStatus
      <4>2. ~Readable(s)
        BY <3>1, <4>1 DEF Promised
      <4>. QED  BY <1>3, <3>1, <4>1, <4>2, FailedStudy
    <3>. QED  BY <3>3, <3>4
  <2>. QED  BY <1>1, <1>6, <2>1 DEF FinishTasks, Abort, store
<1>7. CASE MarkFailed(s)
  <2>1. CASE DbWorks(s) /\ UpdateSessionStatus(s, "failed")
    <3>1. StatusSet(s, "failed") /\ Exists(s)
      BY <1>3, <2>1, StatusRow
    <3>2. ~IsUserAdded(s) /\ ~Readable(s)
      BY <1>7, <2>1 DEF MarkFailed, Promised
    <3>. QED  BY <1>3, <3>1, <3>2, FailedStudy
  <2>. QED  BY <1>1, <1>7, <2>1 DEF MarkFailed, store
<1>8. CASE StoreContent(s)
  <2>1. ~IsUserAdded(s) /\ ~Readable(s)
    BY <1>8 DEF StoreContent, UserRunInv, ContentLabels, Promised
  <2>2. session'[s].status = session[s].status
    BY <1>3, <1>8 DEF StoreContent, SaveContent, StoreTypeOK
  <2>. QED  BY <2>1, <2>2 DEF StudyStep, Unseen, StudyView, TextShown
<1>9. CASE \/ BeginStage(s) \/ FailStage(s) \/ CompleteScopeCheck(s) \/ CompleteContent(s)
           \/ CompleteTokenization(s)
  BY <1>2, <1>9
     DEF BeginStage, BeginStageOf, FailStage, FailStageOf, CompleteScopeCheck, CompleteContent,
         CompleteTokenization
<1>10. CASE \/ Generate(s) \/ Select(s) \/ SaveTokens(s) \/ Retry(s) \/ Resume(s)
            \/ RebuildTaskContext(s)
  BY <1>1, <1>10
     DEF Generate, Select, SaveTokens, ReplaceStoryTokens, Retry, Resume, RebuildTaskContext, Abort, store
<1>11. CASE \E t \in TaskTypes : \/ BeginTaskType(s, t) \/ CreateTaskRows(s, t)
                                 \/ FailTaskType(s, t) \/ CompleteTaskType(s, t)
  BY <1>1, <1>2, <1>11
     DEF BeginTaskType, CreateTaskRows, CreateTask, FailTaskType, CompleteTaskType
<1>. QED
  BY <1>4, <1>5, <1>6, <1>7, <1>8, <1>9, <1>10, <1>11 DEF PipelineStep

\* A step of a session is a step of StudySession or is not seen.
LEMMA OwnStudy ==
    ASSUME NEW s \in Sessions, Turn(s), Shown(s), SessionStep(s)
    PROVE  StudyStep(s)
<1>. USE DEF Turn
<1>1. ASSUME UNCHANGED session PROVE StudyStep(s)
  BY <1>1, UnseenRow DEF StudyStep
<1>2. StoreTypeOK /\ session[s] \in Row /\ session[s].status \in Statuses /\ session[s].content \in Revisions
  BY DEF IInv, StoreTypeOK
<1>3. CASE GenerateSession(s)
  <2>1. /\ session[s].status = "none" /\ ~IsUserAdded(s)
        /\ session'[s] = [session[s] EXCEPT !.status = "pending"]
    BY <1>2, <1>3 DEF GenerateSession, CreateSession, StoreTypeOK
  <2>2. [session[s] EXCEPT !.status = "pending"] \in Row
    BY <1>2 DEF Statuses
  <2>. QED  BY <1>2, <2>1, <2>2, SeenRow, ShownRow DEF StudyStep, Shows
<1>4. CASE ImportStory(s)
  <2>. DEFINE row == [session[s] EXCEPT !.status = "ready", !.content = 1]
  <2>1. session[s].status = "none" /\ IsUserAdded(s) /\ session'[s] = row
    BY <1>2, <1>4 DEF ImportStory, ImportText, StoreTypeOK
  <2>2. row \in Row /\ row.status = "ready" /\ row.content = 1
    <3>1. 1 \in Revisions
      BY RevisionAssumption DEF Revisions
    <3>. QED  BY <1>2, <3>1 DEF Statuses
  <2>. HIDE DEF row
  <2>3. Shows(s, "readable", 1)
    BY <2>1, <2>2, SeenRow DEF Shows
  <2>. QED  BY <1>2, <2>1, <2>3, ShownRow DEF StudyStep
<1>5. CASE PrepareTaskSource(s)
  <2>1. CASE SetUserStoryTaskSource(s, request[s].excerpt)
    <3>. DEFINE row == [session[s] EXCEPT !.status = "generating", !.excerpt = request[s].excerpt]
    <3>1. IsUserAdded(s) /\ session'[s] = row /\ ~InBatch(s) /\ Exists(s)
      BY <1>2, <2>1 DEF SetUserStoryTaskSource, UserStoryIsIdle, StoreTypeOK
    <3>2. row \in Row /\ row.status = "generating" /\ row.content = session[s].content
      BY <1>2 DEF Statuses, Request
    <3>. HIDE DEF row
    <3>3. Shows(s, "preparing", session[s].content)
      BY <3>1, <3>2, SeenRow DEF Shows
    <3>4. Readable(s)
      BY <1>2, <3>1 DEF Promised, Statuses
    <3>. QED  BY <1>2, <3>1, <3>3, <3>4, ShownRow DEF StudyStep
  <2>. QED  BY <1>1, <1>5, <2>1 DEF PrepareTaskSource, store
<1>6. CASE StartStoryTasks(s)
  BY <1>1, <1>6 DEF StartStoryTasks, store
<1>7. CASE UpdateStory(s)
  <2>. DEFINE row == [session[s] EXCEPT !.status = "ready", !.content = session[s].content + 1,
                                        !.excerpt = 0, !.reading = FALSE, !.completed = FALSE]
  <2>1. IsUserAdded(s) /\ session'[s] = row /\ ~InBatch(s) /\ Exists(s)
    BY <1>2, <1>7 DEF UpdateStory, ReplaceUserStory, UserStoryIsIdle, StoreTypeOK
  <2>2. session[s].content + 1 \in 1..MaxRevision /\ session[s].content + 1 > session[s].content
        /\ 0 \in Revisions /\ session[s].content + 1 \in Revisions
    BY <1>2, <1>7, RevisionAssumption DEF UpdateStory, ReplaceUserStory, Revisions
  <2>3. row \in Row /\ row.status = "ready" /\ row.content = session[s].content + 1
    BY <1>2, <2>2 DEF Statuses
  <2>. HIDE DEF row
  <2>4. Shows(s, "readable", session[s].content + 1)
    BY <2>1, <2>3, SeenRow DEF Shows
  <2>5. Readable(s)
    BY <1>2, <2>1 DEF Promised, Statuses
  <2>6. StudyView(s) = "readable" /\ TextShown(s) = session[s].content
    BY <1>2, <2>5, ShownRow
  <2>. QED  BY <2>1, <2>2, <2>4, <2>6 DEF StudyStep
<1>8. CASE Learner(s)
  <2>1. CASE MarkSessionReading(s)
    <3>1. /\ session[s].status = "ready"
          /\ session'[s].status = "reading" /\ session'[s].content = session[s].content
      BY <1>2, <2>1 DEF MarkSessionReading, StoreTypeOK
    <3>. QED  BY <3>1 DEF StudyStep, Unseen, StudyView, TextShown
  <2>2. CASE MarkSessionComplete(s)
    <3>1. /\ session[s].status = "reading"
          /\ session'[s].status = "complete" /\ session'[s].content = session[s].content
      BY <1>2, <2>2 DEF MarkSessionComplete, StoreTypeOK
    <3>. QED  BY <3>1 DEF StudyStep, Unseen, StudyView, TextShown
  <2>3. CASE SetSessionArchived(s, ~session[s].archived)
    <3>1. session'[s].status = session[s].status /\ session'[s].content = session[s].content
      BY <1>2, <2>3 DEF SetSessionArchived, StoreTypeOK
    <3>. QED  BY <3>1 DEF StudyStep, Unseen, StudyView, TextShown
  <2>4. CASE DeleteSession(s)
    <3>1. /\ Exists(s)
          /\ session'[s].status = "deleted" /\ session'[s].content = 0
      BY <1>2, <2>4 DEF DeleteSession, StoreTypeOK, EmptyRow
    <3>2. Shows(s, "gone", 0)
      BY <3>1 DEF Shows, StudyView, TextShown
    <3>. QED  BY <1>2, <3>1, <3>2, ShownRow DEF StudyStep, Statuses
  <2>. QED  BY <1>8, <2>1, <2>2, <2>3, <2>4 DEF Learner
<1>9. CASE RunStep(s)
  BY <1>1, <1>9, PipelineStudy DEF RunStep, PassGate, CheckStatus, Claim, EndRun, store
<1>10. CASE \/ RetrySession(s) \/ GenerateStoryTasks(s) \/ StartGeneration(s) \/ FetchJob(s)
            \/ Expire(s) \/ RescueJob(s)
  BY <1>1, <1>10
     DEF RetrySession, GenerateStoryTasks, StartGeneration, FetchJob, Expire, RescueJob, store
<1>. QED
  BY <1>3, <1>4, <1>5, <1>6, <1>7, <1>8, <1>9, <1>10 DEF SessionStep, HandlerStep

\* At the start the learner has no sessions.
LEMMA StudyInit == Init => Study!Init
  BY DEF Init, StoreInit, EmptyRow, StudyView, Study!Init

\* Every step of the server is a step of StudySession or is not seen.
LEMMA StudyNext ==
    ASSUME \A s \in Sessions : Shown(s), IInv, NothingOutlivesDeletion, AllPromised, [Next]_vars
    PROVE  [Study!Next]_<<StudyViews, StudyTexts>>
<1>1. ASSUME UNCHANGED session PROVE UNCHANGED <<StudyViews, StudyTexts>>
  BY <1>1 DEF StudyViews, StudyTexts, StudyView
<1>2. CASE UNCHANGED vars \/ Crash
  BY <1>1, <1>2 DEF vars, Crash, store
<1>3. ASSUME NEW s \in Sessions, SessionStep(s)
      PROVE  [Study!Next]_<<StudyViews, StudyTexts>>
  <2>1. StudyStep(s)
    BY <1>3, SessionTyped, OwnStudy DEF AllPromised, Turn
  <2>2. \A t \in Sessions \ {s} : Unseen(t)
    BY <1>3, OthersRowsKept, UnseenRow DEF RowKept
  <2>. QED  BY <2>1, <2>2, StudyLift
<1>. QED  BY <1>2, <1>3 DEF Next, SessionStep

\* The sessions of the server are the sessions that StudySession promises the learner,
\* whatever runs, retries, deadlines, crashes and redeliveries are behind them: a text
\* that was shown is not replaced, hidden for good or lost.
THEOREM SessionsImplementStudySession ==
    ASSUME \A s \in Sessions : Shown(s)
    PROVE  Spec => ImplementsStudySession
<1>1. Init => Study!Init
  BY StudyInit
<1>2. IInv /\ NothingOutlivesDeletion /\ AllPromised /\ [Next]_vars
        => [Study!Next]_<<StudyViews, StudyTexts>>
  BY StudyNext
<1>3. Spec => [][Study!Next]_<<StudyViews, StudyTexts>>
  BY <1>2, PromisesAreKept, InductiveInvariant, DeletionIsFinal, PTL DEF Spec
<1>. QED
  BY <1>1, <1>3, PTL DEF Spec, ImplementsStudySession, Study!Spec, StudyViews, StudyTexts
=============================================================================
