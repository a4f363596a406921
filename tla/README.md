# Verification of the study server

tifl is a language-learning server: a learner orders *sessions* (a story or a
set of phrases written by an LLM for what the learner knows, or a text the
learner brings), reads them, looks words up, does tasks that are graded, asks
for tasks to be redone and talks about a story. This directory holds TLA+
models of the server in `src/cmd/server` and `src/internal`, of the LLM gateway and
of the parts of the web client that decide what reaches the server, the TLC
configurations that check them on small instances, and TLAPS proofs that hold
for every instance.

`src/` below means the repository's source. Line numbers are in `PROJECT.json`
(`map`), one entry per definition of the models.

## 1. Inventory of the system

| Component | Source (under `src/internal/` unless said otherwise) | State it keeps | What is hard | What makes it correct | Module |
|---|---|---|---|---|---|
| Session repository | `db/sql_pipeline.go`, `domain/session.go` | rows of sessions, stages, stories, tokens, tasks | status writes that look at nothing, deletion during a run | status agrees with text, tokens, checkpoints, tasks, reading marks | `SessionStore` |
| Story pipeline | `story/pipeline.go`, `story/import.go` | checkpoints in the repository | every stage may fail, be cut off or be repeated; dropped errors | `ready` means readable; checkpoints are not redone; a user's text is untouched | `StoryPipeline` |
| Broker, generation queue, session requests | `story/broker.go`, `jobs/generation.go`, gate in `src/cmd/server/main.go`, `handler/sessions.go`, `handler/story_import.go` | claims in memory, River's jobs | uniqueness, crash and redelivery, the ten minutes, snoozing; check, then act | one run per session; each preparation ends; a request takes effect or is refused | `SessionGeneration` |
| Progress stream | `handler/sessions.go` (sessionEvents), `story/broker.go` | subscriptions with a buffer of 32 | dropped events, rows that could not be written or read, a run in another process, an old terminal status | the stream ends, and tells what the rows say, nothing the run did not reach | `ProgressStream` |
| Acquisition engine | `acquire/` | rows of `user_knowledge` | read, change, store without lock or version | a row agrees with itself; counts are not lost | `AcquireEngine` |
| Reader events and signals | `reader/service.go`, `reader/accumulator.go`, `jobs/reader_signals.go` | event log, jobs | at-least-once jobs, jobs of two stories, marks after stores | each event counts once | `ReaderSignals` |
| Skills | `skills/` | XP rows | a row kept across an LLM call and written back | tier and XP agree; a tier counts after it was confirmed | `SkillXp`, `SessionPlan` |
| Task submission, reports, regeneration | `handler/tasks.go`, `handler/task_reports.go`, `jobs/task_regeneration.go`, `story/pipeline.go` | grades, reports, jobs | double submission; cap under concurrency; grade against replacement; a job lost after the commit | at most `cap` replacements; a graded task keeps its content; a final outcome is final | `TaskWork` |
| Planning a story | `topic/`, `skills/level.go`, `skills/constraints.go` | – | repeated and dying runs, rows pending verification, pools and windows | topics differ; level and constraints agree | `SessionPlan` |
| Selector and cached predictions | `selector/`, `predictor/cache.go`, `acquire/` | cached predictions | a goroutine per refresh, three reads per selection | no prediction older than its row | `Predictions` |
| Conversation | `conversation/`, `db/sql_conversations.go` | turns, repair stack | two reads, an LLM call, a write | the stack follows the transcript | `Conversation` |
| Definitions | `reader/definitions.go`, `kaikki/`, `src/cmd/kaikki-translate` | shared and own entries | a cascade against imports and the offline translator | the translator ends | `DefinitionCache` |
| Breakdowns | `reader/definitions.go` | cached breakdowns, phrases, structures | shared flights, partial stores | paid once; a structure names stored phrases | `Breakdowns` |
| Reader pages | `handler/reader.go`, `reader/sentences.go`, `src/web/src/views/reader.tsx` | pages in the browser | page boundaries, crossing loads | a seamless stretch of the text | `ReaderText` |
| Reader client | `src/web/src/views/reader.tsx` | unsent events, bookmarks | failing network, leaving the page | nothing done is lost | `ReaderClient` |
| Reader speech, local store | `handler/reader_speech.go`, `objectstore/local.go` | objects, a cache | two objects per sentence, eviction, writing in place | the times are those of the audio | `ReaderSpeech` |
| Authentication | `auth/`, `db/sql.go`, `src/web/src/api.ts` | refresh tokens, a cookie, tabs | rotation, reuse, lost answers, expiry, failed statements | a tab is signed out by the learner, by crossing requests, after 30 days or by a refresh that failed, and by nothing else | `SignIn` |
| Profile | `handler/profile.go`, `db/profile.go` | settings in two layouts | patches that cross, old keys | an acknowledged patch stays | `Profile` |
| LLM client, budget, gateway | `llm/`, `gateway/` | token counts, loads, failures, cooldowns | check before, record after; retries on both sides; a shift out of its width | bounded overshoot; loads are calls | `ModelCalls` |
| Task composition, content, validation, grades | `tasks/`, `story/pipeline.go` | task rows and targets | what a model may write, asked twice for each flaw; a run repeated after some rows | every stored task can be solved and credits its target | `TaskContent` |
| Step graph, document extraction, language plugins, configuration, pricing, migrations, S3, audio services, tools | `llm/dag.go`, `document/`, `lang/`, `config/`, `pricing/`, `db/migrate.go`, … | – | – | – | not modelled (section 6) |

How they interact: a handler writes rows through the repository and starts a run
either by inserting a job (ordering a session and its job are one transaction)
or, when no queue is configured, by asking the broker for a goroutine. A worker
of the queue calls `Broker.RunGeneration`, which claims the session in memory
and calls the pipeline. The pipeline plans (level, topic, constraints,
selection), calls the LLM through the client and the gateway, writes stages,
text, tokens and tasks back and tells the broker, which tells the progress
streams. Learners read, rate, answer and report at any time; what they do
arrives in `user_knowledge` and `user_skill_xp` through three writers that do
not lock each other out.

`PROJECT.json` lists every hazard found in this code with its line, the
properties that cover it, and a note where they cover only a part of it.

## 2. Modules

**The life of a session.** `SessionStore` (rows and statements) is extended by
`StoryPipeline` (Generate, Retry and their stages: `run`, a program counter and
the locals of a session's goroutine) and this by `SessionGeneration` (handlers,
queue, gate, broker, crash, deadline, redelivery, the properties).
`StudySession` is the abstract specification of what a session promises its
learner. `MCSessionGeneration` gives the constants their values.

**What a learner does.** `AcquireEngine` (a row of `user_knowledge`, its stages
and the writer that a grade starts) is extended by `ReaderSignals` (event log,
signal jobs, ratings) and by `TaskWork` (submissions, reports, regenerations),
which also extends `SkillXp` (XP rows, verification). `Learning` composes the two
over the same rows: the reader's jobs and a grade store copies of one row, and share
nothing else. `MCLearning` gives values and restricts who acts.

**Services that share no state with the rest**: `Conversation`, `Breakdowns`,
`ModelCalls`, `ReaderClient`, `ReaderSpeech`, `ReaderText`, `SignIn`, `Profile`,
`SessionPlan`, `Predictions`, `TaskContent`, put together by `MCServices`, whose initial state chooses
the service that acts (`Serving`): a product of them would add states and no
behaviour. `ProgressStream` and `DefinitionCache`, whose properties include
liveness, are put together by `MCProgress` in the same way.

**Proofs**: `SessionGeneration_proofs` and, on top of it, `SessionPromises_proofs`;
`TaskWork_proofs` (with `SkillXp`), on top of it `Learning_proofs`, and on top of that `Undisturbed_proofs`; `Services_proofs`
(`Breakdowns`, `ModelCalls`, `Conversation`, `ReaderSpeech`), `Clients_proofs` (`ReaderClient`, `ReaderText`, `SignIn`,
`Profile`, `ProgressStream`) and `Preparation_proofs` (`Predictions`, `SessionPlan`,
`TaskContent`).

### Correspondence with the code

- **A step is one database operation**, one request to a store or a service, or one
  change under a lock, with the computation before it. Between two steps anything
  else may happen: another run, the learner, a crash, the deadline. Outcomes of the LLM
  are free choices.
- **A text is a revision number** of its session, an audio the number of its
  synthesis, a prediction the version of the row it was computed from, a
  definition its key and source. Properties compare these; words, prompts and scores
  are abstracted. `ReaderText` is the exception, since there the tokens are
  the subject: a token is its class (word, abbreviation, end mark, closing mark,
  space, break). In `TaskContent` a form or an option is what its normalization makes
  of it, and the index of the correct option is counted in halves, so that an odd one is no
  integer.
- `session[s].status` `"none"` is a session that is not created yet, `"deleted"`
  one whose row is gone. The stage `"content"` is `story_generation`,
  `phrase_generation` or `story_import`, whichever the session's kind uses. An
  expression-guided session that yields a story has the steps of a `system` one.
- **Dropped errors stay dropped**: `WriteStage` and `MarkFailed` go on when the
  write fails, as `_ = repo.UpsertStage(...)` and `markSession` do; other writes
  abort the run or fail the stage, as the code's `return` does. `DbWorks`/`DbFails`: a
  write succeeds only inside the context's deadline and on an existing session.
- **Task types** are concurrent in Generate and one after the other in Retry
  (`resumed`). Rows are created before the stage is complete. `TaskContent` has the inside
  of one such stage: the calls of the model and their repetitions, the targets stamped on
  what it wrote, validation, the rows of earlier runs (which one second's rows leave
  unordered), and the grades the task types give.
- **Requests**: `RetrySession`, `UpdateStory`, `Learner` are one guarded
  transaction each; `generateStoryTasks` is three steps, since it reads, then
  commits, then queues; `generateSession` without a queue is two.
- **River** is external and modelled as the code uses it: a job is unique (per
  session, or per learner and story) while pending or running, is taken by a worker, a
  snooze gives its attempt back, an error retries it until the attempts are used up, and
  a job of a dead process is rescued or discarded.
- **Rows that are read, changed and stored** (`Refresh`, `StoreXP`, `Reject`, a
  patch of the profile) are a load and a store of the whole copy, so that a later
  store takes an earlier one back. `ReplaceTaskContent`, the cap, the rotation of a token
  and the exchange of a conversation are transactions, and one step.
- **Faults** are chosen per behaviour in `TaskWork` (`faultKind`): a crash, a failed
  insertion of the job, an insertion that took place although it was reported as
  failed, or a failed generation. The other modules count theirs.
- **History variables** let a property speak of the behaviours the code keeps it
  for. `torn`: an exchange was made of a conversation and a transcript of different age.
  `disturbed`: a sentence's object was read or written while it was being
  written. `crossed`: an answer was lost, two tabs renewed at once, or the learner
  signed out. `expired` and `failedRefreshes`: the server ended the session, because its 30
  days were over or because a statement of `Service.Refresh` failed, which is answered like a
  token that is not valid. `reached`: what the runs brought a stage to, whether its row could be
  written or not. `replaced`: the pages were replaced while another was being loaded.
  `mixed` and `selection.doubt`: writers of an item have crossed. `said` is
  `Uncertain` once two patches cross. In all of these the code loses something
  (a stale stack, an alignment of other audio, a signed-out tab) and promises
  nothing else; the models contain the steps, and the hazards' notes say so.
- The server makes its definition service without the live Wiktionary
  (`handler/handler.go:278`), so the cascade has no such step.

Abstractions that lose something: the listing limit of 20 in the gate; the
`stories` row that may survive `DeleteSession` in the learner's library; a queue
in a database other than the repository's (ordering then is not one
transaction); Go panics; River's count of attempts for a verification; the rolling
window of the budget (tokens only add up); ranges and formats of audio; the rank the
selector orders its items by; River's default of taking a completed job of the same
arguments for a duplicate while its row is there (a slot is free at completion here); an
empty alignment of a single sentence, which the code accepts; rejected and repaired answers
to a breakdown, which are paid for and not counted; several fields in one patch; a story edit
while the finish is being sent.

## 3. Runs

`CHECK_DEADLOCK FALSE` is set in every cfg because the system may stop: when
sessions are ready and the bounds are used up there is nothing left to do.

| Run | Instance | Properties |
|---|---|---|
| `generation` | one topic-guided session, two task types, LLM failures, retries, deletion | `PreparingIsOwned`: no session is preparing without a job, a run or a handler. `NothingOutlivesDeletion`. `ContentCheckpointKept`: no completed content stage is opened again |
| `redelivery` | one generated session, two crashes, three attempts, a retry, deletion | `ReadyMeansReadable`: linked text, its tokens, and a completed task type made from this text. `ImplementsStudySession` |
| `user_tasks` | one user-added session, two task types, deadlines, three requests | `ReadingLifecyclePreserved`; `ImplementsStudySession` |
| `two_sessions` | a story and a phrase session that share the gate, archiving, fairness | `EveryRequestSettles`, `TypeOK` (attempts through snoozes) |
| `in_process` | a user-added and a phrase session without a queue, every request, a crash, database errors | `ClaimsAreRuns`; `RunsKeepUserText` |
| `learning` | one learner, busy with reading, rereading, rating, studying, answering or reporting | see below |
| `services` | eleven services, one per behaviour | see below |
| `progress` | the stream of a session, or the translator of definitions | `TableEndIsExact`: a stream tells of no stage more than the run reached, and one that the table ends has told at least what every row says. `StreamsEnd`, `TranslationEnds` |

`learning` — knowledge rows: `RowsAreCoherent` (a stored stage is one its own
counters reached, whichever copy was stored last), `NeverOvercounted` (an event counts
once more per failed run at most), `OneStoryIsCounted` (marked means counted and the latest
rating shows, for the words of a learner who reads one story and neither rates nor answers
about them outside it), `SignalsDerived` (what was in the log when its job
was inserted gets processed). Skill rows: `TierAgreesWithXp`,
`ConfirmedBeforeEffective`. Tasks: `CreditsAreGrades` (never more credits than
grades), `OneAnswerIsCredited` (a correct answer leaves its mark in the rows of its words and skills
when nothing is read or rated and no other answer is given),
`CapRespected`, `TerminalReportIsFinal`, `GradedContentKept`, `ReportsResolve`
(a waiting report gets a final outcome, unless a process dies between its commit and
its job, or on its last attempt).

`services` — `UntornStackFollows` (repair stack and transcript),
`BreakdownPaidOnce` and `StructureNamesPhrases`, `BudgetOvershootBounded` and
`LoadIsCalls`, `NothingReadIsLost` (events, the finish and bookmarks of an open
page), `SpeechIsCoherent` (stored and cached audio is whole and has its own
times; bytes are accounted), `TextIsSeamless` (pages join, the bookmark resumes at
its word, sentences are whole), `StaysSignedIn` (until requests cross, no family is ended for a
reused token, and nobody is signed out unless a family expired or a refresh failed), `PatchesStick`,
`SettingsDiffer` (topics within the window differ), `LevelMatchesConstraints` (there is a
way of rules to a derived level of which every category a rule requires has a skill the
constraints allow), `SelectionIsCurrent` (no item is
ranked by a prediction older than its row), `EveryTaskCanBeSolved` (whatever a model
writes, a stored task has an answer its page lets the learner send that is graded correct and
credits a target).

Four runs show where the code does not do what its documentation says:

| Run | Behaviour |
|---|---|
| `standoff` | `QueuedJobRuns`: two task requests mark both sessions `generating` at once; each job is snoozed because of the other, for ever |
| `stale_checkpoint` | `ReadyMeansReadable` of a topic-guided session under crashes: a text stored by a run that dies leaves the tokenization checkpoint of the text before; a failed scope check and a retry then make the session ready without tokens of its text |
| `lost_update` | the job that derives a story's signals and a graded task read one row of `user_knowledge`; the later store takes the earlier one's count back. The comments speak of a gate per learner, which no worker uses |
| `placeholder` | the targets of a session are stamped on what a model wrote so that none of its placeholders leaks through, but the construction of a production task stays the model's; it becomes a target all the same, and the foreign key then fails the stage |

The passing runs leave out what is known to differ, and the hazards' notes name
it: two jobs pass the gate before either session is marked; a task request
between a batch's last write and the end of its job is dropped by the job's
uniqueness; a redelivered job generates a session again that is being read; a
run that is cut off by the deadline cannot record its failure; an excerpt of a text
that was edited meanwhile. Hence `generation` has no deadline and no crash,
`redelivery` no reading, `user_tasks` no retry, no crash and no database error,
`two_sessions` no user-added sessions. The modules contain all of these steps; the
instances stay clear of them by their faults and requests.

### Bounds

*Sessions.* `MaxRevision` is 2 or 3: two texts are needed to confuse an old one
with a new one, a third for an attempt that repeats. `MaxRequests` (retry, task
and edit requests together) is at most 3: a task request, an edit between its steps
and another task request. `MaxCrashes` is at most 2 and `MaxAttempts` 2 or 3 (the code
has 3). Two task types are enough for one that completes and one that fails. Two sessions
suffice for the gate, whose condition is about one other session. With a bound
too small for a text `SaveContent` is disabled and the stage may still fail, so no
run gets stuck; liveness is checked where the bound is not reached.

*Learning.* Two words, two stories with five events between them, two
submissions of two tasks (one graded by a rule, one by the model), two reports
against a cap of 1; two attempts of a signal job and one failed run, two
attempts of a regeneration; one rating; two tiers of ten points, tasks worth 10 and
20, a penalty of 5, so that one grade may cross a tier, a second one another, and a wrong
answer falls back. The stages' gates are scaled down to counts two events reach. One fault
of each kind, two failed generations. The learner is busy with one part at a time:
all of them at once is out of reach, and any two writers of a row meet in
`rereading` (two jobs), `rating` (job and rating), `studying` (job and grade) or
`answering` (two grades, verifications).

*Services.* Two concurrent requests everywhere. Conversation: seven turns, enough for
a repair that is opened, nested, and closed again. Breakdowns: two sentences that
share a phrase and a word, one lost answer. Model calls: three calls of two requests over two
endpoints, one request tried again by the gateway and the other by the client;
a budget of one call, so that the second crosses it; durations of 3 bits and
failures up to 3, where the shift leaves the width as `1 << 63` does in 64.
Client: two events, two queued saves, two network failures. Speech: two
sentences, two cache entries, five bytes, two syntheses, one fault. Text: every text of
up to three tokens and two long ones, pages of 2 to 3 tokens (the code has 800 and
1200), one failed load. Sign-in: two tabs, one of them with two requests, three
refresh tokens, two losses of access, two endings by the server (a family that expires, a
refresh that fails before or after its commit), and signing in again. After requests crossed
nothing is claimed, so that none of these, nor another sign-in, happens then. Profile: two tabs, three patches, a
preference and three languages, one of them not enabled. Plan: two
levels with pools of 3 and 2 and a third without one (a topic is then chosen as for the
fallback level), a rule to each level above the first, three skills in two categories, a
window of 1; three sessions while no row changes, or one while up to four do, enough for
both rules; one failed run. The window of
the code is 5 and its pools have 5 topics or more: with a pool no larger than the window (those of
the two highest levels), its first topic may be chosen over and over, which `SettingsDiffer` leaves out.
Predictions: two items, two refreshes of one item, a maximal age of 0 ticks, one tick.
Task content: the level with the largest stages (two tasks of a type), two questions, contents
with any combination of flaws, one prior question (the code has 20), two runs of
the stage, one crash or failed statement.

*Progress.* Two stages, a channel of 2 (the code has 32), two runs, so that
a stream may span a retry and its channel may fill. Any write of a stage and any read of the
stages may fail, one read of the session's status, and the first run's write of it, which the
job's next attempt makes up for. (If the last attempt cannot write the status either, the
session says `generating` and its streams go on polling: `MaxRuns` leaves that out.) Definitions: a lemma and a form, two
lookups, batches of 1 (so that a second page begins), one import.

### Fairness

`FairSpec` (`two_sessions`, `standoff`) assumes weak fairness of the steps of a run
and of a handler (a goroutine that can go on does), weak fairness of the
rescue of a job (River's rescuer is periodic) and strong fairness of fetching a
job: the queue takes its jobs in turn, so a job that is available again and again,
between snoozes, is taken.

`MCLearning` assumes weak fairness of the signal job of each story and of the
steps of each report (its handler and its job): River keeps its workers going.
The assumption is per story and per report, because the steps of another job must not
count as progress of this one. `MCProgress` assumes weak fairness of the session's run (and of the job's next
attempt when the run could not write the status: River tries a job again that failed), of
the stream's goroutine (it has a ticker) and of the translator's loop. Nothing is
assumed of the learner, of the answers of LLMs and networks, of crashes or of deadlines;
`services` checks safety only.

## 4. Refinement

`ImplementsStudySession` maps a session's row to `StudySession`'s `view` and
`text`: ordered once, prepared, readable for good; a failed one may be tried
again; a text the learner brought changes only by the learner's edits. It is
checked for a generated session through crashes and redelivery, and for a
user-added one through deadlines, edits and task batches. It is also proved
(`SessionsImplementStudySession`), for any number of sessions, requests and faults as long as
the database does not fail under user-added sessions, and a queue starts the runs of the
others and nobody reads them yet: a redelivered job may take a session that is being read
back to `generating`, which `StudySession` forbids.

## 5. Proofs

Each proof module holds an inductive invariant, one lemma per kind of step, and
the theorems that follow. They hold for any sets and bounds that satisfy the modules' ASSUMEs.

| Module | Theorem | States |
|---|---|---|
| `SessionGeneration_proofs` | `InductiveInvariant`, `TypeCorrect` | `Spec => []IInv`, `[]TypeOK` |
| | `ClaimsAreTheRuns` | `[]ClaimsAreRuns` |
| | `DeletionIsFinal` | `[]NothingOutlivesDeletion`: also with crashes, deadlines and database errors, which the run `generation` leaves out |
| | `UserTextIsKept` | `RunsKeepUserText` |
| `SessionPromises_proofs` | `PromisesAreKept` | `Spec => []AllPromised` |
| | `ReadyIsReadable` | `[]ReadyMeansReadable` where every session is `Spared` |
| | `PreparationIsOwned` | `[]PreparingIsOwned` of generated sessions without faults |
| | `ReadingLifecycleIsPreserved` | `[]ReadingLifecyclePreserved` where every user-added session is `Calm` |
| | `ContentIsPaidOnce` | `ContentCheckpointKept`, undisturbed |
| | `SessionsImplementStudySession` | `ImplementsStudySession` of sessions that are `Shown` |
| `TaskWork_proofs` | `TaskInvariant` | `TaskSpec => []TaskInv` |
| | `CapIsRespected`, `GradesAreFinal`, `OutcomesAreFinal` | `[]CapRespected`, `GradedContentKept`, `TerminalReportIsFinal` |
| | `SkillInvariant` | `SkillSpec => []SkillInv` |
| | `TiersAgree`, `TiersAreConfirmed` | `[]TierAgreesWithXp`, `[]ConfirmedBeforeEffective` |
| `Learning_proofs` | `LearningInvariant` | `LearningSpec => []LearningInv` |
| | `KnowledgeIsCoherent`, `CreditsAreEarned` | `[]RowsAreCoherent`, `[]CreditsAreGrades` |
| | `CountInvariant`, `NothingIsOvercounted` | `LearningSpec => [](LearningInv /\ CountInv)`, `[]NeverOvercounted` |
| `Undisturbed_proofs` | `AloneInvariant`, `OneStoryCounts` | `LearningSpec => [](LearningInv /\ CountInv /\ AloneInv)`, `[]OneStoryIsCounted` |
| | `LearningImplements` | `LearningSpec => TaskSpec /\ SkillSpec` |
| | `PartsKeepTheirPromises` | the theorems of `TaskWork_proofs`, of `LearningSpec` |
| | `LoneInvariant`, `OneAnswerCounts` | `LearningSpec => [](LearningInv /\ SkillInv /\ LoneInv)`, `[]OneAnswerIsCredited` |
| `Services_proofs` | `BreakdownInvariant` | `BreakdownSpec => []BreakdownInv` |
| | `PaidOnce`, `StructuresAreFilled` | `[]BreakdownPaidOnce`, `[]StructureNamesPhrases` |
| | `ModelInvariant` | `ModelSpec => []ModelInv` |
| | `LoadsAreCalls`, `OvershootIsBounded` | `[]LoadIsCalls`, `[]BudgetOvershootBounded` |
| | `ConversationInvariant`, `StacksFollow` | `ConversationSpec => []ConversationInv`, `[]UntornStackFollows` |
| | `SpeechInvariant`, `SpeechStaysCoherent` | `SpeechSpec => []SpeechInv`, `[]SpeechIsCoherent` |
| `Clients_proofs` | `ClientInvariant`, `ReadingIsKept` | `ClientSpec => []ClientInv`, `[]NothingReadIsLost` |
| | `SignInInvariant`, `LearnersStaySignedIn` | `SignInSpec => []SignInInv`, `[]StaysSignedIn` |
| | `ProfileInvariant`, `PatchesAreKept` | `ProfileSpec => []ProfileInv`, `[]PatchesStick` |
| | `StreamInvariant`, `TableTellsExactly` | `StreamSpec => []StreamInv`, `[]TableEndIsExact` |
| | `TextInvariant`, `TextStaysSeamless` | `TextSpec => []TextInv`, `[]TextIsSeamless` |
| `Preparation_proofs` | `PredictionInvariant`, `SelectionsAreCurrent` | `PredictionSpec => []PredictionInv`, `[]SelectionIsCurrent` |
| | `PlanInvariant`, `SettingsAreVaried` | `PlanSpec => []PlanInv`, `[]SettingsDiffer` |
| | `LevelInvariant`, `LevelsMatchConstraints` | `PlanSpec => []LevelInv`, `[]LevelMatchesConstraints` |
| | `ContentInvariant`, `TasksCanBeSolved` | `ContentSpec => []ContentInv`, `[]EveryTaskCanBeSolved` |

**Sessions.** `TypeOK` is not inductive. A snooze takes one from a job's
attempt, which stays a natural number only because a running job has used one;
fetching adds one, which stays within `MaxAttempts` only because a queued job has
one left; and a job is running whenever the gate is at work only because, with a queue,
every run belongs to a running job. `JobInv` says these three things. `ClaimInv` ties the
claims to the program counters. `UserRunInv` says that a run of a user-added session
enters at `retry` and never reaches the stages that write text, tokens and content
checkpoints. `RequestInv` says that the status a handler may put back is not
that of a deleted session, and that a handler of a generated session waits only
without a queue. The pipeline enters the proof once: `PipelineStepEffect` bounds what any
of its steps may write and where it leads.

**What a session promises.** A promise about a session needs only that session's rows, run,
job and handler, so the invariant `Promised(s)` is about one session and a step of another
session cannot break it (`OthersRowsKept`, `OthersWorkKept`). Its parts answer one question
each. `LifeInv` holds for all faults and requests: which fields of a run mean something
at which label, that nobody works for a session that is not created, that an imported text
is complete, that only its run changes the status of a generated session that is not ready.
`WorkInv` says what a run inside its deadline has written at each of its labels, and
`CheckpointInv` when the checkpoints in the table are those of the linked text: not always (between a
new text and its tasks they are those of an older one) but whenever a retry may look at
them. From both follows `ReadyInv`. `OwnedInv` gives `PreparingIsOwned`, `ReadingInv` (while anything
is at work the session is in a batch, so the marks a run has read are those of the row)
gives `ReadingLifecyclePreserved`, `PaidInv` gives `ContentCheckpointKept`, and `ShownInv`, `ReadyInv`
and `PaidInv` give the refinement, which is proved by one lemma per step that says which
step of `StudySession` it is.

Each promise has the hypothesis it was found to need, and without it the code breaks the
promise: `Spared` (user-added; or no faults; or a queue, no database errors and not
topic-guided), since a run that is cut off by a crash must begin again with a new text,
which one without a queue or after a scope check does not; no faults for `PreparingIsOwned`, as a
run cut off by its deadline cannot record its failure; `Calm` (no crash, no database error and no retry),
as a retry is accepted whatever the status, and its run may then read the marks while the
learner still sets them; `Undisturbed` (a queue, no faults, no reading), as a run
that is delivered again begins with the content, complete or not, and so does the job of a
session that is being read. The hypotheses hold in every run that checks the property, and leave sizes, requests and
the number of faults open.

A topic-guided session under crashes is one that `ReadyMeansReadable` does not hold of. A run
reaches the tasks of its first text and dies; the next run stores a second text,
completes the content and dies before the tokenization is marked; the third run is
rejected by the scope check and leaves the session failed with all stages complete,
of the first text. A retry resumes, skips every stage, and the session is ready with the
tokens and tasks of another text than its own, which `domain/session.go:20` rules out. The run
`stale_checkpoint` shows it.

**Tasks.** A report's outcome is changed by its handler and by its job, which may
be delivered again. `ReportInv` ties the outcome to the places of both: a job that may
still write has an outcome that is counted, or found its task graded; and without a fault
only a job at its end has left the outcomes that wait. This gives the finality of outcomes,
and the cap with a count of the reports. It is kept as long as no insertion took place that
was reported as failed (`Certain`). Grades need only the guard of `ReplaceTaskContent`
and that a submission never resets one. `TaskSpec` has all submissions, reports, jobs and
verifications and leaves open what else happens to knowledge and skills; `Learning` adds the
reader, and `LearningImplements` shows that its steps are steps of `TaskSpec` and of `SkillSpec`
or leave both alone, so that what is proved of these holds of the composition.

**Knowledge rows.** Whoever stores a row stores a copy read earlier, so `KnowledgeInv` is about the
rows and every copy that is on its way (`Copies`): each is coherent, and the stages its history
allows are those its counters reach. For the credits, `Credited(i)` are the graded submissions
that have stored their copy of the word's row; the set never shrinks, no copy counts more
than it has members, and a store adds its own submission to it, so a lost update loses credits and
never invents one. `SignalInv` and `AttemptInv` say where the signal jobs and the submissions have a
copy at all.

That no event is counted twice without a failure is again about copies (`CountInv`): a run that fails may leave
rows behind that count what nobody remembers, and a rating or a grade may store such a row later. So
there is an account for each item and each kind of thing that counts. It holds everything that is due, once
for each failed run, and what the present runs have taken up since (`Spent`: an event that is marked
or that a run has begun with, a story whose words are loaded, a target that a second reading
no longer owes). What is held of an item, in its row or in a copy, is within its accounts
(`Afforded`); a step that adds to a copy adds as much to an account (`Paid`, `Covered`), a
failure turns what was spent into another share of all that is due (`AccountAfterFailure`), and
nothing else leaves an account (`Remembers`). That a run adds an event once rests on `RunShape`: it takes
its events in their order, all of one story, and marks them last.

That nothing is lost is another matter: two writers of a row do lose counts (the run
`lost_update`), so it is proved of a learner whom nobody disturbs. Both properties are
stated by what was read, rated and answered so far, not by who may act in an instance, and the theorems
are about `LearningSpec`, in which everyone may. `AloneInv` is about one story that is read, with its
runs failing and repeated as they may. The row of a word counts at least what is marked, and
the run's copy of it what the run has begun with besides (`CountedAlone`); a failure
drops the copy and marks nothing, so it is the marks that the rows must cover. It rests on the order
of the events (`InTurn`): they reach the log, are taken up and are marked in their order, so a run
leaves out no event before one it has, and the latest rating is applied last. `LoneInv` follows the only
submission through its four parts: it is a first answer (`GradedOf` has no other), what was
shown waits for its store or has its mark (`AnswerInv`), and the skills' rows are untouched until
its experience is stored, after which each skill of what it has shown has some, also in the copies
verifications hold (`EarningInv`). A model may reject the tier and take points back, but leaves
those just below the tier (`BelowTier`); only where a tier is worth a single
point, which the code allows, is nothing left, and the property leaves this out.

**Skills.** `SkillInv` is about every copy of a row: the ones verifications hold have a
tier that agrees with their experience, and the ones grades hold have, where nobody is asked,
no effective tier that was not confirmed; so it does not matter which copy is stored last.
`SkillSpec` leaves the targets, verdicts and worth of tasks open.

**Breakdowns.** That a breakdown is paid for once rests on its flight having one
leader (`LeaderInv`) and on the leader having looked again (`AccountInv`: who is
about to ask the model has nothing stored or on its way). That a structure names stored
phrases rests on the leader's progress through the phrases of its sentence (`PhraseInv`).

**Conversation.** What a request has read is a beginning of the transcript (`ReadInv`); when the
latest turn it read is the latest there is, it has read all. The stack after each turn is a recursive
function of the transcript, and a transcript that grows leaves its values where it was defined.

**Reader speech.** That stored audio is whole rests on who makes it: while nobody comes in between, one
request does (`Makes`), and whatever others, the cache and the store have of the sentence is coherent and
of the stored audio, or nothing (`Own`, `Stored`). That times belong to their audio rests on what a
request has and was answered so far (`Asking`): it asks for times only when it has the audio of every
sentence. What the cache uses is the number of elements of a union of disjoint sets, one for each entry,
so that removing and adding an entry changes it by the size of that entry (`SizesAdd`, `PutKeeps`).

**Model calls.** `LoadInv` is an equality of a counter and a cardinality, kept by
adding or removing one element. `BudgetInv` is an account: what is recorded and one
price per admitted call stay below the budget and one price per request; an admission
happens below the budget, and a record takes its price out of its own share.

**Clients.** Of an open page `EventInv` follows each event (it waits, is on its way or is stored) and
`SaveInv` the chain of saves: in the order of their numbers, with only its head on
its way, so that no save is stored after a newer one. `SignInInv` says what holds until
requests cross: one request renews at a time, and a token that was replaced is never the one that is
sent, nor the cookie unless the answer on its way clears it (`OneRenews`) — also when a rotation was
committed and its refresh refused; and while the server ends nothing itself there is always a token,
and a request is sent again with an access token that is accepted (`NobodyIsRefused`). `PatchInv` follows a
patch from its reading to its store: unless another crossed it, its copy is what the row
stands for; `StoredIsRead` and `ReadIsStorable` say that the old and the new keys of the settings lose
nothing on the way there and back (but for a model that is cleared). `StreamInv` needs both
orders, that of the run through its stages and that of what was told (`RunInOrder`,
`ToldInOrder`): no row, event or told status is ahead of the run (`AtMost`), so that two of one rank
are the same, and the last look is at rows that stay.

**Reader pages.** `TextInv` has three parts. The text is well cut (`WellServed`): its sentences are in order and
every word is in one (`ScanInv`, kept by each token, `ScanStep`), and its pages
cover it without gaps, ending inside a sentence only when they are full (`PagesInv`, kept by each page, `CutStep`).
The pages held are adjacent, and a page on its way is the next one at its edge, as long as nothing replaced the
pages while it was loading. The cursor is on a page that is held. Every position is on one page
(`PageAtPosition`), and the position after a page or before it is on the page next to it (`NextPageServed`), so a load brings
the page that was asked for. The attempt found that the cases of `AfterToken` overlapped, for an end mark that
also closes a sentence; they are exclusive now.

**Preparation.** A prediction older than its row needs two writers of an item at once: until
they cross, one writer or one goroutine is under way, with the newest row (`Uncrossed`). That
settings differ is a count: fewer sessions are recent than the pool has topics (`WindowIsSmall`), so one
is fresh (`ChosenIsFresh`, by the pigeonhole principle), and a session before in the window is one of the
recent ones (`NearIsRecent`). `LevelInv` says that the derived level is reached by rules whose needs
the rows then met; the way is that of the function `DeriveLevel` is defined by
(`DerivedLevelHasWay`), and `ConstraintsAllowLevel` relates the tier a rule counts with to the one the constraints use.
`ContentInv` says that validation leaves acceptable tasks only, and `AcceptableIsSolvable`
names, for each task type, the answer that is graded correct.

The attempt to prove `LevelMatchesConstraints` showed that it was wrong: as first stated, it
counted rules after one that fails, and the run's single rule could not tell. It is now
about a way of rules, and the run has two.

**Induction over data** is out of the provers' reach as a rule, since the library's theorems
take an operator. Where a proof needs it, `LeastNumber` (a set of numbers that is not empty has a least
one) stands in: the first place where something would fail has a predecessor where it does not. It
serves for the function of `DeriveLevel`, the smallest index in a pool, the stacks of a
transcript (`Told`), the next position of a request for speech, the scan of a text for sentences
(`ScanExists`) and its cut into pages (`CutExists`).

**Assumptions on constants** beyond their types: a word occurs a natural number of times in a
text and the signals of an event are finitely many (`WordAssumption`, `TaskAssumption`); a task is worth some
experience, as each type is in `DefaultXPConfig`, and every submission may earn (`CreditAssumption`); stories and events are finitely many (`EventAssumption`); requests belong to a tab, a refresh to
an item (`CallAssumption`, `RefreshAssumption`); stages, rules, skills and pools are sequences,
and no stage or topic is there twice, as in the lists of the code and the language data (`StageAssumption`, `LevelAssumption`,
`SkillAssumption`, `PoolAssumption`); the client's own preferences have other keys than the server's,
and no language is called `""` (`FieldAssumption`); a request for speech names sentences of the story,
at least one, and the cache's limits are not 0, which would mean no limit (`SpeechAssumption`); a text
has tokens (one without is served without pages, `TextAssumption`), and the maximum of a page is at least its target, which is not 0
(`PageAssumption`).

Only model-checked: liveness under fairness
(`EveryRequestSettles`, `ReportsResolve`, `SignalsDerived`,
`StreamsEnd`, `TranslationEnds`), which TLAPS does not treat, and that the four runs of
the table in section 3 find what they find. Every invariant and every action property of a passing run
is stated by a theorem.

## 6. Not modelled

- **No behaviour of their own between steps**: prompts, parsing and coverage of the
  LLM's answers, document extraction, language
  plugins, configuration, pricing, counters, the numbers a predictor computes. The models take
  their outcomes as choices.
- **The waves of the step graph** (`RunDAG` in `llm/runner.go`, `llm/dag.go`): nothing outside
  the tests calls it. The pipeline runs single steps of a graph (`RunDAGStep`, in `TaskContent`).
- **Database connection, dialects and migrations**: the statements and transactions are
  the atomic steps of the other models; the isolation the code relies on is that of a single
  statement or of the transactions with a lock it takes.
- **Remote or separate programs**: S3, the audio and TTS services, the providers'
  adapters, the Python tools, `devseed`, `kaikki-import`'s parsing.
- **Left out of modelled components**: passwords and throttling (`auth/`), the
  guesses at a target before a lookup is saved, listing and presentation for the library
  and the admin pages, the rest of the web client.
