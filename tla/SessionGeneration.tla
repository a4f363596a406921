-------------------------- MODULE SessionGeneration --------------------------
(***************************************************************************)
(* Sessions of the study server: the learner's requests (internal/handler/ *)
(* sessions.go, story_import.go) start runs of the pipeline, through the   *)
(* durable job queue (internal/jobs/generation.go, on River) or directly   *)
(* in the server process (internal/story/broker.go).                       *)
(***************************************************************************)
EXTENDS StoryPipeline

CONSTANTS
    Owner,              \* the learner a session belongs to
    Durable,            \* a job queue is configured (cmd/server); if not,
                        \* handlers start runs in the process
    GenerationWorkers,  \* jobs the generation queue works at once
    MaxAttempts,        \* attempts of a generation job
    Requests,           \* the requests the learners of the instance make
    MaxRequests,        \* bound: retry, task and edit requests
    MaxCrashes          \* bound: crashes of the server process

RequestKinds == {"read", "complete", "archive", "delete", "retry", "tasks", "edit"}

ASSUME OwnerAssumption == DOMAIN Owner = Sessions
ASSUME DurableAssumption == Durable \in BOOLEAN
ASSUME WorkersAssumption == GenerationWorkers \in Nat \ {0}
ASSUME AttemptsAssumption == MaxAttempts \in Nat \ {0}
ASSUME RequestsAssumption == Requests \subseteq RequestKinds
ASSUME BoundsAssumption == MaxRequests \in Nat /\ MaxCrashes \in Nat

VARIABLES
    job,        \* the generation job of a session (River)
    active,     \* sessions claimed in the broker's memory
    request,    \* a handler between two of its steps
    used        \* how much of the bounds is used

vars == <<session, stage, tokens, tasks, run, job, active, request, used>>

Job == [state: {"none", "queued", "running"}, attempt: 0..MaxAttempts]
NoJob == [state |-> "none", attempt |-> 0]

\* "start": about to enqueue or start the run.  "prepare": generateStoryTasks
\* read the session and the tokens of the excerpt it will store.
Request == [pc: {"idle", "start", "prepare"}, prev: Statuses, excerpt: Revisions]
NoRequest == [pc |-> "idle", prev |-> "none", excerpt |-> 0]

TypeOK ==
    /\ StoreTypeOK
    /\ PipelineTypeOK
    /\ job \in [Sessions -> Job]
    /\ active \subseteq Sessions
    /\ request \in [Sessions -> Request]
    /\ used \in [requests: 0..MaxRequests, crashes: 0..MaxCrashes]

Init ==
    /\ StoreInit
    /\ PipelineInit
    /\ job = [s \in Sessions |-> NoJob]
    /\ active = {}
    /\ request = [s \in Sessions |-> NoRequest]
    /\ used = [requests |-> 0, crashes |-> 0]

(***************************************************************************)
(* Starting a run.                                                         *)
(***************************************************************************)
\* Unique per session while pending or running: a second insert is dropped.
Enqueue(s) ==
    /\ job' = IF job[s].state = "none"
              THEN [job EXCEPT ![s] = [state |-> "queued", attempt |-> 0]]
              ELSE job
    /\ UNCHANGED <<run, active>>

\* Nothing starts while the session is claimed, and the caller is not told.
StartInProcess(s, entry) ==
    /\ IF s \in active
       THEN UNCHANGED <<run, active>>
       ELSE /\ active' = active \cup {s}
            /\ run' = [run EXCEPT ![s] = [IdleRun EXCEPT !.pc = entry]]
    /\ UNCHANGED job

Start(s, entry) == IF Durable THEN Enqueue(s) ELSE StartInProcess(s, entry)

(***************************************************************************)
(* Requests of the learner.                                                *)
(***************************************************************************)
Asks(kind) ==
    /\ kind \in Requests
    /\ used.requests < MaxRequests
    /\ used' = [used EXCEPT !.requests = @ + 1]

\* The row and its job are one transaction; without a queue they are two steps.
GenerateSession(s) ==
    /\ ~IsUserAdded(s)
    /\ CreateSession(s)
    /\ IF Durable
       THEN Enqueue(s) /\ UNCHANGED request
       ELSE /\ request' = [request EXCEPT ![s].pc = "start"]
            /\ UNCHANGED <<run, job, active>>
    /\ UNCHANGED used

StartGeneration(s) ==
    /\ ~IsUserAdded(s)
    /\ request[s].pc = "start"
    /\ StartInProcess(s, "generate")
    /\ request' = [request EXCEPT ![s] = NoRequest]
    /\ UNCHANGED <<store, used>>

ImportStory(s) ==
    /\ IsUserAdded(s)
    /\ ImportText(s)
    /\ UNCHANGED <<run, job, active, request, used>>

\* Any status is accepted: only ownership is checked.
RetrySession(s) ==
    /\ Exists(s)
    /\ Asks("retry")
    /\ Start(s, "retry")
    /\ UNCHANGED <<store, request>>

GenerateStoryTasks(s) ==
    /\ UserStoryIsIdle(s)
    /\ session[s].status # "complete"
    /\ request[s].pc = "idle"
    /\ Asks("tasks")
    /\ \E excerpt \in {0, tokens[s]} :
          request' = [request EXCEPT ![s] = [pc |-> "prepare",
                                             prev |-> session[s].status,
                                             excerpt |-> excerpt]]
    /\ UNCHANGED <<store, run, job, active>>

PrepareTaskSource(s) ==
    /\ request[s].pc = "prepare"
    /\ UNCHANGED <<run, job, active, used>>
    /\ \/ /\ SetUserStoryTaskSource(s, request[s].excerpt)
          /\ request' = [request EXCEPT ![s].pc = "start"]
       \/ /\ ~UserStoryIsIdle(s) \/ "database" \in Faults
          /\ request' = [request EXCEPT ![s] = NoRequest]
          /\ UNCHANGED store

\* If the job cannot be queued the status read at first is put back.
StartStoryTasks(s) ==
    /\ IsUserAdded(s)
    /\ request[s].pc = "start"
    /\ \/ Start(s, "retry") /\ UNCHANGED store
       \/ /\ Durable /\ "database" \in Faults
          /\ IF Exists(s) THEN UpdateSessionStatus(s, request[s].prev)
                          ELSE UNCHANGED store
          /\ UNCHANGED <<run, job, active>>
    /\ request' = [request EXCEPT ![s] = NoRequest]
    /\ UNCHANGED used

UpdateStory(s) ==
    /\ Asks("edit")
    /\ ReplaceUserStory(s)
    /\ UNCHANGED <<run, job, active, request>>

Learner(s) ==
    /\ \/ "read" \in Requests /\ MarkSessionReading(s)
       \/ "complete" \in Requests /\ MarkSessionComplete(s)
       \/ "archive" \in Requests /\ SetSessionArchived(s, ~session[s].archived)
       \/ "delete" \in Requests /\ DeleteSession(s)
    /\ UNCHANGED <<run, job, active, request, used>>

(***************************************************************************)
(* The job queue and the broker.                                           *)
(***************************************************************************)
FetchJob(s) ==
    /\ job[s].state = "queued"
    /\ Cardinality({t \in Sessions : ~At(t, "idle")}) < GenerationWorkers
    /\ job' = [job EXCEPT ![s] = [state |-> "running", attempt |-> @.attempt + 1]]
    /\ run' = [run EXCEPT ![s] = [IdleRun EXCEPT !.pc = "gate"]]
    /\ UNCHANGED <<store, active, request, used>>

\* Another session of the learner is generating, whether or not a run is at it.
Busy(s) ==
    \E t \in Sessions \ {s} :
        /\ Owner[t] = Owner[s]
        /\ session[t].status = "generating"
        /\ ~session[t].archived

\* Mutant: a snoozed attempt counts.
PassGate_CountsSnoozes(s) ==
    /\ At(s, "gate")
    /\ UNCHANGED <<store, active, request, used>>
    /\ \/ /\ Busy(s)
          /\ job' = [job EXCEPT ![s].state = "queued"]
          /\ run' = [run EXCEPT ![s] = IdleRun]
       \/ /\ ~Busy(s)
          /\ Goto(s, "check")
          /\ UNCHANGED job

\* A snoozed attempt does not count.
PassGate(s) ==
    /\ At(s, "gate")
    /\ UNCHANGED <<store, active, request, used>>
    /\ \/ /\ Busy(s)
          /\ job' = [job EXCEPT ![s] = [state |-> "queued", attempt |-> @.attempt - 1]]
          /\ run' = [run EXCEPT ![s] = IdleRun]
       \/ /\ ~Busy(s) \/ "database" \in Faults
          /\ Goto(s, "check")
          /\ UNCHANGED job

\* Mutant: a session that is ready is not told apart.
CheckStatus_NoEarlyReturn(s) ==
    /\ At(s, "check")
    /\ DbWorks(s)
    /\ run' = [run EXCEPT ![s].pc = "claim", ![s].seen = session[s]]
    /\ UNCHANGED <<store, job, active, request, used>>

CheckStatus(s) ==
    /\ At(s, "check")
    /\ UNCHANGED <<store, job, active, request, used>>
    /\ \/ /\ DbWorks(s)
          /\ IF session[s].status \in {"ready", "complete"}
             THEN Goto(s, "return")
             ELSE run' = [run EXCEPT ![s].pc = "claim", ![s].seen = session[s]]
       \/ /\ DbFails(s)
          /\ run' = [run EXCEPT ![s].pc = "return", ![s].err = TRUE]

\* Mutant: a failed session is generated from the start.
Claim_NeverResumes(s) ==
    /\ At(s, "claim")
    /\ IF s \in active
       THEN Goto(s, "return") /\ UNCHANGED active
       ELSE active' = active \cup {s} /\ Goto(s, "generate")
    /\ UNCHANGED <<store, job, request, used>>

Claim(s) ==
    /\ At(s, "claim")
    /\ IF s \in active
       THEN Goto(s, "return") /\ UNCHANGED active
       ELSE /\ active' = active \cup {s}
            /\ Goto(s, IF run[s].seen.status = "failed" \/ IsUserAdded(s)
                       THEN "retry" ELSE "generate")
    /\ UNCHANGED <<store, job, request, used>>

\* Mutant: the claim is released only after a run without an error.
EndRun_KeepsClaimOnError(s) ==
    /\ run[s].pc \in {"end", "return"}
    /\ active' = IF At(s, "end") /\ ~run[s].err THEN active \ {s} ELSE active
    /\ run' = [run EXCEPT ![s] = IdleRun]
    /\ UNCHANGED <<store, job, request, used>>

\* The claim is released and the job is completed, retried later or discarded.
EndRun(s) ==
    /\ run[s].pc \in {"end", "return"}
    /\ active' = IF At(s, "end") THEN active \ {s} ELSE active
    /\ job' = IF ~Durable THEN job
              ELSE IF run[s].err /\ job[s].attempt < MaxAttempts
                   THEN [job EXCEPT ![s].state = "queued"]
                   ELSE [job EXCEPT ![s] = NoJob]
    /\ run' = [run EXCEPT ![s] = IdleRun]
    /\ UNCHANGED <<store, request, used>>

\* The ten minutes of a job are over: nothing the run does with its context works.
Expire(s) ==
    /\ "timeout" \in Faults
    /\ Durable
    /\ run[s].pc \notin {"idle", "gate", "end", "return"}
    /\ ~run[s].expired
    /\ run' = [run EXCEPT ![s].expired = TRUE]
    /\ UNCHANGED <<store, job, active, request, used>>

\* The process dies and starts again: what was in its memory is lost.
Crash ==
    /\ "crash" \in Faults
    /\ used.crashes < MaxCrashes
    /\ used' = [used EXCEPT !.crashes = @ + 1]
    /\ run' = [s \in Sessions |-> IdleRun]
    /\ active' = {}
    /\ request' = [s \in Sessions |-> NoRequest]
    /\ UNCHANGED <<store, job>>

\* A job left running by a dead process is queued again, or discarded.
RescueJob(s) ==
    /\ job[s].state = "running"
    /\ At(s, "idle")
    /\ job' = IF job[s].attempt < MaxAttempts
              THEN [job EXCEPT ![s].state = "queued"]
              ELSE [job EXCEPT ![s] = NoJob]
    /\ UNCHANGED <<store, run, active, request, used>>

RunStep(s) ==
    \/ PassGate(s) \/ CheckStatus(s) \/ Claim(s) \/ EndRun(s)
    \/ PipelineStep(s) /\ UNCHANGED <<job, active, request, used>>

HandlerStep(s) == StartGeneration(s) \/ PrepareTaskSource(s) \/ StartStoryTasks(s)

Next ==
    \/ \E s \in Sessions :
        \/ GenerateSession(s) \/ ImportStory(s) \/ RetrySession(s)
        \/ GenerateStoryTasks(s) \/ UpdateStory(s) \/ Learner(s)
        \/ HandlerStep(s) \/ FetchJob(s) \/ RunStep(s) \/ Expire(s) \/ RescueJob(s)
    \/ Crash

Spec == Init /\ [][Next]_vars

\* A run and a handler go on, a crashed job is rescued, and the queue takes its
\* jobs in turn: one that waits for a worker again and again gets one.
Fairness ==
    \A s \in Sessions :
        /\ WF_vars(RunStep(s))
        /\ WF_vars(HandlerStep(s))
        /\ WF_vars(RescueJob(s))
        /\ SF_vars(FetchJob(s))

FairSpec == Spec /\ Fairness

-----------------------------------------------------------------------------
(***************************************************************************)
(* Safety.                                                                 *)
(***************************************************************************)
Readable(s) == session[s].status \in {"ready", "reading", "complete"}
Preparing(s) == session[s].status \in {"pending", "generating"}
IsRunning(s) == run[s].pc \in PipelineLabels \cup {"end"}

\* "`ready` means the content is readable; generated sessions also require at
\* least one completed task type" (domain/session.go), through crashes, retries
\* and redeliveries: the linked text is there and tokenized, and a completed
\* task type has rows that were made from this text and not from an earlier one.
ReadyMeansReadable ==
    \A s \in Sessions : Readable(s) =>
        /\ session[s].content # 0
        /\ HasStory(s) => tokens[s] = session[s].content
        /\ ~IsUserAdded(s) => \E t \in TaskTypes :
                /\ stage[s][t] = "complete"
                /\ <<t, session[s].content>> \in tasks[s]

\* A session the learner sees as being prepared has a run, a job that will start
\* one, or a handler about to queue it: otherwise the progress screen waits for
\* nothing, and Busy holds back every other session of the learner for good.
PreparingIsOwned ==
    \A s \in Sessions : Preparing(s) =>
        \/ job[s].state # "none"
        \/ IsRunning(s)
        \/ request[s].pc = "start"

\* A run that goes on after DeleteSession leaves nothing behind: its writes are
\* refused, also those whose errors it drops (db/sql_pipeline.go, DeleteSession).
NothingOutlivesDeletion ==
    \A s \in Sessions : session[s].status = "deleted" =>
        /\ session[s].content = 0
        /\ stage[s] = NoStages
        /\ tokens[s] = 0
        /\ tasks[s] = {}

\* The claims of story/broker.go are exactly the runs of its process: a claim that
\* is not released would refuse every later run of the session until a restart.
ClaimsAreRuns == active = {s \in Sessions : IsRunning(s)}

\* A task batch "preserve[s] the learner's reading lifecycle" (story/pipeline.go,
\* Retry): whenever a user-added story is readable its status says how far the
\* learner got, as the reading and completion marks record it.
ReadingLifecyclePreserved ==
    \A s \in Sessions : IsUserAdded(s) /\ Readable(s) =>
        session[s].status = ReadableUserStoryStatus(session[s])

(***************************************************************************)
(* What no step may do.                                                    *)
(***************************************************************************)
\* Completed content checkpoints are not opened again: a retry goes on with the
\* tasks and does not pay for a second story (context/session-types.md).
ContentCheckpointKept ==
    [][\A s \in Sessions : ContentDone(s) /\ Exists(s)' => ContentDone(s)']_vars

\* No run of the pipeline touches the text the learner brought, its tokens or
\* its import checkpoints ("never replaces the user's text", session-types.md).
RunsKeepUserText ==
    [][\A s \in Sessions : IsUserAdded(s) /\ RunStep(s) =>
        /\ session'[s].content = session[s].content
        /\ tokens'[s] = tokens[s]
        /\ ContentDone(s)' = ContentDone(s)]_vars

(***************************************************************************)
(* Liveness.                                                               *)
(***************************************************************************)
\* Every session that is being prepared becomes readable, fails or is deleted:
\* the learner's sessions take turns (jobs/generation.go).
EveryRequestSettles == \A s \in Sessions : Preparing(s) ~> ~Preparing(s)

\* A queued job gets past the gate: it is not snoozed forever, which would keep
\* its session in preparation (cmd/server/main.go, the gate).
QueuedJobRuns ==
    \A s \in Sessions :
        job[s].state = "queued" ~> At(s, "check") \/ job[s].state = "none"

(***************************************************************************)
(* The learner's view of the sessions implements StudySession: one step of *)
(* the code is at most one step of the promise, whatever runs, crashes and *)
(* redeliveries are behind it.                                             *)
(***************************************************************************)
StudyView(s) ==
    CASE session[s].status = "none" -> "absent"
      [] session[s].status = "deleted" -> "gone"
      [] session[s].status = "failed" -> "failed"
      [] Preparing(s) -> "preparing"
      [] Readable(s) -> "readable"

Study == INSTANCE StudySession WITH
    Brought <- {s \in Sessions : IsUserAdded(s)},
    MaxText <- MaxRevision,
    view <- [s \in Sessions |-> StudyView(s)],
    text <- [s \in Sessions |->
                IF Readable(s) \/ IsUserAdded(s) THEN session[s].content ELSE 0]

\* The sessions of the server are the sessions the learner was promised: a text
\* that was shown is not replaced, hidden for good or lost by any run.
ImplementsStudySession == Study!Spec
=============================================================================
