---------------------------- MODULE SessionStore ----------------------------
(***************************************************************************)
(* The persistent state of study sessions and the repository operations on *)
(* it (internal/db/sql_pipeline.go).  Every operator below is one SQL      *)
(* statement or one transaction, so it is one atomic step; who calls it    *)
(* and when is said by the modules that extend this one.                   *)
(*                                                                         *)
(* A text is a revision number: 0 is NULL, and each story, phrase set or   *)
(* edited text that is stored takes the next number of its session.        *)
(***************************************************************************)
EXTENDS Naturals, FiniteSets

CONSTANTS
    Sessions,       \* session ids
    Kind,           \* what each session is; "system" also stands for an
                    \* expression-guided session whose output is a story
    TaskTypes,      \* the composed task set of the sessions' level
    MaxRevision     \* bound: texts stored for one session

SessionKinds == {"system", "topic_guided", "phrases", "user_added"}

ASSUME KindAssumption == Kind \in [Sessions -> SessionKinds]
ASSUME RevisionAssumption == MaxRevision \in Nat \ {0}
ASSUME TaskTypesAssumption ==
    TaskTypes \cap {"scope_check", "content", "tokenization"} = {}

VARIABLES
    session,        \* the sessions row
    stage,          \* session_generation_stages: status of each stage
    tokens,         \* the text story_tokens was computed from
    tasks           \* task rows: <<type, text they were generated from>>

store == <<session, stage, tokens, tasks>>

(***************************************************************************)
(* Rows.  "none" is a session that was not created yet and "deleted" one   *)
(* whose row is gone.  "content" stands for story_generation,              *)
(* phrase_generation or story_import, whichever the session's kind uses.   *)
(***************************************************************************)
Statuses == {"none", "pending", "generating", "ready", "reading", "complete",
             "failed", "deleted"}
StageStatuses == {"none", "in_progress", "complete", "failed"}
Stages == {"scope_check", "content", "tokenization"} \cup TaskTypes
Revisions == 0..MaxRevision

Row == [status: Statuses,
        content: Revisions,     \* the linked story, or the phrase set
        excerpt: Revisions,     \* task_source_text; 0 is the whole story
        reading: BOOLEAN,       \* reading_started_at is set
        completed: BOOLEAN,     \* completed_at is set
        archived: BOOLEAN]      \* archived_at is set

EmptyRow == [status |-> "none", content |-> 0, excerpt |-> 0,
             reading |-> FALSE, completed |-> FALSE, archived |-> FALSE]
NoStages == [g \in Stages |-> "none"]

Exists(s) == session[s].status \notin {"none", "deleted"}
HasStory(s) == Kind[s] # "phrases"
IsUserAdded(s) == Kind[s] = "user_added"

StoreTypeOK ==
    /\ session \in [Sessions -> Row]
    /\ stage \in [Sessions -> [Stages -> StageStatuses]]
    /\ tokens \in [Sessions -> Revisions]
    /\ tasks \in [Sessions -> SUBSET (TaskTypes \X Revisions)]

StoreInit ==
    /\ session = [s \in Sessions |-> EmptyRow]
    /\ stage = [s \in Sessions |-> NoStages]
    /\ tokens = [s \in Sessions |-> 0]
    /\ tasks = [s \in Sessions |-> {}]

(***************************************************************************)
(* Creation: a pending session for the pipeline to fill, or a user-added   *)
(* session that is imported with its text, tokens and checkpoints.         *)
(***************************************************************************)
CreateSession(s) ==
    /\ session[s].status = "none"
    /\ session' = [session EXCEPT ![s].status = "pending"]
    /\ UNCHANGED <<stage, tokens, tasks>>

ImportText(s) ==
    /\ session[s].status = "none"
    /\ session' = [session EXCEPT ![s].status = "ready", ![s].content = 1]
    /\ tokens' = [tokens EXCEPT ![s] = 1]
    /\ stage' = [stage EXCEPT ![s]["content"] = "complete",
                              ![s]["tokenization"] = "complete"]
    /\ UNCHANGED tasks

(***************************************************************************)
(* Writes of the pipeline.  None of them looks at the current status.      *)
(***************************************************************************)
UpdateSessionStatus(s, status) ==
    /\ session' = [session EXCEPT ![s].status = status]
    /\ UNCHANGED <<stage, tokens, tasks>>

UpsertStage(s, g, status) ==
    /\ stage' = [stage EXCEPT ![s][g] = status]
    /\ UNCHANGED <<session, tokens, tasks>>

\* One transaction: the new story (or phrase set) and the session's link to it.
SaveContent(s) ==
    /\ session[s].content < MaxRevision
    /\ session' = [session EXCEPT ![s].content = @ + 1]
    /\ UNCHANGED <<stage, tokens, tasks>>

ReplaceStoryTokens(s) ==
    /\ tokens' = [tokens EXCEPT ![s] = session[s].content]
    /\ UNCHANGED <<session, stage, tasks>>

CreateTask(s, t, source) ==
    /\ tasks' = [tasks EXCEPT ![s] = @ \cup {<<t, source>>}]
    /\ UNCHANGED <<session, stage, tokens>>

(***************************************************************************)
(* The learner's operations.                                               *)
(***************************************************************************)
MarkSessionReading(s) ==
    /\ session[s].status = "ready"
    /\ session' = [session EXCEPT ![s].status = "reading", ![s].reading = TRUE]
    /\ UNCHANGED <<stage, tokens, tasks>>

MarkSessionComplete(s) ==
    /\ session[s].status = "reading"
    /\ session' = [session EXCEPT ![s].status = "complete", ![s].completed = TRUE]
    /\ UNCHANGED <<stage, tokens, tasks>>

SetSessionArchived(s, archived) ==
    /\ Exists(s)
    /\ session' = [session EXCEPT ![s].archived = archived]
    /\ UNCHANGED <<stage, tokens, tasks>>

DeleteSession(s) ==
    /\ Exists(s)
    /\ session' = [session EXCEPT ![s] = [EmptyRow EXCEPT !.status = "deleted"]]
    /\ stage' = [stage EXCEPT ![s] = NoStages]
    /\ tokens' = [tokens EXCEPT ![s] = 0]
    /\ tasks' = [tasks EXCEPT ![s] = {}]

\* Mutant: the status check of the two transactions is gone.
UserStoryIsIdle_AnyStatus(s) == IsUserAdded(s) /\ Exists(s)

\* Both refuse a session that waits for the pipeline or is inside it.
UserStoryIsIdle(s) ==
    /\ IsUserAdded(s)
    /\ session[s].status \notin {"none", "deleted", "pending", "generating"}

WithoutTaskStages(s) ==
    [g \in Stages |-> IF g \in TaskTypes THEN "none" ELSE stage[s][g]]

SetUserStoryTaskSource(s, excerpt) ==
    /\ UserStoryIsIdle(s)
    /\ stage' = [stage EXCEPT ![s] = WithoutTaskStages(s)]
    /\ session' = [session EXCEPT ![s].status = "generating", ![s].excerpt = excerpt]
    /\ UNCHANGED <<tokens, tasks>>

\* Mutant: the marks of the old text's reading stay.
ReplaceUserStory_KeepsMarks(s) ==
    /\ UserStoryIsIdle(s)
    /\ session[s].content < MaxRevision
    /\ session' = [session EXCEPT ![s].status = "ready",
                                  ![s].content = @ + 1,
                                  ![s].excerpt = 0]
    /\ tokens' = [tokens EXCEPT ![s] = session[s].content + 1]
    /\ stage' = [stage EXCEPT ![s] = WithoutTaskStages(s)]
    /\ tasks' = [tasks EXCEPT ![s] = {}]

ReplaceUserStory(s) ==
    /\ UserStoryIsIdle(s)
    /\ session[s].content < MaxRevision
    /\ session' = [session EXCEPT ![s].status = "ready",
                                  ![s].content = @ + 1,
                                  ![s].excerpt = 0,
                                  ![s].reading = FALSE,
                                  ![s].completed = FALSE]
    /\ tokens' = [tokens EXCEPT ![s] = session[s].content + 1]
    /\ stage' = [stage EXCEPT ![s] = WithoutTaskStages(s)]
    /\ tasks' = [tasks EXCEPT ![s] = {}]
=============================================================================
