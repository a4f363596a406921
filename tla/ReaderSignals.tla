--------------------------- MODULE ReaderSignals ---------------------------
(***************************************************************************)
(* The reader's signals (internal/reader, jobs/reader_signals.go): events  *)
(* of a learner are flushed to a durable log, a job per story derives      *)
(* exposure, lookups and ratings from those not processed yet, and then    *)
(* marks them.  Jobs of different stories run side by side, and next to    *)
(* the learner's direct ratings and the task signals of AcquireEngine, all *)
(* of them on copies of the same rows.                                     *)
(*                                                                         *)
(* Events are numbered in the order in which they occurred.  A failure is  *)
(* any error of a step of the job, or the death of its worker: the job is  *)
(* run again from its start, and is discarded after MaxSignalAttempts.     *)
(***************************************************************************)
EXTENDS AcquireEngine

CONSTANTS
    Stories,
    LastEvent,            \* events are 1..LastEvent
    EventOf,              \* event -> [story, kind, item]
    Words,                \* story -> item -> occurrences among its word tokens
    SessionTargets,       \* story -> targets of its session
    MaxSignalAttempts, MaxFailures, MaxRatings

ASSUME WordAssumption == Words \in [Stories -> [Items -> Nat]]
ASSUME EventAssumption == LastEvent \in Nat /\ IsFiniteSet(Stories)

VARIABLES
    event,      \* event -> "unsent", "pending" or "processed" in the log
    job,        \* story -> its job in the queue
    run,        \* story -> the run of its job (the accumulator)
    surface,    \* item -> number of the event whose rating its surface form shows
    rating,     \* the learner's direct rating of a word
    failures    \* failed runs so far

readerVars == <<event, job, run, surface, rating, failures>>

Events == 1..LastEvent
StoryEvents(s) == {e \in Events : EventOf[e].story = s}
PendingOf(s) == {e \in StoryEvents(s) : event[e] = "pending"}
Earliest(es) == CHOOSE e \in es : \A f \in es : e <= f

NoRun == [pc |-> "idle", load |-> {}, left |-> {}, ids |-> {},
          items |-> {}, rows |-> [i \in Items |-> ZeroRow],
          targets |-> {}, item |-> CHOOSE i \in Items : TRUE, copy |-> ZeroRow]

NoJob == [status |-> "none", attempt |-> 0]

NoRating == [pc |-> "idle", copy |-> ZeroRow, level |-> 0, given |-> 0]

ReaderInit ==
    /\ event = [e \in Events |-> "unsent"]
    /\ job = [s \in Stories |-> NoJob]
    /\ run = [s \in Stories |-> NoRun]
    /\ surface = [i \in Items |-> 0]
    /\ rating = [i \in Items |-> NoRating]
    /\ failures = 0

-----------------------------------------------------------------------------
\* The client flushes what occurred in a story up to an event, of which it may have sent a
\* part before: rows that are in the log are skipped, and the story's job is inserted in
\* any case.  The insertion is dropped while a job of the story is pending or running, and
\* it may be lost.
Flush(s, last, lost) ==
    /\ event' = [e \in Events |-> IF e \in StoryEvents(s) /\ e <= last /\ event[e] = "unsent"
                                  THEN "pending" ELSE event[e]]
    /\ job' = IF lost \/ job[s].status # "none" THEN job
              ELSE [job EXCEPT ![s] = [status |-> "queued", attempt |-> 0]]
    /\ UNCHANGED <<run, surface, rating, failures>>

X_EveryRead(s) == TRUE

FirstRead(s) == \A e \in StoryEvents(s) : event[e] # "processed"

\* A worker takes the job and reads what is unprocessed; with nothing to do it is done.
\* Only this job marks events of the story, so the first-read test may be read here too.
StartSignals(s) ==
    /\ job[s].status = "queued"
    /\ IF PendingOf(s) = {}
       THEN job' = [job EXCEPT ![s] = NoJob] /\ UNCHANGED run
       ELSE /\ job' = [job EXCEPT ![s] = [status |-> "running", attempt |-> @.attempt + 1]]
            /\ run' = [run EXCEPT ![s] = [NoRun EXCEPT
                         !.pc = "load",
                         !.load = IF FirstRead(s) THEN {i \in Items : Words[s][i] > 0} ELSE {},
                         !.left = PendingOf(s), !.ids = PendingOf(s)]]
    /\ UNCHANGED <<event, surface, rating, failures, uk>>

WithExposure(row, occurrences) ==
    [row EXCEPT !.exposure = @ + occurrences, !.variety = @ + 1]

\* First read of a story: every occurrence is an exposure, the story is one more context.
LoadExposed(s, i) ==
    /\ run[s].pc = "load"
    /\ i \in run[s].load
    /\ run' = [run EXCEPT ![s].load = @ \ {i}, ![s].items = @ \cup {i},
                          ![s].rows[i] = WithExposure(uk[i], Words[s][i])]
    /\ UNCHANGED <<event, job, surface, rating, failures, uk>>

\* The copy of a row the accumulator works on, read when the item is first met.
CopyOf(s, i) == IF i \in run[s].items THEN run[s].rows[i] ELSE uk[i]

\* The next pending event.  A task peek is only logged.  An event at a word loads the
\* word's row whatever its type, and so has it stored again.
DeriveEvent(s) ==
    LET e == Earliest(run[s].left)
        i == EventOf[e].item
        kind == EventOf[e].kind
        taken == [run[s] EXCEPT !.left = @ \ {e}]
    IN  /\ run[s].pc = "load"
        /\ run[s].load = {}
        /\ run[s].left # {}
        /\ \/ /\ kind = "not_ready"
              /\ run' = [run EXCEPT ![s] = [taken EXCEPT !.pc = "not_ready", !.targets = SessionTargets[s]]]
              /\ UNCHANGED surface
           \/ /\ kind = "reference_peek"
              /\ run' = [run EXCEPT ![s] = taken]
              /\ UNCHANGED surface
           \/ /\ kind \in {"lookup", "rate", "navigate"}
              /\ run' = [run EXCEPT ![s] = [taken EXCEPT
                             !.items = @ \cup {i},
                             !.rows[i] = IF kind = "lookup"
                                         THEN [CopyOf(s, i) EXCEPT !.lookups = @ + 1]
                                         ELSE CopyOf(s, i)]]
              /\ surface' = IF kind = "rate" THEN [surface EXCEPT ![i] = e] ELSE surface
        /\ UNCHANGED <<event, job, rating, failures, uk>>

\* "Not ready, read again": the session's targets are read and stored one by one, past
\* the accumulator.
NotReadyLoad(s, i) ==
    /\ run[s].pc = "not_ready"
    /\ i \in run[s].targets
    /\ run' = [run EXCEPT ![s].pc = "not_ready_store", ![s].targets = @ \ {i},
                          ![s].item = i, ![s].copy = uk[i]]
    /\ UNCHANGED <<event, job, surface, rating, failures, uk>>

NotReadyStore(s) ==
    /\ run[s].pc = "not_ready_store"
    /\ Refresh(run[s].item, [run[s].copy EXCEPT !.exposure = @ + 1])
    /\ run' = [run EXCEPT ![s].pc = "not_ready"]
    /\ UNCHANGED <<event, job, surface, rating, failures>>

NotReadyDone(s) ==
    /\ run[s].pc = "not_ready"
    /\ run[s].targets = {}
    /\ run' = [run EXCEPT ![s].pc = "load"]
    /\ UNCHANGED <<event, job, surface, rating, failures, uk>>

\* The accumulator's rows are stored in any order (it is a Go map).
FlushRow(s, i) ==
    /\ run[s].pc = "load" /\ run[s].load = {} /\ run[s].left = {}
    /\ i \in run[s].items
    /\ Refresh(i, run[s].rows[i])
    /\ run' = [run EXCEPT ![s].items = @ \ {i}, ![s].rows[i] = ZeroRow]
    /\ UNCHANGED <<event, job, surface, rating, failures>>

X_MarkFirst(s) ==
    LET e == Earliest(run[s].ids) IN
    /\ run[s].pc = "load" /\ run[s].load = {} /\ run[s].left = {}
    /\ run[s].ids # {}
    /\ event' = [event EXCEPT ![e] = "processed"]
    /\ run' = [run EXCEPT ![s].ids = @ \ {e}]
    /\ UNCHANGED <<job, surface, rating, failures, uk>>

\* Each event is marked by a statement of its own.
MarkProcessed(s) ==
    LET e == Earliest(run[s].ids) IN
    /\ run[s].pc = "load" /\ run[s].load = {} /\ run[s].left = {} /\ run[s].items = {}
    /\ run[s].ids # {}
    /\ event' = [event EXCEPT ![e] = "processed"]
    /\ run' = [run EXCEPT ![s].ids = @ \ {e}]
    /\ UNCHANGED <<job, surface, rating, failures, uk>>

EndSignals(s) ==
    /\ run[s].pc = "load" /\ run[s].load = {} /\ run[s].left = {} /\ run[s].items = {}
    /\ run[s].ids = {}
    /\ run' = [run EXCEPT ![s] = NoRun]
    /\ job' = [job EXCEPT ![s] = NoJob]
    /\ UNCHANGED <<event, surface, rating, failures, uk>>

X_GiveUp(s) ==
    /\ run[s].pc # "idle"
    /\ failures < MaxFailures
    /\ failures' = failures + 1
    /\ run' = [run EXCEPT ![s] = NoRun]
    /\ job' = [job EXCEPT ![s] = NoJob]
    /\ UNCHANGED <<event, surface, rating, uk>>

FailSignals(s) ==
    /\ run[s].pc # "idle"
    /\ failures < MaxFailures
    /\ failures' = failures + 1
    /\ run' = [run EXCEPT ![s] = NoRun]
    /\ job' = [job EXCEPT ![s] = IF @.attempt < MaxSignalAttempts
                                 THEN [@ EXCEPT !.status = "queued"] ELSE NoJob]
    /\ UNCHANGED <<event, surface, rating, uk>>

SignalStep(s) ==
    \/ StartSignals(s) \/ DeriveEvent(s) \/ NotReadyStore(s) \/ NotReadyDone(s)
    \/ MarkProcessed(s) \/ EndSignals(s)
    \/ \E i \in Items : LoadExposed(s, i) \/ NotReadyLoad(s, i) \/ FlushRow(s, i)

-----------------------------------------------------------------------------
\* PUT /word_knowledge: the learner's rating of a word, one request at a time.
LoadForLevel(i) ==
    /\ rating[i].pc = "idle"
    /\ rating[i].given < MaxRatings
    /\ rating' = [rating EXCEPT ![i].pc = "store", ![i].copy = uk[i], ![i].given = @ + 1]
    /\ UNCHANGED <<event, job, run, surface, failures, uk>>

StoreLevel(i) ==
    /\ rating[i].pc = "store"
    /\ Refresh(i, [rating[i].copy EXCEPT !.level = rating[i].given])
    /\ rating' = [rating EXCEPT ![i].pc = "idle", ![i].copy = ZeroRow, ![i].level = rating[i].given]
    /\ UNCHANGED <<event, job, run, surface, failures>>

\* PUT /reader_surface_knowledge: the client rates the form at once and logs the event.
SetSurfaceLevel(e) ==
    /\ event[e] = "unsent"
    /\ EventOf[e].kind = "rate"
    /\ surface[EventOf[e].item] < e
    /\ surface' = [surface EXCEPT ![EventOf[e].item] = e]
    /\ UNCHANGED <<event, job, run, rating, failures, uk>>

-----------------------------------------------------------------------------
InLog(e) == event[e] # "unsent"

EventsOn(kind, i) == {e \in Events : EventOf[e].kind = kind /\ EventOf[e].item = i /\ InLog(e)}

OccurrencesIn(stories, i) == Cardinality(UNION {{s} \X (1..Words[s][i]) : s \in stories})

StoriesRead == {s \in Stories : \E e \in StoryEvents(s) : InLog(e)}

\* An event, a first read and a task signal are each counted at most once more than runs
\* have failed, in whatever order jobs, ratings and task signals read and store the rows
\* (service.go:181, at least once, never twice without a failure).
NeverOvercounted ==
    \A i \in Items :
        /\ uk[i].lookups <= (failures + 1) * Cardinality(EventsOn("lookup", i))
        /\ uk[i].variety <= (failures + 1) * Cardinality({s \in StoriesRead : Words[s][i] > 0})
        /\ uk[i].exposure <= (failures + 1) *
              (OccurrencesIn(StoriesRead, i)
               + Cardinality({e \in Events : InLog(e) /\ EventOf[e].kind = "not_ready"
                                             /\ i \in SessionTargets[EventOf[e].story]}))

\* Marking comes last: what is marked has been counted, even if runs failed, as long as no
\* other writer stores the row of i in between.
ProcessedIsCounted(i, s) ==
    /\ uk[i].lookups >= Cardinality({e \in EventsOn("lookup", i) : event[e] = "processed"})
    /\ ~FirstRead(s) => uk[i].exposure >= Words[s][i]

\* Once everything in the log of one story is processed, a form shows the last rating it
\* was given there, although ratings are applied again by failed runs and at once by PUT.
RatingsSettle(i, s) ==
    (\A e \in StoryEvents(s) : event[e] = "processed")
        => \A e \in EventsOn("rate", i) : surface[i] >= e

\* Events that were in the log when their job was inserted get processed, although the job
\* may fail, as long as it has attempts left (jobs/reader_signals.go:32).
SignalsDerived ==
    \A e \in Events : (event[e] = "pending" /\ job[EventOf[e].story].status = "queued")
                       ~> event[e] = "processed"
=============================================================================
