--------------------------- MODULE AcquireEngine ---------------------------
(***************************************************************************)
(* The acquisition engine (internal/acquire) over the rows of              *)
(* user_knowledge of one learner: raw counters and the stage derived from  *)
(* them.                                                                   *)
(*                                                                         *)
(* Every writer of a row reads it, changes its copy and stores the copy    *)
(* (Refresh), with other writers in between: the statements take no lock   *)
(* and no version.  A task grade (ApplyTaskSignal) does this item by item  *)
(* and is modelled here; the reader's writers are in ReaderSignals.        *)
(*                                                                         *)
(* The predictor's probability is a real number and is left out, with the  *)
(* cached prediction that is computed from it: whether it reaches the gate *)
(* of the last stage is a free choice.                                     *)
(***************************************************************************)
EXTENDS Naturals, FiniteSets

CONSTANTS
    Items,      \* knowledge items the learner meets
    Signals,    \* task submissions whose grade may become a signal
    Gates       \* thresholds of the stages (acquire.Config), ratios in percent

VARIABLES
    uk,          \* item -> its row of user_knowledge
    signal       \* submission -> its place in ApplyTaskSignal

acquireVars == <<uk, signal>>

StageLadder == <<"unseen", "encountered", "recognizing", "acquiring", "acquired", "automatic">>

StageOrder(stage) == CHOOSE n \in DOMAIN StageLadder : StageLadder[n] = stage

ZeroRow == [exposure |-> 0, variety |-> 0, lookups |-> 0, correct |-> 0, total |-> 0,
            level |-> 0, stage |-> "unseen"]

LookupsBelow(row, percent) == 100 * row.lookups < percent * row.exposure

Recognizes(row) ==
    /\ row.exposure >= Gates.recognizingExposure
    /\ row.variety >= Gates.recognizingVariety
    /\ LookupsBelow(row, Gates.recognizingLookups)

Acquires(row) ==
    /\ row.variety >= Gates.acquiringVariety
    /\ row.correct >= Gates.acquiringCorrect
    /\ LookupsBelow(row, Gates.acquiringLookups)

HasAcquired(row) ==
    /\ row.total >= Gates.acquiredTotal
    /\ 100 * row.correct >= Gates.acquiredAccuracy * row.total
    /\ LookupsBelow(row, Gates.acquiredLookups)
    /\ row.variety >= Gates.acquiredVariety

\* The stage the counters imply; the gates are walked upward and the first one
\* that is not met stops the walk.
Stage(row, confident) ==
    CASE row.exposure < 1 -> "unseen"
      [] row.exposure >= 1 /\ ~Recognizes(row) -> "encountered"
      [] row.exposure >= 1 /\ Recognizes(row) /\ ~Acquires(row) -> "recognizing"
      [] row.exposure >= 1 /\ Recognizes(row) /\ Acquires(row) /\ ~HasAcquired(row) -> "acquiring"
      [] OTHER -> IF confident /\ row.lookups = 0 THEN "automatic" ELSE "acquired"

\* The derived stage only advances from the one the writer's copy holds.
Advanced(row, confident) ==
    LET next == Stage(row, confident)
    IN  IF StageOrder(next) > StageOrder(row.stage) THEN [row EXCEPT !.stage = next] ELSE row

\* Store a copy of a row with the stage it has reached.
Refresh(i, row) ==
    \E confident \in BOOLEAN : uk' = [uk EXCEPT ![i] = Advanced(row, confident)]

NoSignal == [pc |-> "idle", left |-> {}, shown |-> {}, item |-> CHOOSE i \in Items : TRUE, copy |-> ZeroRow]

AcquireInit ==
    /\ uk = [i \in Items |-> ZeroRow]
    /\ signal = [q \in Signals |-> NoSignal]

\* The task service calls with the targets of the task and those the answer demonstrated.
BeginSignal(q, targets, shown) ==
    signal' = [signal EXCEPT ![q] = [NoSignal EXCEPT !.pc = "load", !.left = targets, !.shown = shown]]

\* The row of the next target; a learner without one starts from the zero row.
LoadForSignal(q, i) ==
    /\ signal[q].pc = "load"
    /\ i \in signal[q].left
    /\ signal' = [signal EXCEPT ![q].pc = "store", ![q].left = @ \ {i}, ![q].item = i, ![q].copy = uk[i]]
    /\ UNCHANGED uk

X_CountEither(row, shown) ==
    IF shown THEN [row EXCEPT !.correct = @ + 1] ELSE [row EXCEPT !.total = @ + 1]

WithGrade(row, shown) ==
    [row EXCEPT !.total = @ + 1, !.correct = @ + IF shown THEN 1 ELSE 0]

StoreForSignal(q) ==
    LET i == signal[q].item IN
    /\ signal[q].pc = "store"
    /\ Refresh(i, WithGrade(signal[q].copy, i \in signal[q].shown))
    /\ signal' = [signal EXCEPT ![q].pc = IF signal[q].left = {} THEN "done" ELSE "load"]

ApplyTaskSignal(q) == StoreForSignal(q) \/ \E i \in Items : LoadForSignal(q, i)

-----------------------------------------------------------------------------
\* Whatever the order in which copies are read and stored, a stored row agrees with
\* itself: no more demonstrated answers than answers, and a stage that its own counters
\* have reached (acquire.go Refresh stores counters and stage together).
RowsAreCoherent ==
    \A i \in Items :
        /\ uk[i].correct <= uk[i].total
        /\ StageOrder(Stage(uk[i], FALSE)) <= StageOrder(uk[i].stage)

\* jobs/reader_signals.go:19: "per-user serialization keeps the read-modify-write of
\* user_knowledge rows from interleaving".  A count that was stored is never taken back.
CountersOnlyGrow ==
    [][\A i \in Items :
        /\ uk'[i].exposure >= uk[i].exposure /\ uk'[i].lookups >= uk[i].lookups
        /\ uk'[i].correct >= uk[i].correct /\ uk'[i].total >= uk[i].total]_acquireVars
=============================================================================
