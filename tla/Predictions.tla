---------------------------- MODULE Predictions ----------------------------
(***************************************************************************)
(* How stale what the selector is told about an item may be.               *)
(*                                                                         *)
(* A writer of user_knowledge (acquire.go Refresh) stores the row with a   *)
(* score of its own, deletes the cached prediction, and starts a goroutine *)
(* that scores the row once more and caches that; nobody waits for it and  *)
(* its failure is ignored.  The selector (db_selector.go) reads the rows,  *)
(* the cached predictions and the items in three statements, and takes the *)
(* cached prediction of a row if it is fresh, else the score of the row.   *)
(*                                                                         *)
(* A score is known by the version of the row it was computed from.        *)
(***************************************************************************)
EXTENDS Naturals, FiniteSets

CONSTANTS
    PredictedItems,
    Refreshers,       \* calls of Refresh, each for one item
    RefreshedBy,      \* call -> its item
    MaxAge,           \* of a cached prediction, in ticks
    LastTick,
    TargetCount       \* of the budget

ASSUME RefreshAssumption == RefreshedBy \in [Refreshers -> PredictedItems]

VARIABLES
    knowledge,     \* item -> version and stage of its row
    cached,        \* item -> version and time of its cached prediction
    recomputes,    \* goroutines under way: item, version, time if it has looked at the clock
    refresh,       \* call -> its place in Refresh, and the version it stored
    today,
    selection,     \* one call of Select
    mixed          \* items whose writers or goroutines have crossed

predictionVars == <<knowledge, cached, recomputes, refresh, today, selection, mixed>>

Never == [version |-> 0, at |-> 0]
Stages == {"unseen", "learning", "known"}

NoSelection == [pc |-> "idle", row |-> [i \in PredictedItems |-> [version |-> 0, stage |-> "unseen"]],
                score |-> [i \in PredictedItems |-> 0], doubt |-> {}, targets |-> {}, new |-> {}]

PredictionInit ==
    /\ knowledge = [i \in PredictedItems |-> [version |-> 0, stage |-> "unseen"]]
    /\ cached = [i \in PredictedItems |-> Never]
    /\ recomputes = {}
    /\ refresh = [q \in Refreshers |-> [pc |-> "idle", version |-> 0]]
    /\ today = 0
    /\ selection = NoSelection
    /\ mixed = {}

\* A stage is never taken back.
StagesFrom(stage) ==
    CASE stage = "unseen" -> Stages [] stage = "learning" -> {"learning", "known"} [] OTHER -> {"known"}

\* All of the formula that matters here: a row that has changed has another score.
Score(row) == row.version

UnderWay(i) == \E g \in recomputes : g.item = i
WritersOf(i) == {q \in Refreshers : RefreshedBy[q] = i /\ refresh[q].pc = "delete"}

\* The row is stored.  Writers and goroutines of one item that overlap cross.
UpsertKnowledge(q) ==
    LET i == RefreshedBy[q] IN
    /\ refresh[q].pc = "idle"
    /\ refresh' = [refresh EXCEPT ![q] = [pc |-> "delete", version |-> knowledge[i].version + 1]]
    /\ \E stage \in StagesFrom(knowledge[i].stage) :
          knowledge' = [knowledge EXCEPT ![i] = [version |-> @.version + 1, stage |-> stage]]
    /\ mixed' = IF UnderWay(i) \/ WritersOf(i) # {} THEN mixed \cup {i} ELSE mixed
    /\ UNCHANGED <<cached, recomputes, today, selection>>

X_KeepPrediction(q) ==
    LET i == RefreshedBy[q] IN
    /\ refresh[q].pc = "delete"
    /\ refresh' = [refresh EXCEPT ![q].pc = "done"]
    /\ recomputes' = recomputes \cup {[item |-> i, version |-> refresh[q].version, at |-> 0, ready |-> FALSE]}
    /\ UNCHANGED <<cached, knowledge, today, selection, mixed>>

\* The prediction is deleted and a goroutine is started for the row that was stored.  With
\* the cache empty, and nobody else to fill it from before, the crossing is over.
DeletePrediction(q) ==
    LET i == RefreshedBy[q] IN
    /\ refresh[q].pc = "delete"
    /\ refresh' = [refresh EXCEPT ![q].pc = "done"]
    /\ cached' = [cached EXCEPT ![i] = Never]
    /\ recomputes' = recomputes \cup {[item |-> i, version |-> refresh[q].version, at |-> 0, ready |-> FALSE]}
    /\ mixed' = IF UnderWay(i) \/ WritersOf(i) # {q} \/ refresh[q].version # knowledge[i].version
                THEN mixed ELSE mixed \ {i}
    /\ UNCHANGED <<knowledge, today, selection>>

\* The statement fails, or the writer dies before it: the row is stored all the same.
DeleteFails(q) ==
    /\ refresh[q].pc = "delete"
    /\ refresh' = [refresh EXCEPT ![q].pc = "done"]
    /\ mixed' = mixed \cup {RefreshedBy[q]}
    /\ UNCHANGED <<knowledge, cached, recomputes, today, selection>>

\* The goroutine looks at the clock, and stores.
Recompute(g) ==
    /\ ~g.ready
    /\ recomputes' = (recomputes \ {g}) \cup {[g EXCEPT !.ready = TRUE, !.at = today]}
    /\ UNCHANGED <<knowledge, cached, refresh, today, selection, mixed>>

StorePrediction(g) ==
    /\ g.ready
    /\ recomputes' = recomputes \ {g}
    /\ cached' = [cached EXCEPT ![g.item] = [version |-> g.version, at |-> g.at]]
    /\ UNCHANGED <<knowledge, refresh, today, selection, mixed>>

\* Its statement fails or the process ends.
RecomputeDies(g) ==
    /\ recomputes' = recomputes \ {g}
    /\ UNCHANGED <<knowledge, cached, refresh, today, selection, mixed>>

DayPasses ==
    /\ today < LastTick
    /\ today' = today + 1
    /\ UNCHANGED <<knowledge, cached, recomputes, refresh, selection, mixed>>

-----------------------------------------------------------------------------
Fresh(prediction) == prediction # Never /\ today - prediction.at <= MaxAge

ReadKnowledge ==
    /\ selection.pc = "idle"
    /\ selection' = [selection EXCEPT !.pc = "predictions", !.row = knowledge]
    /\ UNCHANGED <<knowledge, cached, recomputes, refresh, today, mixed>>

\* An item is in doubt if its writers have crossed, or one of them is half way.
ReadPredictions ==
    /\ selection.pc = "predictions"
    /\ selection' = [selection EXCEPT !.pc = "items",
            !.score = [i \in PredictedItems |->
                          IF selection.row[i].version # 0 /\ Fresh(cached[i]) THEN cached[i].version
                          ELSE Score(selection.row[i])],
            !.doubt = {i \in PredictedItems : i \in mixed \/ WritersOf(i) # {}}]
    /\ UNCHANGED <<knowledge, cached, recomputes, refresh, today, mixed>>

\* The bucket of an item is that of its row; of those that are being learned the budget
\* takes the most urgent ones, which the model leaves open.
ListKnowledgeItems ==
    /\ selection.pc = "items"
    /\ LET learning == {i \in PredictedItems : selection.row[i].stage = "learning"}
       IN \E targets \in SUBSET learning :
            /\ Cardinality(targets) = TargetCount \/ (targets = learning /\ Cardinality(learning) < TargetCount)
            /\ selection' = [selection EXCEPT !.pc = "done", !.targets = targets,
                                !.new = {i \in PredictedItems : selection.row[i].stage = "unseen"}]
    /\ UNCHANGED <<knowledge, cached, recomputes, refresh, today, mixed>>

PredictionNext ==
    \/ \E q \in Refreshers : UpsertKnowledge(q) \/ DeletePrediction(q) \/ DeleteFails(q)
    \/ \E g \in recomputes : Recompute(g) \/ StorePrediction(g) \/ RecomputeDies(g)
    \/ DayPasses \/ ReadKnowledge \/ ReadPredictions \/ ListKnowledgeItems

PredictionSpec == PredictionInit /\ [][PredictionNext]_predictionVars

-----------------------------------------------------------------------------
\* "signal changes explicitly delete affected rows" (predictor/cache.go): no item is ranked
\* by a prediction that is older than the row it was read with, unless the prediction was
\* read while a writer was between its two statements, or the item's writers have crossed.
SelectionIsCurrent ==
    selection.pc # "idle" => \A i \in PredictedItems \ selection.doubt :
        selection.pc # "predictions" => selection.score[i] >= Score(selection.row[i])
=============================================================================
