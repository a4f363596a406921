------------------------- MODULE Preparation_proofs -------------------------
(***************************************************************************)
(* What is proved about what a story and its tasks are made from: the      *)
(* predictions the selector ranks items by, the level and the topic of a   *)
(* session, and the content of its tasks.                                  *)
(***************************************************************************)
EXTENDS Predictions, SessionPlan, TaskContent, FiniteSetTheorems, TLAPS

(***************************************************************************)
(* Predictions: no item is ranked by a prediction older than its row.  Of  *)
(* an item whose writers have not crossed, one writer or one goroutine at  *)
(* most is under way, with the newest row, and the cached prediction is of *)
(* that row (Uncrossed).                                                   *)
(***************************************************************************)

ScoringRow == [version : Nat, stage : Stages]
Scoring == [item : PredictedItems, version : Nat, at : Int, ready : BOOLEAN]

PredictionTypeOK ==
    /\ knowledge \in [PredictedItems -> ScoringRow]
    /\ cached \in [PredictedItems -> [version : Nat, at : Int]]
    /\ recomputes \subseteq Scoring
    /\ refresh \in [Refreshers -> [pc : {"idle", "delete", "done"}, version : Nat]]
    /\ today \in Int
    /\ mixed \subseteq PredictedItems
    /\ DOMAIN selection = {"pc", "row", "score", "doubt", "targets", "new"}
    /\ selection.row \in [PredictedItems -> ScoringRow]

\* Of an item whose writers and goroutines have not crossed, one at most is under way, and
\* with the newest row; with no writer half way the cached prediction is of that row.
Uncrossed(i) ==
    /\ \A g \in recomputes : g.item = i =>
          g.version = knowledge[i].version /\ WritersOf(i) = {}
    /\ \A q \in WritersOf(i) : refresh[q].version = knowledge[i].version
    /\ \A p, q \in WritersOf(i) : p = q
    /\ WritersOf(i) = {} => cached[i] = Never \/ cached[i].version = knowledge[i].version

PredictionInv ==
    /\ PredictionTypeOK
    /\ \A i \in PredictedItems \ mixed : Uncrossed(i)
    /\ \A i \in PredictedItems : selection.row[i].version <= knowledge[i].version
    /\ SelectionIsCurrent

\* No row, no prediction and nobody at work.
LEMMA InitialPredictions == PredictionInit => PredictionInv
<1>. SUFFICES ASSUME PredictionInit PROVE PredictionInv
  OBVIOUS
<1>1. PredictionTypeOK
  BY DEF PredictionInit, PredictionTypeOK, ScoringRow, Scoring, Stages, Never, NoSelection
<1>2. \A i \in PredictedItems : WritersOf(i) = {}
  BY DEF PredictionInit, WritersOf
<1>. QED  BY <1>1, <1>2
          DEF PredictionInit, PredictionInv, Uncrossed, NoSelection, SelectionIsCurrent

\* Steps that leave the selection alone and take no version back.
LEMMA SelectionStays ==
    ASSUME PredictionInv, selection' = selection, knowledge' \in [PredictedItems -> ScoringRow],
           \A i \in PredictedItems : knowledge[i].version <= knowledge'[i].version
    PROVE  /\ SelectionIsCurrent'
           /\ \A i \in PredictedItems : selection'.row[i].version <= knowledge'[i].version
  BY DEF PredictionInv, PredictionTypeOK, SelectionIsCurrent, Score, ScoringRow

\* A row is stored.
LEMMA UpsertKeeps ==
    ASSUME PredictionInv, NEW q \in Refreshers, UpsertKnowledge(q)
    PROVE  PredictionInv'
<1>. DEFINE i == RefreshedBy[q]
<1>1. /\ i \in PredictedItems /\ PredictionTypeOK /\ refresh[q].pc = "idle"
      /\ UNCHANGED <<cached, recomputes, today, selection>>
      /\ refresh' = [refresh EXCEPT ![q] = [pc |-> "delete", version |-> knowledge[i].version + 1]]
      /\ mixed' = IF UnderWay(i) \/ WritersOf(i) # {} THEN mixed \cup {i} ELSE mixed
  BY RefreshAssumption DEF UpsertKnowledge, PredictionInv
<1>2. PICK stage \in Stages :
        knowledge' = [knowledge EXCEPT ![i] = [version |-> knowledge[i].version + 1, stage |-> stage]]
  <2>1. \A s : StagesFrom(s) \subseteq Stages
    BY DEF StagesFrom, Stages
  <2>. QED  BY <2>1 DEF UpsertKnowledge
<1>3. knowledge[i].version \in Nat
  BY <1>1 DEF PredictionTypeOK, ScoringRow
<1>4. PredictionTypeOK'
  BY <1>1, <1>2, <1>3 DEF PredictionTypeOK, ScoringRow
<1>5. \A j \in PredictedItems : knowledge[j].version <= knowledge'[j].version
  BY <1>1, <1>2, <1>3 DEF PredictionTypeOK, ScoringRow
<1>6. /\ \A j \in PredictedItems \ {i} : WritersOf(j)' = WritersOf(j)
      /\ WritersOf(i)' = WritersOf(i) \cup {q}
  BY <1>1 DEF PredictionTypeOK, WritersOf
<1>7. \A j \in PredictedItems \ mixed' : Uncrossed(j)'
  <2>. SUFFICES ASSUME NEW j \in PredictedItems \ mixed' PROVE Uncrossed(j)'
    OBVIOUS
  <2>1. j \notin mixed /\ Uncrossed(j)
    BY <1>1 DEF PredictionInv
  <2>2. CASE j = i
    <3>1. ~UnderWay(i) /\ WritersOf(i)' = {q}
      BY <1>1, <1>6, <2>2
    <3>2. refresh'[q].version = knowledge'[i].version
      BY <1>1, <1>2 DEF PredictionTypeOK
    <3>. QED  BY <1>1, <2>2, <3>1, <3>2 DEF Uncrossed, UnderWay
  <2>3. CASE j # i
    <3>1. WritersOf(j)' = WritersOf(j) /\ knowledge'[j] = knowledge[j]
          /\ \A p \in WritersOf(j) : refresh'[p] = refresh[p]
      BY <1>1, <1>2, <1>6, <2>3 DEF PredictionTypeOK, WritersOf
    <3>. QED  BY <1>1, <2>1, <3>1 DEF Uncrossed
  <2>. QED  BY <2>2, <2>3
<1>. QED  BY <1>1, <1>4, <1>5, <1>7, SelectionStays DEF PredictionInv, PredictionTypeOK

\* Its prediction is deleted, or is not.
LEMMA DeleteKeeps ==
    ASSUME PredictionInv, NEW q \in Refreshers, DeletePrediction(q) \/ DeleteFails(q)
    PROVE  PredictionInv'
<1>. DEFINE i == RefreshedBy[q]
<1>1. /\ i \in PredictedItems /\ PredictionTypeOK /\ refresh[q].pc = "delete"
      /\ UNCHANGED <<knowledge, today, selection>>
      /\ refresh' = [refresh EXCEPT ![q] = [refresh[q] EXCEPT !.pc = "done"]]
      /\ q \in WritersOf(i) /\ refresh[q].version \in Nat
  BY RefreshAssumption DEF DeletePrediction, DeleteFails, PredictionInv, PredictionTypeOK, WritersOf
<1>2. /\ \A j \in PredictedItems \ {i} : WritersOf(j)' = WritersOf(j)
      /\ WritersOf(i)' = WritersOf(i) \ {q}
      /\ \A p \in Refreshers : refresh'[p].version = refresh[p].version
  BY <1>1 DEF PredictionTypeOK, WritersOf
<1>3. \A j \in PredictedItems : knowledge[j].version <= knowledge'[j].version
  BY <1>1 DEF PredictionTypeOK, ScoringRow
<1>4. CASE DeletePrediction(q)
  <2>. DEFINE scoring == [item |-> i, version |-> refresh[q].version, at |-> 0, ready |-> FALSE]
  <2>1. /\ cached' = [cached EXCEPT ![i] = Never]
        /\ recomputes' = recomputes \cup {scoring}
        /\ mixed' = IF UnderWay(i) \/ WritersOf(i) # {q} \/ refresh[q].version # knowledge[i].version
                    THEN mixed ELSE mixed \ {i}
    BY <1>4 DEF DeletePrediction
  <2>2. scoring \in Scoring /\ scoring.item = i /\ scoring.version = refresh[q].version
    BY <1>1 DEF Scoring
  <2>. HIDE DEF scoring
  <2>3. PredictionTypeOK'
    <3>1. refresh' \in [Refreshers -> [pc : {"idle", "delete", "done"}, version : Nat]]
      BY <1>1 DEF PredictionTypeOK
    <3>2. cached' \in [PredictedItems -> [version : Nat, at : Int]]
      BY <1>1, <2>1 DEF PredictionTypeOK, Never
    <3>. QED  BY <1>1, <2>1, <2>2, <3>1, <3>2 DEF PredictionTypeOK
  <2>4. \A j \in PredictedItems \ mixed' : Uncrossed(j)'
    <3>. SUFFICES ASSUME NEW j \in PredictedItems \ mixed' PROVE Uncrossed(j)'
      OBVIOUS
    <3>1. CASE j = i
      <4>1. ~UnderWay(i) /\ WritersOf(i) = {q} /\ refresh[q].version = knowledge[i].version
        <5>1. CASE i \in mixed
          BY <2>1, <3>1, <5>1
        <5>2. CASE i \notin mixed
          BY <1>1, <5>2 DEF PredictionInv, Uncrossed, UnderWay
        <5>. QED  BY <5>1, <5>2
      <4>2. WritersOf(i)' = {} /\ cached'[i] = Never
        BY <1>1, <1>2, <2>1, <4>1 DEF PredictionTypeOK
      <4>. QED  BY <1>1, <2>1, <2>2, <3>1, <4>1, <4>2 DEF Uncrossed, UnderWay
    <3>2. CASE j # i
      <4>1. j \notin mixed /\ Uncrossed(j) /\ cached'[j] = cached[j] /\ WritersOf(j)' = WritersOf(j)
        BY <1>1, <1>2, <2>1, <3>2 DEF PredictionInv, PredictionTypeOK
      <4>2. WritersOf(j) \subseteq Refreshers
        BY DEF WritersOf
      <4>. QED  BY <1>1, <1>2, <2>1, <2>2, <3>2, <4>1, <4>2 DEF Uncrossed
    <3>. QED  BY <3>1, <3>2
  <2>. QED  BY <1>1, <1>3, <2>3, <2>4, SelectionStays DEF PredictionInv, PredictionTypeOK
<1>5. CASE DeleteFails(q)
  <2>1. UNCHANGED <<cached, recomputes>> /\ mixed' = mixed \cup {i}
    BY <1>5 DEF DeleteFails
  <2>2. PredictionTypeOK'
    BY <1>1, <2>1 DEF PredictionTypeOK
  <2>3. \A j \in PredictedItems \ mixed' : Uncrossed(j)'
    <3>. SUFFICES ASSUME NEW j \in PredictedItems \ mixed' PROVE Uncrossed(j)'
      OBVIOUS
    <3>1. j # i /\ Uncrossed(j) /\ WritersOf(j)' = WritersOf(j) /\ WritersOf(j) \subseteq Refreshers
      BY <1>2, <2>1 DEF PredictionInv, WritersOf
    <3>. QED  BY <1>1, <1>2, <2>1, <3>1 DEF Uncrossed
  <2>. QED  BY <1>1, <1>3, <2>2, <2>3, SelectionStays DEF PredictionInv, PredictionTypeOK
<1>. QED  BY <1>4, <1>5

\* The goroutine that scores a row.
LEMMA RecomputeKeeps ==
    ASSUME PredictionInv, NEW g \in recomputes, Recompute(g) \/ StorePrediction(g) \/ RecomputeDies(g)
    PROVE  PredictionInv'
<1>1. /\ UNCHANGED <<knowledge, refresh, today, selection, mixed>> /\ PredictionTypeOK
      /\ g \in Scoring
  BY DEF Recompute, StorePrediction, RecomputeDies, PredictionInv, PredictionTypeOK
<1>2. \A j \in PredictedItems : WritersOf(j)' = WritersOf(j)
  BY <1>1 DEF WritersOf
<1>3. \A h \in recomputes' : /\ h \in Scoring
                             /\ \E k \in recomputes : h.item = k.item /\ h.version = k.version
  <2>1. CASE Recompute(g)
    <3>. DEFINE ready == [g EXCEPT !.ready = TRUE, !.at = today]
    <3>1. recomputes' = (recomputes \ {g}) \cup {ready}
      BY <2>1 DEF Recompute
    <3>2. ready \in Scoring /\ ready.item = g.item /\ ready.version = g.version
      BY <1>1 DEF Scoring, PredictionTypeOK
    <3>. HIDE DEF ready
    <3>. QED  BY <1>1, <3>1, <3>2 DEF PredictionTypeOK
  <2>2. CASE StorePrediction(g) \/ RecomputeDies(g)
    BY <1>1, <2>2 DEF StorePrediction, RecomputeDies, PredictionTypeOK
  <2>. QED  BY <2>1, <2>2
<1>4. cached' \in [PredictedItems -> [version : Nat, at : Int]]
      /\ \A j \in PredictedItems :
            cached'[j] = cached[j] \/ (g.item = j /\ cached'[j].version = g.version)
  BY <1>1 DEF Recompute, StorePrediction, RecomputeDies, PredictionTypeOK, Scoring
<1>5. PredictionTypeOK'
  BY <1>1, <1>3, <1>4 DEF PredictionTypeOK
<1>6. \A j \in PredictedItems \ mixed' : Uncrossed(j)'
  BY <1>1, <1>2, <1>3, <1>4 DEF PredictionInv, Uncrossed
<1>7. \A j \in PredictedItems : knowledge[j].version <= knowledge'[j].version
  BY <1>1 DEF PredictionTypeOK, ScoringRow
<1>. QED  BY <1>1, <1>5, <1>6, <1>7, SelectionStays DEF PredictionInv, PredictionTypeOK

\* The day passes, and the selector reads.
LEMMA SelectingKeeps ==
    ASSUME PredictionInv, DayPasses \/ ReadKnowledge \/ ReadPredictions \/ ListKnowledgeItems
    PROVE  PredictionInv'
<1>1. UNCHANGED <<knowledge, cached, recomputes, refresh, mixed>> /\ PredictionTypeOK
  BY DEF DayPasses, ReadKnowledge, ReadPredictions, ListKnowledgeItems, PredictionInv
<1>2. \A j \in PredictedItems \ mixed : Uncrossed(j)'
  <2>1. \A j \in PredictedItems : WritersOf(j)' = WritersOf(j)
    BY <1>1 DEF WritersOf
  <2>. QED  BY <1>1, <2>1 DEF PredictionInv, Uncrossed
<1>3. CASE DayPasses
  <2>1. selection' = selection /\ today' \in Int
    BY <1>1, <1>3 DEF DayPasses, PredictionTypeOK
  <2>2. \A j \in PredictedItems : knowledge[j].version <= knowledge'[j].version
    BY <1>1 DEF PredictionTypeOK, ScoringRow
  <2>3. PredictionTypeOK'
    BY <1>1, <2>1 DEF PredictionTypeOK
  <2>. QED  BY <1>1, <1>2, <2>1, <2>2, <2>3, SelectionStays DEF PredictionInv, PredictionTypeOK
<1>4. CASE ReadKnowledge
  <2>1. /\ today' = today /\ DOMAIN selection' = DOMAIN selection
        /\ selection'.pc = "predictions" /\ selection'.row = knowledge
    BY <1>1, <1>4 DEF ReadKnowledge, PredictionTypeOK
  <2>2. PredictionTypeOK'
    BY <1>1, <2>1 DEF PredictionTypeOK
  <2>3. \A j \in PredictedItems : knowledge[j].version \in Nat
    BY <1>1 DEF PredictionTypeOK, ScoringRow
  <2>. QED  BY <1>1, <1>2, <2>1, <2>2, <2>3 DEF PredictionInv, SelectionIsCurrent
<1>5. CASE ReadPredictions
  <2>1. /\ today' = today /\ DOMAIN selection' = DOMAIN selection /\ selection'.row = selection.row
        /\ \A j \in PredictedItems : selection'.score[j] =
              IF selection.row[j].version # 0 /\ Fresh(cached[j]) THEN cached[j].version
              ELSE Score(selection.row[j])
        /\ selection'.doubt = {j \in PredictedItems : j \in mixed \/ WritersOf(j) # {}}
    BY <1>1, <1>5 DEF ReadPredictions, PredictionTypeOK
  <2>2. PredictionTypeOK'
    BY <1>1, <2>1 DEF PredictionTypeOK
  <2>3. ASSUME NEW j \in PredictedItems \ selection'.doubt
        PROVE  selection'.score[j] >= Score(selection'.row[j])
    <3>1. j \in PredictedItems \ mixed /\ WritersOf(j) = {}
      BY <2>1, <2>3
    <3>2. cached[j] = Never \/ cached[j].version = knowledge[j].version
      BY <3>1 DEF PredictionInv, Uncrossed
    <3>3. /\ selection.row[j].version \in Nat /\ knowledge[j].version \in Nat
          /\ selection.row[j].version <= knowledge[j].version
      BY <1>1, <3>1 DEF PredictionInv, PredictionTypeOK, ScoringRow
    <3>. QED  BY <2>1, <3>1, <3>2, <3>3 DEF Fresh, Score
  <2>4. SelectionIsCurrent'
    BY <2>3 DEF SelectionIsCurrent
  <2>. QED  BY <1>1, <1>2, <2>1, <2>2, <2>4 DEF PredictionInv
<1>6. CASE ListKnowledgeItems
  <2>1. /\ today' = today /\ DOMAIN selection' = DOMAIN selection /\ selection'.row = selection.row
        /\ selection'.score = selection.score /\ selection'.doubt = selection.doubt
        /\ selection.pc = "items"
    BY <1>1, <1>6 DEF ListKnowledgeItems, PredictionTypeOK
  <2>2. PredictionTypeOK'
    BY <1>1, <2>1 DEF PredictionTypeOK
  <2>. QED  BY <1>1, <1>2, <2>1, <2>2 DEF PredictionInv, SelectionIsCurrent
<1>. QED  BY <1>3, <1>4, <1>5, <1>6

\* PredictionInv, for any items, writers and ages of a cached prediction.
THEOREM PredictionInvariant == PredictionSpec => []PredictionInv
<1>1. PredictionInv /\ [PredictionNext]_predictionVars => PredictionInv'
  <2>. SUFFICES ASSUME PredictionInv, [PredictionNext]_predictionVars PROVE PredictionInv'
    OBVIOUS
  <2>1. CASE UNCHANGED predictionVars
    BY <2>1 DEF predictionVars, PredictionInv, PredictionTypeOK, Uncrossed, WritersOf,
                  SelectionIsCurrent
  <2>2. CASE PredictionNext
    BY <2>2, UpsertKeeps, DeleteKeeps, RecomputeKeeps, SelectingKeeps DEF PredictionNext
  <2>. QED  BY <2>1, <2>2
<1>. QED  BY <1>1, InitialPredictions, PTL DEF PredictionSpec

\* SelectionIsCurrent, for any items, writers and ages of a cached prediction.
THEOREM SelectionsAreCurrent == PredictionSpec => []SelectionIsCurrent
<1>1. PredictionInv => SelectionIsCurrent
  BY DEF PredictionInv
<1>. QED  BY <1>1, PredictionInvariant, PTL

-----------------------------------------------------------------------------
(***************************************************************************)
(* SessionPlan: topics differ within the window, and the constraints allow *)
(* what the level stands for.  That a topic can be found is a matter of    *)
(* counting: a window has no more topics than sessions, and a pool with    *)
(* more must have one that is not among them (ChosenIsFresh).  The level is *)
(* what a recursive function makes of the rules; that the function is there, *)
(* and that every level has its way, is shown by looking at the least rule *)
(* at which it would fail (LeastNumber stands in for induction).           *)
(***************************************************************************)

\* A set of numbers has a least one: what stands in for induction here.
LEMMA LeastNumber ==
    ASSUME NEW T \in SUBSET Nat, T # {}
    PROVE  Smallest(T) \in T /\ \A n \in T : Smallest(T) <= n
<1>. DEFINE Below == {0..n : n \in T}
<1>1. Below \subseteq FiniteSubsetsOf(Nat)
  <2>1. \A n \in T : 0..n \in SUBSET Nat /\ IsFiniteSet(0..n)
    BY FS_Interval
  <2>. QED  BY <2>1 DEF FiniteSubsetsOf
<1>2. PICK b \in Below : \A c \in Below : ~ (<<c, b>> \in StrictSubsetOrdering(Nat))
  <2>1. Below # {}
    OBVIOUS
  <2>. HIDE DEF Below
  <2>2. IsWellFoundedOn(StrictSubsetOrdering(Nat), FiniteSubsetsOf(Nat))
    BY FS_StrictSubsetOrderingWellFounded
  <2>. QED  BY <1>1, <2>1, <2>2, WFMin, Zenon
<1>3. PICK m \in T : b = 0..m
  OBVIOUS
<1>4. ASSUME NEW n \in T, n < m PROVE FALSE
  <2>1. 0..n \in Below /\ 0..n \subseteq 0..m /\ m \in 0..m /\ m \notin 0..n
    BY <1>4
  <2>2. <<0..n, b>> \in StrictSubsetOrdering(Nat)
    BY <2>1, <1>3 DEF StrictSubsetOrdering
  <2>. QED  BY <1>2, <2>1, <2>2
<1>5. \E k \in T : \A n \in T : k <= n
  BY <1>4
<1>. QED  BY <1>5, Zenon DEF Smallest

TopicOf(n) == IF planned[n].topic = NoTopic THEN planned[n].chosen ELSE planned[n].topic

\* Of a session whose topic was chosen in its turn: the ones before it have theirs, and in
\* the window they are others.
InTurn(n) ==
    /\ planned[n].sound /\ planned[n].pc # "deleted"
    /\ planned[n].topic # NoTopic \/ planned[n].pc = "set"
    => \A m \in DOMAIN planned : m < n /\ planned[m].pc # "deleted" =>
          /\ planned[m].topic # NoTopic
          /\ n - m <= HistoryWindow /\ Len(PoolOf(planned[n].level)) > HistoryWindow =>
                planned[m].topic # TopicOf(n)

RowFields == {"type", "level", "topic", "pc", "chosen", "constraints",
              "derivedAt", "plannedAt", "sound"}

PlanInv ==
    /\ \E Rows : planned \in Seq(Rows)
    /\ \A n \in DOMAIN planned :
          /\ DOMAIN planned[n] = RowFields
          /\ planned[n].pc \in {"choose", "set"} => planned[n].topic = NoTopic
          /\ InTurn(n)

\* The sessions are numbered.
LEMMA PlannedIsSequence ==
    ASSUME PlanInv
    PROVE  Len(planned) \in Nat /\ DOMAIN planned = 1..Len(planned)
<1>1. PICK Rows : planned \in Seq(Rows)
  BY DEF PlanInv
<1>. QED  BY <1>1

\* A pool is a sequence that names no topic twice, the fallback too.
LEMMA PoolsAreSequences ==
    ASSUME NEW level
    PROVE  /\ Len(PoolOf(level)) \in Nat
           /\ DOMAIN PoolOf(level) = 1..Len(PoolOf(level))
           /\ \A i, j \in DOMAIN PoolOf(level) : PoolOf(level)[i] = PoolOf(level)[j] => i = j
<1>1. ASSUME NEW l
      PROVE  /\ \E Topics : PoolAt(l) \in Seq(Topics)
             /\ \A i, j \in DOMAIN PoolAt(l) : PoolAt(l)[i] = PoolAt(l)[j] => i = j
  <2>1. CASE l \in DOMAIN TopicPools
    <3>1. PoolAt(l) = TopicPools[l]
      BY <2>1 DEF PoolAt
    <3>. QED  BY <2>1, <3>1, PoolAssumption
  <2>2. CASE l \notin DOMAIN TopicPools
    <3>1. PoolAt(l) = <<>> /\ <<>> \in Seq({})
      BY <2>2 DEF PoolAt
    <3>. QED  BY <3>1
  <2>. QED  BY <2>1, <2>2
<1>2. PICK l : PoolOf(level) = PoolAt(l)
  BY DEF PoolOf
<1>. QED  BY <1>1, <1>2

\* A window of sessions is no larger than the window.
LEMMA WindowIsSmall ==
    ASSUME NEW L \in Nat, NEW All \in SUBSET (1..L)
    PROVE  LET recent == {m \in All : Cardinality({l \in All : l > m}) < HistoryWindow}
           IN  IsFiniteSet(recent) /\ Cardinality(recent) <= HistoryWindow
<1>. DEFINE recent == {m \in All : Cardinality({l \in All : l > m}) < HistoryWindow}
<1>. SUFFICES IsFiniteSet(recent) /\ Cardinality(recent) <= HistoryWindow
  OBVIOUS
<1>0. recent \in SUBSET All /\ recent \in SUBSET Nat
  <2>1. recent \subseteq All
    BY Zenon
  <2>2. All \subseteq Nat
    OBVIOUS
  <2>. HIDE DEF recent
  <2>. QED  BY <2>1, <2>2
<1>1. IsFiniteSet(All) /\ IsFiniteSet(recent)
  <2>. HIDE DEF recent
  <2>1. IsFiniteSet(1..L)
    BY FS_Interval
  <2>2. IsFiniteSet(All)
    BY <2>1, FS_Subset
  <2>. QED  BY <1>0, <2>2, FS_Subset
<1>2. CASE recent = {}
  <2>. HIDE DEF recent
  <2>. QED  BY <1>1, <1>2, FS_EmptySet, WindowAssumption
<1>3. CASE recent # {}
  <2>1. PICK m \in recent : \A n \in recent : m <= n
    <3>. HIDE DEF recent
    <3>. QED  BY <1>0, <1>3, LeastNumber
  <2>. DEFINE later == {l \in All : l > m}
  <2>2. Cardinality(later) < HistoryWindow
    OBVIOUS
  <2>3. \A n \in recent : n \in All /\ (n # m => n > m)
    BY <2>1
  <2>4. later \in SUBSET All /\ recent \ {m} \in SUBSET later
    BY <2>3
  <2>. HIDE DEF recent, later
  <2>5. IsFiniteSet(later)
    BY <1>1, <2>4, FS_Subset
  <2>6. Cardinality(recent \ {m}) <= Cardinality(later) /\ Cardinality(later) \in Nat
    BY <2>4, <2>5, FS_Subset, FS_CardinalityType
  <2>7. Cardinality(recent \ {m}) = Cardinality(recent) - 1 /\ Cardinality(recent) \in Nat
    BY <1>1, FS_RemoveElement, FS_CardinalityType
  <2>. QED  BY <1>1, <2>2, <2>6, <2>7, WindowAssumption
<1>. QED  BY <1>2, <1>3

\* A pool that is larger than the window has a topic that is not in it.
LEMMA ChosenIsFresh ==
    ASSUME PlanInv, NEW level, Len(PoolOf(level)) > HistoryWindow
    PROVE  Choose(level, RecentSessionTopics) \notin RecentSessionTopics
<1>. DEFINE pool == PoolOf(level)
            recent == {m \in WithTopic : Cardinality({l \in WithTopic : l > m}) < HistoryWindow}
            fresh == {j \in DOMAIN pool : pool[j] \notin RecentSessionTopics}
<1>1. WithTopic \in SUBSET (1..Len(planned)) /\ Len(planned) \in Nat
  BY PlannedIsSequence DEF WithTopic
<1>2. IsFiniteSet(recent) /\ Cardinality(recent) <= HistoryWindow
  BY <1>1, WindowIsSmall
<1>3. /\ Len(pool) \in Nat /\ DOMAIN pool = 1..Len(pool)
      /\ \A i, j \in DOMAIN pool : pool[i] = pool[j] => i = j
  BY PoolsAreSequences
<1>4. RecentSessionTopics = {planned[m].topic : m \in recent}
  BY DEF RecentSessionTopics
<1>5. fresh # {}
  <2>. SUFFICES ASSUME fresh = {} PROVE FALSE
    OBVIOUS
  <2>. DEFINE holder == [j \in 1..Len(pool) |-> CHOOSE m \in recent : planned[m].topic = pool[j]]
  <2>1. \A j \in 1..Len(pool) : \E m \in recent : planned[m].topic = pool[j]
    BY <1>3, <1>4
  <2>2. /\ holder \in [1..Len(pool) -> recent]
        /\ \A j \in 1..Len(pool) : planned[holder[j]].topic = pool[j]
    BY <2>1
  <2>. HIDE DEF holder, recent, pool
  <2>3. IsFiniteSet(1..Len(pool)) /\ Cardinality(1..Len(pool)) = Len(pool)
    <3>1. PICK size \in Nat : size = Len(pool)
      BY <1>3
    <3>2. IsFiniteSet(1..size) /\ Cardinality(1..size) = IF 1 > size THEN 0 ELSE size - 1 + 1
      BY FS_Interval
    <3>. QED  BY <3>1, <3>2
  <2>4. Cardinality(recent) < Cardinality(1..Len(pool))
    <3>1. Cardinality(recent) \in Nat /\ Len(pool) > HistoryWindow
      BY <1>2, FS_CardinalityType DEF pool
    <3>. QED  BY <1>2, <1>3, <2>3, <3>1, WindowAssumption
  <2>5. \E i, j \in 1..Len(pool) : i # j /\ holder[i] = holder[j]
    BY <1>2, <2>2, <2>3, <2>4, FS_PigeonHole
  <2>. QED  BY <1>3, <2>2, <2>5
<1>6. Smallest(fresh) \in fresh
  <2>1. fresh \in SUBSET Nat
    BY <1>3
  <2>. HIDE DEF fresh
  <2>. QED  BY <1>5, <2>1, LeastNumber
<1>7. pool # <<>>
  BY <1>3, WindowAssumption
<1>8. Choose(level, RecentSessionTopics) = pool[Smallest(fresh)]
  BY <1>5, <1>7 DEF Choose
<1>. QED  BY <1>6, <1>8

\* With the sessions before n alone having topics, those in the window of n are recent.
LEMMA NearIsRecent ==
    ASSUME PlanInv, NEW n \in DOMAIN planned, WithTopic \subseteq 1..(n - 1),
           NEW m \in WithTopic, n - m <= HistoryWindow
    PROVE  planned[m].topic \in RecentSessionTopics
<1>. DEFINE later == {l \in WithTopic : l > m}
<1>1. n \in Nat /\ m \in 1..(n - 1)
  BY PlannedIsSequence
<1>2. PICK first \in Int, last \in Int : first = m + 1 /\ last = n - 1
  BY <1>1
<1>3. later \in SUBSET (first..last)
  <2>1. \A l \in later : l \in first..last
    BY <1>1, <1>2
  <2>. HIDE DEF later
  <2>. QED  BY <2>1
<1>4. Cardinality(later) \in Nat /\ Cardinality(later) <= IF first > last THEN 0 ELSE last - first + 1
  <2>. HIDE DEF later
  <2>. DEFINE range == first..last
  <2>1. IsFiniteSet(range) /\ Cardinality(range) = IF first > last THEN 0 ELSE last - first + 1
    BY FS_Interval
  <2>2. later \in SUBSET range
    BY <1>3
  <2>. HIDE DEF range
  <2>3. IsFiniteSet(later) /\ Cardinality(later) <= Cardinality(range)
    BY <2>1, <2>2, FS_Subset
  <2>4. Cardinality(later) \in Nat
    BY <2>3, FS_CardinalityType
  <2>. QED  BY <2>1, <2>3, <2>4
<1>5. Cardinality(later) < HistoryWindow
  BY <1>1, <1>2, <1>4, WindowAssumption
<1>. QED  BY <1>5 DEF RecentSessionTopics

\* A step of session n that leaves the other sessions alone and changes no topic that is there.
LEMMA OthersStayInTurn ==
    ASSUME PlanInv, NEW n \in DOMAIN planned, DOMAIN planned' = DOMAIN planned,
           \A m \in DOMAIN planned : m # n => planned'[m] = planned[m],
           planned[n].topic # NoTopic => planned'[n].topic = planned[n].topic,
           planned[n].pc = "deleted" => planned'[n].pc = "deleted",
           NEW k \in DOMAIN planned, k # n
    PROVE  InTurn(k)'
<1>1. InTurn(k) /\ planned'[k] = planned[k]
  BY DEF PlanInv
<1>. QED  BY <1>1 DEF InTurn, TopicOf

\* A step of session n that does not choose for it.
LEMMA StaysInTurn ==
    ASSUME PlanInv, NEW n \in DOMAIN planned, DOMAIN planned' = DOMAIN planned,
           \A m \in DOMAIN planned : m # n => planned'[m] = planned[m],
           planned[n].pc # "deleted", planned'[n].sound = planned[n].sound,
           planned'[n].level = planned[n].level,
           \/ planned'[n].topic = planned[n].topic /\ planned'[n].pc # "set"
           \/ planned'[n].topic = planned[n].chosen /\ planned[n].topic = NoTopic
              /\ planned[n].pc = "set" /\ planned'[n].pc # "set"
    PROVE  InTurn(n)'
<1>1. InTurn(n) /\ n \in Nat
  BY PlannedIsSequence DEF PlanInv
<1>2. SUFFICES ASSUME planned'[n].sound, planned'[n].pc # "deleted", planned'[n].topic # NoTopic,
                      NEW m \in DOMAIN planned, m < n, planned[m].pc # "deleted"
               PROVE  /\ planned[m].topic # NoTopic
                      /\ n - m <= HistoryWindow /\ Len(PoolOf(planned[n].level)) > HistoryWindow =>
                            planned[m].topic # planned'[n].topic
  BY DEF InTurn, TopicOf
<1>3. TopicOf(n) = planned'[n].topic
  BY <1>2 DEF TopicOf
<1>. QED  BY <1>1, <1>2, <1>3 DEF InTurn

\* A topic is chosen.
LEMMA ChoiceIsInTurn ==
    ASSUME PlanInv, NEW n \in DOMAIN planned, NEW read \in BOOLEAN, ChooseTopic(n, read)
    PROVE  PlanInv'
<1>. DEFINE recent == IF read THEN RecentSessionTopics ELSE {}
            topic == Choose(planned[n].level, recent)
            sound == read /\ \A m \in DOMAIN planned : m # n /\ planned[m].pc # "deleted"
                                        => (m \in WithTopic <=> m < n)
<1>1. /\ planned[n].pc = "choose"
      /\ planned' = [planned EXCEPT ![n] = [planned[n] EXCEPT
                        !.pc = IF topic = NoTopic THEN "select" ELSE "set",
                        !.chosen = topic, !.sound = sound]]
  BY DEF ChooseTopic, PlanInv
<1>2. DOMAIN planned[n] = RowFields /\ planned[n].topic = NoTopic
  BY <1>1 DEF PlanInv
<1>. HIDE DEF topic, sound
<1>3. /\ DOMAIN planned' = DOMAIN planned /\ DOMAIN planned'[n] = RowFields
      /\ \A m \in DOMAIN planned : m # n => planned'[m] = planned[m]
      /\ planned'[n].topic = NoTopic /\ planned'[n].chosen = topic
      /\ planned'[n].level = planned[n].level /\ planned'[n].sound = sound
      /\ planned'[n].pc = IF topic = NoTopic THEN "select" ELSE "set"
  BY <1>1, <1>2 DEF RowFields
<1>4. \E Rows : planned' \in Seq(Rows)
  <2>1. PICK Rows : planned \in Seq(Rows)
    BY DEF PlanInv
  <2>2. planned' \in Seq(Rows \cup {planned'[n]})
    BY <1>3, <1>1, <2>1
  <2>. QED  BY <2>2
<1>5. InTurn(n)'
  <2>. SUFFICES ASSUME sound, NEW m \in DOMAIN planned, m < n, planned[m].pc # "deleted"
                PROVE  /\ planned[m].topic # NoTopic
                       /\ n - m <= HistoryWindow /\ Len(PoolOf(planned[n].level)) > HistoryWindow =>
                            planned[m].topic # topic
    BY <1>3, PlannedIsSequence DEF InTurn, TopicOf
  <2>1. n \in Nat /\ m \in Nat /\ m < n
    BY PlannedIsSequence
  <2>2. WithTopic \subseteq 1..(n - 1)
    BY <1>2, PlannedIsSequence DEF sound, WithTopic
  <2>3. m \in WithTopic
    BY <2>1 DEF sound
  <2>4. planned[m].topic # NoTopic
    BY <2>3 DEF WithTopic
  <2>5. ASSUME n - m <= HistoryWindow, Len(PoolOf(planned[n].level)) > HistoryWindow
        PROVE  planned[m].topic # topic
    <3>1. planned[m].topic \in RecentSessionTopics
      BY <2>2, <2>3, <2>5, NearIsRecent
    <3>2. topic = Choose(planned[n].level, RecentSessionTopics)
      BY DEF topic, sound
    <3>. QED  BY <2>5, <3>1, <3>2, ChosenIsFresh
  <2>. QED  BY <2>4, <2>5
<1>6. \A k \in DOMAIN planned : k # n => InTurn(k)'
  BY <1>1, <1>2, <1>3, OthersStayInTurn
<1>. QED  BY <1>3, <1>4, <1>5, <1>6 DEF PlanInv

\* The steps of a session that choose nothing.
LEMMA OtherStepsStayInTurn ==
    ASSUME PlanInv, NEW n \in DOMAIN planned,
           \/ BeginPlan(n) \/ SetSessionTopic(n) \/ RunSelection(n) \/ PlanFails(n) \/ DeletePlanned(n)
    PROVE  PlanInv'
<1>0. DOMAIN planned[n] = RowFields
  BY DEF PlanInv
<1>1. PICK row : planned' = [planned EXCEPT ![n] = row]
  BY DEF BeginPlan, SetSessionTopic, RunSelection, PlanFails, DeletePlanned
<1>2. /\ DOMAIN row = RowFields /\ row.sound = planned[n].sound /\ row.level = planned[n].level
      /\ planned[n].pc # "deleted" /\ row.pc # "set"
      /\ \/ row.topic = planned[n].topic /\ (row.pc = "choose" => row.topic = NoTopic)
         \/ row.topic = planned[n].chosen /\ planned[n].pc = "set" /\ row.pc # "choose"
  <2>0. planned'[n] = row
    BY <1>1
  <2>1. CASE BeginPlan(n)
    BY <1>0, <2>0, <2>1 DEF BeginPlan, RowFields
  <2>2. CASE SetSessionTopic(n)
    BY <1>0, <2>0, <2>2 DEF SetSessionTopic, RowFields
  <2>3. CASE RunSelection(n)
    BY <1>0, <2>0, <2>3 DEF RunSelection, RowFields
  <2>4. CASE PlanFails(n)
    BY <1>0, <2>0, <2>4 DEF PlanFails, RowFields
  <2>5. CASE DeletePlanned(n)
    BY <1>0, <2>0, <2>5 DEF DeletePlanned, RowFields
  <2>. QED  BY <2>1, <2>2, <2>3, <2>4, <2>5
<1>3. /\ DOMAIN planned' = DOMAIN planned /\ planned'[n] = row
      /\ \A m \in DOMAIN planned : m # n => planned'[m] = planned[m]
  BY <1>1
<1>4. planned[n].pc = "set" => planned[n].topic = NoTopic
  BY DEF PlanInv
<1>5. \E Rows : planned' \in Seq(Rows)
  <2>1. PICK Rows : planned \in Seq(Rows)
    BY DEF PlanInv
  <2>2. planned' \in Seq(Rows \cup {row})
    BY <1>1, <2>1
  <2>. QED  BY <2>2
<1>6. InTurn(n)'
  BY <1>2, <1>3, <1>4, StaysInTurn
<1>7. \A k \in DOMAIN planned : k # n => InTurn(k)'
  BY <1>2, <1>3, <1>4, OthersStayInTurn
<1>. QED  BY <1>2, <1>3, <1>5, <1>6, <1>7 DEF PlanInv

\* A session is created after all the others.
LEMMA NewSessionStaysInTurn ==
    ASSUME PlanInv, GenerateSession
    PROVE  PlanInv'
<1>1. PICK row : planned' = Append(planned, row) /\ DOMAIN row = RowFields
                 /\ row.sound = FALSE /\ row.pc = "waiting"
  <2>1. PICK type \in {"system", "guided"}, derived \in BOOLEAN :
          \E level : planned' = Append(planned,
              [type |-> type, level |-> level,
               topic |-> IF type = "guided" THEN GuidedTopic ELSE NoTopic, pc |-> "waiting",
               chosen |-> NoTopic, constraints |-> NoConstraints,
               derivedAt |-> IF derived THEN changes ELSE -1, plannedAt |-> -1, sound |-> FALSE])
    BY DEF GenerateSession
  <2>. QED  BY <2>1 DEF RowFields
<1>2. PICK Rows : planned \in Seq(Rows)
  BY DEF PlanInv
<1>3. planned' \in Seq(Rows \cup {row})
  BY <1>1, <1>2
<1>4. PICK L \in Nat : L = Len(planned)
  BY <1>2
<1>5. PICK k \in Nat : k = L + 1
  OBVIOUS
<1>6. /\ DOMAIN planned = 1..L /\ DOMAIN planned' = 1..k
      /\ planned'[k] = row /\ \A m \in 1..L : planned'[m] = planned[m]
      /\ \A m \in 1..k : m \in 1..L \/ m = k
  BY <1>1, <1>2, <1>4, <1>5
<1>7. ASSUME NEW n \in 1..L PROVE InTurn(n)'
  <2>1. InTurn(n) /\ planned'[n] = planned[n] /\ \A m \in 1..k : m < n => m \in 1..L
    BY <1>5, <1>6 DEF PlanInv
  <2>. QED  BY <1>6, <2>1 DEF InTurn, TopicOf
<1>8. InTurn(k)'
  <2>1. ~ planned'[k].sound
    BY <1>1, <1>6
  <2>. QED  BY <2>1 DEF InTurn
<1>9. ASSUME NEW n \in 1..k
      PROVE  /\ DOMAIN planned'[n] = RowFields
             /\ planned'[n].pc \in {"choose", "set"} => planned'[n].topic = NoTopic
             /\ InTurn(n)'
  <2>1. CASE n \in 1..L
    BY <1>6, <1>7, <2>1 DEF PlanInv
  <2>2. CASE n = k
    BY <1>1, <1>6, <1>8, <2>2
  <2>. QED  BY <1>6, <2>1, <2>2
<1>. QED  BY <1>3, <1>6, <1>9 DEF PlanInv

\* PlanInv, for any pools, window and sessions.
THEOREM PlanInvariant == PlanSpec => []PlanInv
<1>1. PlanInit => PlanInv
  <2>1. <<>> \in Seq({})
    OBVIOUS
  <2>. QED  BY <2>1 DEF PlanInit, PlanInv
<1>2. PlanInv /\ [PlanNext]_planVars => PlanInv'
  <2>. SUFFICES ASSUME PlanInv, [PlanNext]_planVars PROVE PlanInv'
    OBVIOUS
  <2>1. CASE UNCHANGED planned
    BY <2>1 DEF PlanInv, InTurn, TopicOf
  <2>. QED  BY <2>1, ChoiceIsInTurn, OtherStepsStayInTurn, NewSessionStaysInTurn
            DEF PlanNext, planVars, SkillChanges
<1>. QED  BY <1>1, <1>2, PTL DEF PlanSpec

\* SettingsDiffer.
THEOREM SettingsAreVaried == PlanSpec => []SettingsDiffer
<1>1. PlanInv => SettingsDiffer
  BY PlannedIsSequence DEF PlanInv, SettingsDiffer, Settled, WithTopic, InTurn, TopicOf
<1>. QED  BY <1>1, PlanInvariant, PTL
-----------------------------------------------------------------------------
\* A rule that is satisfied has, for every requirement of a tier, a skill of that worth.
LEMMA SatisfiedNeedHasSkill ==
    ASSUME NEW j \in DOMAIN LevelRules, NEW need \in LevelRules[j].needs, need.tier >= 1, Meets(need)
    PROVE  \E k \in SkillsIn(need.category) : LevelTier(rows[k]) >= need.tier
<1>. DEFINE group == SkillsIn(need.category)
            able == {k \in group : LevelTier(rows[k]) >= need.tier}
<1>1. need.tier \in Nat /\ need.count \in Nat /\ need.percent \in Nat
  BY LevelAssumption
<1>2. Cardinality(group) \in Nat
  <2>1. CASE need.category \in Categories
    <3>. DEFINE skills == SkillGroups[need.category]
    <3>1. /\ group = {skills[i] : i \in DOMAIN skills}
          /\ skills \in Seq({skills[i] : i \in DOMAIN skills})
      BY <2>1, SkillAssumption DEF SkillsIn, Categories
    <3>. HIDE DEF skills, group
    <3>2. skills \in Seq(group)
      BY <3>1
    <3>3. PICK L \in Nat : L = Len(skills) /\ DOMAIN skills = 1..L
      BY <3>2
    <3>4. skills \in Surjection(1..L, group)
      BY <3>1, <3>2, <3>3 DEF Surjection, Range
    <3>5. IsFiniteSet(1..L)
      BY FS_Interval
    <3>. QED  BY <3>4, <3>5, FS_Surjection, FS_CardinalityType
  <2>2. CASE need.category \notin Categories
    BY <2>2, FS_EmptySet DEF SkillsIn
  <2>. QED  BY <2>1, <2>2
<1>3. RequiredCount(need, Cardinality(group)) \in Nat \ {0}
  <2>1. PICK total \in Nat : total = Cardinality(group)
    BY <1>2
  <2>2. PICK share \in Nat : share = (need.percent * total + 99) \div 100
    BY <1>1
  <2>3. \E m \in {need.count, share, 1} : \A n \in {need.count, share, 1} : n <= m
    BY <1>1
  <2>4. Largest({need.count, share, 1}) \in Nat \ {0}
    BY <1>1, <2>3 DEF Largest
  <2>. QED  BY <2>1, <2>2, <2>4 DEF RequiredCount
<1>4. Cardinality(able) >= RequiredCount(need, Cardinality(group))
  BY DEF Meets
<1>5. able # {}
  <2>. SUFFICES ASSUME able = {} PROVE FALSE
    OBVIOUS
  <2>1. Cardinality(able) = 0
    BY FS_EmptySet
  <2>2. PICK required : required = RequiredCount(need, Cardinality(group))
    OBVIOUS
  <2>. HIDE DEF able, group
  <2>. QED  BY <1>3, <1>4, <2>1, <2>2
<1>. QED  BY <1>5

\* The function of DeriveLevel is defined: it is what going through the rules one by one gives.
LevelSteps(f) ==
    f = [j \in 0..Len(LevelRules) |->
            IF j = 0 THEN [level |-> StartLevel, open |-> TRUE] ELSE ApplyRule(f[j - 1], LevelRules[j])]

\* The rules are numbered.
LEMMA RulesAreSequence == Len(LevelRules) \in Nat /\ DOMAIN LevelRules = 1..Len(LevelRules)
  BY LevelAssumption

\* There is such a function, for any rules.
LEMMA LevelStepsExist == \E f : LevelSteps(f)
<1>. DEFINE N == Len(LevelRules)
            start == [level |-> StartLevel, open |-> TRUE]
            Upto(n, f) == /\ f[0] = start
                          /\ \A j \in 1..n : f[j] = ApplyRule(f[j - 1], LevelRules[j])
            failing == {n \in 0..N : ~ \E f : Upto(n, f)}
<1>1. N \in Nat
  BY RulesAreSequence
<1>2. failing = {}
  <2>. SUFFICES ASSUME failing # {} PROVE FALSE
    OBVIOUS
  <2>1. failing \in SUBSET Nat
    BY <1>1
  <2>2. PICK n \in failing : \A m \in failing : n <= m
    <3>. HIDE DEF failing
    <3>. QED  BY <2>1, LeastNumber
  <2>3. n \in 0..N /\ ~ \E f : Upto(n, f)
    OBVIOUS
  <2>4. CASE n = 0
    <3>1. Upto(0, [j \in {0} |-> start])
      OBVIOUS
    <3>. QED  BY <2>3, <2>4, <3>1
  <2>5. CASE n # 0
    <3>1. n - 1 \in 0..N /\ n - 1 \notin failing
      <4>1. n - 1 \in 0..N /\ ~ (n <= n - 1)
        BY <1>1, <2>3, <2>5
      <4>. HIDE DEF failing
      <4>. QED  BY <2>2, <4>1
    <3>2. PICK f : Upto(n - 1, f)
      BY <3>1
    <3>. DEFINE g == [j \in 0..n |-> IF j = n THEN ApplyRule(f[n - 1], LevelRules[n]) ELSE f[j]]
    <3>3. g[0] = start /\ \A j \in 1..n : g[j] = ApplyRule(g[j - 1], LevelRules[j])
      <4>1. g[0] = f[0]
        BY <1>1, <2>3, <2>5
      <4>2. ASSUME NEW j \in 1..n PROVE g[j] = ApplyRule(g[j - 1], LevelRules[j])
        <5>1. g[j - 1] = f[j - 1]
          BY <1>1, <2>3, <4>2
        <5>2. CASE j = n
          BY <1>1, <2>3, <5>1, <5>2
        <5>3. CASE j # n
          <6>1. g[j] = f[j] /\ j \in 1..(n - 1)
            BY <1>1, <2>3, <5>3
          <6>. QED  BY <3>2, <5>1, <6>1
        <5>. QED  BY <5>2, <5>3
      <4>. QED  BY <3>2, <4>1, <4>2
    <3>4. Upto(n, g)
      BY <3>3
    <3>. QED  BY <2>3, <3>4
  <2>. QED  BY <2>4, <2>5
<1>3. PICK f : Upto(N, f)
  <2>1. N \in 0..N
    BY <1>1
  <2>. QED  BY <1>2, <2>1
<1>. DEFINE g == [j \in 0..N |-> f[j]]
<1>4. \A j \in 0..N : g[j] = IF j = 0 THEN start ELSE ApplyRule(g[j - 1], LevelRules[j])
  <2>. SUFFICES ASSUME NEW j \in 0..N
                PROVE  g[j] = IF j = 0 THEN start ELSE ApplyRule(g[j - 1], LevelRules[j])
    OBVIOUS
  <2>1. CASE j = 0
    BY <1>3, <2>1
  <2>2. CASE j # 0
    <3>1. j \in 1..N /\ j - 1 \in 0..N
      BY <1>1, <2>2
    <3>. QED  BY <1>3, <2>2, <3>1
  <2>. QED  BY <2>1, <2>2
<1>5. LevelSteps(g)
  <2>1. g = [j \in 0..N |-> g[j]]
    OBVIOUS
  <2>. HIDE DEF g
  <2>2. g = [j \in 0..N |-> IF j = 0 THEN start ELSE ApplyRule(g[j - 1], LevelRules[j])]
    BY <1>4, <2>1
  <2>. QED  BY <2>2 DEF LevelSteps
<1>. QED  BY <1>5

\* DeriveLevel is its last value.
LEMMA DeriveLevelSteps == \E f : LevelSteps(f) /\ DeriveLevel = f[Len(LevelRules)].level
<1>. DEFINE f == CHOOSE g : LevelSteps(g)
<1>1. LevelSteps(f)
  BY LevelStepsExist
<1>2. DeriveLevel = f[Len(LevelRules)].level
  BY DEF DeriveLevel, LevelSteps
<1>. QED  BY <1>1, <1>2

\* The rules of a way are satisfied.
Satisfied(way) == \A j \in way : \A need \in LevelRules[j].needs : Meets(need)

\* A rule that is applied lengthens the way, and any other leaves it.
LEMMA ApplyRuleKeepsWay ==
    ASSUME NEW j \in DOMAIN LevelRules, NEW before, DOMAIN before = {"level", "open"},
           NEW way \in SUBSET (1..(j - 1)), LeadsTo(way, before.level), Satisfied(way)
    PROVE  LET after == ApplyRule(before, LevelRules[j])
           IN  /\ DOMAIN after = {"level", "open"}
               /\ \E longer \in SUBSET (1..j) : LeadsTo(longer, after.level) /\ Satisfied(longer)
<1>. DEFINE rule == LevelRules[j]
            after == ApplyRule(before, rule)
<1>1. j \in Nat /\ j \in 1..j /\ way \in SUBSET (1..j)
  BY RulesAreSequence
<1>2. CASE after.level = before.level /\ DOMAIN after = {"level", "open"}
  BY <1>1, <1>2
<1>3. CASE rule.from = before.level /\ (\A need \in rule.needs : Meets(need))
           /\ after = [before EXCEPT !.level = rule.to]
  <2>. DEFINE longer == way \cup {j}
  <2>1. DOMAIN after = {"level", "open"} /\ after.level = rule.to
    BY <1>3
  <2>. HIDE DEF after
  <2>2. longer \in SUBSET (1..j) /\ Satisfied(longer)
    BY <1>1, <1>3 DEF Satisfied
  <2>3. ASSUME NEW i \in longer
        PROVE  \/ LevelRules[i].from = StartLevel
               \/ \E h \in longer : h < i /\ LevelRules[h].to = LevelRules[i].from
    <3>1. CASE i \in way
      BY <3>1 DEF LeadsTo
    <3>2. CASE i = j
      <4>1. rule.from = StartLevel \/ \E h \in way : LevelRules[h].to = rule.from
        BY <1>3 DEF LeadsTo
      <4>2. \A h \in way : h < j
        BY <1>1
      <4>. QED  BY <3>2, <4>1, <4>2
    <3>. QED  BY <3>1, <3>2
  <2>4. LeadsTo(longer, after.level)
    BY <2>1, <2>3 DEF LeadsTo
  <2>. QED  BY <2>1, <2>2, <2>4 DEF after
<1>. QED  BY <1>2, <1>3 DEF ApplyRule

\* The level that is derived has a way of satisfied rules.
LEMMA DerivedLevelHasWay ==
    \E way \in SUBSET DOMAIN LevelRules : LeadsTo(way, DeriveLevel) /\ Satisfied(way)
<1>. DEFINE N == Len(LevelRules)
<1>1. N \in Nat /\ DOMAIN LevelRules = 1..N
  BY RulesAreSequence
<1>2. PICK f : LevelSteps(f) /\ DeriveLevel = f[N].level
  BY DeriveLevelSteps
<1>. DEFINE Reached(n) == /\ DOMAIN f[n] = {"level", "open"}
                          /\ \E way \in SUBSET (1..n) : LeadsTo(way, f[n].level) /\ Satisfied(way)
            failing == {n \in 0..N : ~Reached(n)}
<1>3. failing = {}
  <2>. SUFFICES ASSUME failing # {} PROVE FALSE
    OBVIOUS
  <2>1. failing \in SUBSET Nat
    BY <1>1
  <2>2. PICK n \in failing : \A m \in failing : n <= m
    <3>. HIDE DEF failing
    <3>. QED  BY <2>1, LeastNumber
  <2>3. n \in 0..N /\ ~Reached(n)
    OBVIOUS
  <2>4. f[n] = IF n = 0 THEN [level |-> StartLevel, open |-> TRUE]
               ELSE ApplyRule(f[n - 1], LevelRules[n])
    BY <1>1, <1>2, <2>3 DEF LevelSteps
  <2>5. CASE n = 0
    <3>1. {} \in SUBSET (1..n) /\ LeadsTo({}, StartLevel) /\ Satisfied({})
      BY DEF LeadsTo, Satisfied
    <3>2. f[n].level = StartLevel /\ DOMAIN f[n] = {"level", "open"}
      BY <2>4, <2>5
    <3>. QED  BY <2>3, <3>1, <3>2
  <2>6. CASE n # 0
    <3>1. n - 1 \in 0..N /\ ~(n <= n - 1) /\ n \in DOMAIN LevelRules
      BY <1>1, <2>3, <2>6
    <3>2. n - 1 \notin failing
      <4>. HIDE DEF failing
      <4>. QED  BY <2>2, <3>1
    <3>3. Reached(n - 1)
      BY <3>1, <3>2
    <3>4. PICK way \in SUBSET (1..(n - 1)) : LeadsTo(way, f[n - 1].level) /\ Satisfied(way)
      BY <3>3
    <3>5. DOMAIN f[n - 1] = {"level", "open"}
      BY <3>3
    <3>6. f[n] = ApplyRule(f[n - 1], LevelRules[n])
      BY <2>4, <2>6
    <3>. HIDE DEF failing
    <3>7. Reached(n)
      BY <3>1, <3>4, <3>5, <3>6, ApplyRuleKeepsWay
    <3>. QED  BY <2>3, <3>7
  <2>. QED  BY <2>5, <2>6
<1>4. Reached(N)
  <2>1. N \in 0..N
    BY <1>1
  <2>. QED  BY <1>3, <2>1
<1>. QED  BY <1>1, <1>2, <1>4

\* Rows as they are: a skill that has a tier has a row.
RowsOK ==
    \A k \in PlanSkills :
        /\ DOMAIN rows[k] = {"tier", "pending", "exists"} /\ rows[k].tier \in Nat
        /\ rows[k].exists \in BOOLEAN
        /\ rows[k].tier >= 1 => rows[k].exists

AllowsLevel(constraints, level) ==
    \E way \in SUBSET DOMAIN LevelRules :
        /\ LeadsTo(way, level)
        /\ \A j \in way : \A need \in LevelRules[j].needs :
              need.tier >= 1 => SkillsIn(need.category) \cap constraints.allowed # {}

\* A level that the rows reach: there is a way of satisfied rules.
Reaches(level) == \E way \in SUBSET DOMAIN LevelRules : LeadsTo(way, level) /\ Satisfied(way)

\* What is built from the same rows allows what the level stands for.
LEMMA ConstraintsAllowLevel ==
    ASSUME RowsOK, NEW level, Reaches(level)
    PROVE  AllowsLevel(BuildSkillConstraints, level)
<1>1. PICK way \in SUBSET DOMAIN LevelRules : LeadsTo(way, level) /\ Satisfied(way)
  BY DEF Reaches
<1>2. ASSUME NEW j \in way, NEW need \in LevelRules[j].needs, need.tier >= 1
      PROVE  SkillsIn(need.category) \cap BuildSkillConstraints.allowed # {}
  <2>1. PICK k \in SkillsIn(need.category) : LevelTier(rows[k]) >= need.tier
    BY <1>1, <1>2, SatisfiedNeedHasSkill DEF Satisfied
  <2>2. k \in PlanSkills
    BY <2>1 DEF PlanSkills, SkillsIn
  <2>3. need.tier \in Nat /\ rows[k].tier \in Nat
    BY <1>2, <2>2, LevelAssumption DEF RowsOK
  <2>4. ConstraintTier(rows[k]) >= 1 /\ rows[k].tier >= 1
    BY <1>2, <2>1, <2>3 DEF LevelTier, ConstraintTier
  <2>5. rows[k].exists
    BY <2>2, <2>4 DEF RowsOK
  <2>6. BuildSkillConstraints.allowed = {h \in PlanSkills : ConstraintTier(rows[h]) >= 1}
    BY <2>2, <2>5 DEF BuildSkillConstraints
  <2>. QED  BY <2>1, <2>2, <2>4, <2>6
<1>. QED  BY <1>1, <1>2 DEF AllowsLevel

\* A level that was derived from the rows as they are is still reached, and a session that
\* was planned from the rows its level was derived from may use what the level stands for.
LevelInv ==
    /\ RowsOK /\ DOMAIN rows = PlanSkills /\ changes \in Nat
    /\ \A n \in DOMAIN planned :
          /\ planned[n].derivedAt \in Int /\ planned[n].derivedAt <= changes
          /\ planned[n].derivedAt = changes => Reaches(planned[n].level)
          /\ planned[n].pc = "planned" /\ planned[n].derivedAt = planned[n].plannedAt =>
                AllowsLevel(planned[n].constraints, planned[n].level)

\* No rows and no sessions.
LEMMA InitialLevels == PlanInit => LevelInv
<1>. SUFFICES ASSUME PlanInit PROVE LevelInv
  OBVIOUS
<1>1. RowsOK /\ DOMAIN rows = PlanSkills
  <2>1. /\ DOMAIN NoRow = {"tier", "pending", "exists"} /\ NoRow.tier \in Nat
        /\ NoRow.exists \in BOOLEAN /\ ~ (NoRow.tier >= 1)
    BY DEF NoRow
  <2>2. DOMAIN rows = PlanSkills /\ \A k \in PlanSkills : rows[k] = NoRow
    BY DEF PlanInit
  <2>3. ASSUME NEW k \in PlanSkills
        PROVE  /\ DOMAIN rows[k] = {"tier", "pending", "exists"} /\ rows[k].tier \in Nat
               /\ rows[k].exists \in BOOLEAN
               /\ rows[k].tier >= 1 => rows[k].exists
    BY <2>1, <2>2
  <2>. QED  BY <2>2, <2>3 DEF RowsOK
<1>2. DOMAIN planned = {}
  BY DEF PlanInit
<1>. QED  BY <1>1, <1>2 DEF PlanInit, LevelInv

\* A row changes, and no level is derived from the rows any more.
LEMMA SkillChangeKeepsLevels ==
    ASSUME LevelInv, NEW k \in PlanSkills, SkillChanges(k)
    PROVE  LevelInv'
<1>1. /\ changes' = changes + 1 /\ planned' = planned
      /\ \E row \in {[tier |-> rows[k].tier + 1, pending |-> TRUE, exists |-> TRUE],
                     [rows[k] EXCEPT !.pending = FALSE], [rows[k] EXCEPT !.exists = TRUE],
                     [tier |-> IF rows[k].tier = 0 THEN 0 ELSE rows[k].tier - 1,
                      pending |-> FALSE, exists |-> TRUE]} :
            rows' = [rows EXCEPT ![k] = row]
  BY DEF SkillChanges
<1>2. PICK row : /\ rows' = [rows EXCEPT ![k] = row]
                 /\ DOMAIN row = {"tier", "pending", "exists"} /\ row.tier \in Nat
                 /\ row.exists \in BOOLEAN /\ (row.tier >= 1 => row.exists)
  <2>1. /\ DOMAIN rows[k] = {"tier", "pending", "exists"} /\ rows[k].tier \in Nat
        /\ rows[k].exists \in BOOLEAN /\ (rows[k].tier >= 1 => rows[k].exists)
    BY DEF LevelInv, RowsOK
  <2>2. PICK row \in {[tier |-> rows[k].tier + 1, pending |-> TRUE, exists |-> TRUE],
                      [rows[k] EXCEPT !.pending = FALSE], [rows[k] EXCEPT !.exists = TRUE],
                      [tier |-> IF rows[k].tier = 0 THEN 0 ELSE rows[k].tier - 1,
                       pending |-> FALSE, exists |-> TRUE]} : rows' = [rows EXCEPT ![k] = row]
    BY <1>1
  <2>3. /\ DOMAIN row = {"tier", "pending", "exists"} /\ row.tier \in Nat
        /\ row.exists \in BOOLEAN /\ (row.tier >= 1 => row.exists)
    <3>1. CASE row = [tier |-> rows[k].tier + 1, pending |-> TRUE, exists |-> TRUE]
      BY <2>1, <3>1
    <3>2. CASE row = [rows[k] EXCEPT !.pending = FALSE]
      BY <2>1, <3>2
    <3>3. CASE row = [rows[k] EXCEPT !.exists = TRUE]
      BY <2>1, <3>3
    <3>4. CASE row = [tier |-> IF rows[k].tier = 0 THEN 0 ELSE rows[k].tier - 1,
                      pending |-> FALSE, exists |-> TRUE]
      <4>1. PICK tier \in Nat : tier = IF rows[k].tier = 0 THEN 0 ELSE rows[k].tier - 1
        BY <2>1
      <4>. QED  BY <3>4, <4>1
    <3>. QED  BY <2>2, <3>1, <3>2, <3>3, <3>4
  <2>. QED  BY <2>2, <2>3
<1>3. RowsOK' /\ DOMAIN rows' = PlanSkills
  BY <1>2 DEF LevelInv, RowsOK
<1>. QED  BY <1>1, <1>3 DEF LevelInv

\* A step of session n that plans it, or does not.
LEMMA SessionStepKeepsLevels ==
    ASSUME LevelInv, PlanInv, NEW n \in DOMAIN planned,
           \/ BeginPlan(n) \/ SetSessionTopic(n) \/ RunSelection(n) \/ PlanFails(n) \/ DeletePlanned(n)
           \/ \E read \in BOOLEAN : ChooseTopic(n, read)
    PROVE  LevelInv'
<1>1. DOMAIN planned[n] = RowFields
  BY DEF PlanInv
<1>2. rows' = rows /\ changes' = changes
  BY DEF BeginPlan, SetSessionTopic, RunSelection, PlanFails, DeletePlanned, ChooseTopic
<1>3. PICK row : planned' = [planned EXCEPT ![n] = row]
  <2>1. CASE \E read \in BOOLEAN : ChooseTopic(n, read)
    <3>1. PICK read \in BOOLEAN : ChooseTopic(n, read)
      BY <2>1
    <3>. DEFINE topic == Choose(planned[n].level, IF read THEN RecentSessionTopics ELSE {})
                sound == read /\ \A m \in DOMAIN planned : m # n /\ planned[m].pc # "deleted"
                                            => (m \in WithTopic <=> m < n)
    <3>2. planned' = [planned EXCEPT ![n] = [planned[n] EXCEPT
                        !.pc = IF topic = NoTopic THEN "select" ELSE "set",
                        !.chosen = topic, !.sound = sound]]
      BY <3>1 DEF ChooseTopic
    <3>. HIDE DEF topic, sound
    <3>. QED  BY <3>2
  <2>2. CASE ~ \E read \in BOOLEAN : ChooseTopic(n, read)
    BY <2>2 DEF BeginPlan, SetSessionTopic, RunSelection, PlanFails, DeletePlanned
  <2>. QED  BY <2>1, <2>2
<1>4. /\ DOMAIN planned' = DOMAIN planned /\ planned'[n] = row
      /\ \A m \in DOMAIN planned : m # n => planned'[m] = planned[m]
  BY <1>3
<1>5. /\ row.derivedAt = planned[n].derivedAt /\ row.level = planned[n].level
      /\ row.pc = "planned" => row.plannedAt = changes /\ row.constraints = BuildSkillConstraints
  <2>1. CASE BeginPlan(n)
    BY <1>1, <1>4, <2>1 DEF BeginPlan, RowFields
  <2>2. CASE SetSessionTopic(n)
    BY <1>1, <1>4, <2>2 DEF SetSessionTopic, RowFields
  <2>3. CASE RunSelection(n)
    BY <1>1, <1>4, <2>3 DEF RunSelection, RowFields
  <2>4. CASE PlanFails(n)
    BY <1>1, <1>4, <2>4 DEF PlanFails, RowFields
  <2>5. CASE DeletePlanned(n)
    BY <1>1, <1>4, <2>5 DEF DeletePlanned, RowFields
  <2>6. ASSUME NEW read \in BOOLEAN, ChooseTopic(n, read)
        PROVE  /\ row.derivedAt = planned[n].derivedAt /\ row.level = planned[n].level
               /\ row.pc # "planned"
    BY <1>1, <1>4, <2>6 DEF ChooseTopic, RowFields
  <2>. QED  BY <2>1, <2>2, <2>3, <2>4, <2>5, <2>6
<1>6. RowsOK' /\ \A level : Reaches(level)' = Reaches(level)
  BY <1>2 DEF LevelInv, RowsOK, Reaches, Satisfied, Meets
<1>7. row.pc = "planned" /\ row.derivedAt = row.plannedAt => AllowsLevel(row.constraints, row.level)
  BY <1>5, ConstraintsAllowLevel DEF LevelInv
<1>. QED  BY <1>2, <1>4, <1>5, <1>6, <1>7 DEF LevelInv

\* A session is created, with a level that is derived or not.
LEMMA NewSessionKeepsLevels ==
    ASSUME LevelInv, PlanInv, GenerateSession
    PROVE  LevelInv'
<1>1. Reaches(DeriveLevel)
  BY DerivedLevelHasWay DEF Reaches
<1>2. PICK row : /\ planned' = Append(planned, row) /\ row.pc = "waiting"
                 /\ \/ row.derivedAt = changes /\ row.level = DeriveLevel
                    \/ row.derivedAt = -1
  <2>1. PICK type \in {"system", "guided"}, derived \in BOOLEAN :
          \E level \in IF derived THEN {DeriveLevel} ELSE PlanLevels : planned' = Append(planned,
              [type |-> type, level |-> level,
               topic |-> IF type = "guided" THEN GuidedTopic ELSE NoTopic, pc |-> "waiting",
               chosen |-> NoTopic, constraints |-> NoConstraints,
               derivedAt |-> IF derived THEN changes ELSE -1, plannedAt |-> -1, sound |-> FALSE])
    BY DEF GenerateSession
  <2>. QED  BY <2>1
<1>3. rows' = rows /\ changes' = changes /\ changes \in Nat
  BY DEF GenerateSession, LevelInv
<1>4. RowsOK' /\ \A level : Reaches(level)' = Reaches(level)
  BY <1>3 DEF LevelInv, RowsOK, Reaches, Satisfied, Meets
<1>5. ASSUME NEW n \in DOMAIN planned'
      PROVE  (n \in DOMAIN planned /\ planned'[n] = planned[n]) \/ planned'[n] = row
  <2>1. PICK Rows : planned \in Seq(Rows)
    BY DEF PlanInv
  <2>2. PICK L \in Nat : L = Len(planned)
    BY <2>1
  <2>. QED  BY <1>2, <1>5, <2>1, <2>2
<1>6. ASSUME NEW n \in DOMAIN planned'
      PROVE  /\ planned'[n].derivedAt \in Int /\ planned'[n].derivedAt <= changes
             /\ planned'[n].derivedAt = changes => Reaches(planned'[n].level)
             /\ planned'[n].pc = "planned" /\ planned'[n].derivedAt = planned'[n].plannedAt =>
                   AllowsLevel(planned'[n].constraints, planned'[n].level)
  <2>1. CASE n \in DOMAIN planned /\ planned'[n] = planned[n]
    BY <2>1 DEF LevelInv
  <2>2. CASE planned'[n] = row
    BY <1>1, <1>2, <1>3, <2>2
  <2>. QED  BY <1>5, <2>1, <2>2
<1>. QED  BY <1>3, <1>4, <1>6 DEF LevelInv

\* LevelInv, for any skills, rules, pools and sessions.
THEOREM LevelInvariant == PlanSpec => []LevelInv
<1>1. PlanInv /\ LevelInv /\ [PlanNext]_planVars => LevelInv'
  <2>. SUFFICES ASSUME PlanInv, LevelInv, [PlanNext]_planVars PROVE LevelInv'
    OBVIOUS
  <2>1. CASE UNCHANGED planVars
    BY <2>1 DEF planVars, LevelInv, RowsOK, Reaches, Satisfied, Meets
  <2>2. CASE PlanNext
    BY <2>2, SkillChangeKeepsLevels, SessionStepKeepsLevels, NewSessionKeepsLevels DEF PlanNext
  <2>. QED  BY <2>1, <2>2
<1>. QED  BY <1>1, InitialLevels, PlanInvariant, PTL DEF PlanSpec

\* LevelMatchesConstraints.
THEOREM LevelsMatchConstraints == PlanSpec => []LevelMatchesConstraints
<1>1. LevelInv => LevelMatchesConstraints
  BY DEF LevelInv, LevelMatchesConstraints, AllowsLevel
<1>. QED  BY <1>1, LevelInvariant, PTL

-----------------------------------------------------------------------------
(***************************************************************************)
(* TaskContent: every stored task can be solved.  What is stored is what a *)
(* model can write, with the targets injected, that passes the checks of   *)
(* its type (Acceptable).                                                  *)
(***************************************************************************)

TaskTypes == {"comprehension_mc", "fill_blank", "production"}

\* What can pass the checks of this stage: what a model writes, with the targets injected.
Acceptable ==
    {c \in {InjectTargets(taskSet.type, answer, taskSet.targets) :
               answer \in ModelContent(taskSet.type)} :
        ValidateGeneratedContent(taskSet.type, c)}

ContentInv ==
    /\ taskSet \in [type : TaskTypes, count : Nat, targets : {<<>>} \cup {<<i>> : i \in OwnItems}]
    /\ DOMAIN draft = DOMAIN NoDraft
    /\ draft.contents \in Seq(Acceptable)
    /\ written \in Seq([content : Acceptable, run : Nat])
    /\ draft.runs \in Nat

\* A stage that has not begun.
LEMMA InitialContent == ContentInit => ContentInv
<1>. SUFFICES ASSUME ContentInit PROVE ContentInv
  OBVIOUS
<1>1. ASSUME NEW level, NEW spec \in ComposeTaskSet(level)
      PROVE  spec.type \in TaskTypes /\ spec.count \in Nat
  BY <1>1 DEF ComposeTaskSet, LevelMix, TypeSpec, TaskTypes, Range
<1>2. taskSet \in [type : TaskTypes, count : Nat, targets : {<<>>} \cup {<<i>> : i \in OwnItems}]
  BY <1>1 DEF ContentInit
<1>3. draft = NoDraft /\ written = <<>>
  BY DEF ContentInit
<1>4. /\ <<>> \in Seq(Acceptable)
      /\ <<>> \in Seq([content : Acceptable, run : Nat])
  OBVIOUS
<1>. QED  BY <1>2, <1>3, <1>4 DEF ContentInv, NoDraft

\* Only what passed the checks is taken, and only what was taken is stored.
LEMMA ContentStep == ContentInv /\ [ContentNext]_contentVars => ContentInv'
<1>. SUFFICES ASSUME ContentInv, [ContentNext]_contentVars PROVE ContentInv'
  OBVIOUS
<1>1. taskSet' = taskSet
  BY DEF ContentNext, contentVars, BeginContent, CallRefused, ReplyMalformed, ReplyParsed,
         CreateTask, TargetUnknown, CreateFails, CompleteContent, StageDies
<1>2. Acceptable' = Acceptable
  BY <1>1 DEF Acceptable
<1>3. SUFFICES /\ DOMAIN draft' = DOMAIN NoDraft
               /\ draft'.contents \in Seq(Acceptable)
               /\ written' \in Seq([content : Acceptable, run : Nat])
               /\ draft'.runs \in Nat
  BY <1>1, <1>2 DEF ContentInv
<1>. HIDE DEF Acceptable
<1>4. CASE UNCHANGED contentVars
  BY <1>4 DEF contentVars, ContentInv
<1>5. CASE BeginContent
  <2>1. <<>> \in Seq(Acceptable)
    OBVIOUS
  <2>2. PICK last : draft' = [NoDraft EXCEPT !.pc = "ask", !.runs = draft.runs + 1,
                                  !.prior = {written[i].content.text : i \in last}]
    BY <1>5 DEF BeginContent
  <2>3. written' = written
    BY <1>5 DEF BeginContent
  <2>. QED  BY <2>1, <2>2, <2>3 DEF ContentInv, NoDraft
<1>6. CASE CallRefused \/ ReplyMalformed \/ TargetUnknown \/ CreateFails \/ CompleteContent \/ StageDies
  BY <1>6 DEF CallRefused, ReplyMalformed, TargetUnknown, CreateFails, CompleteContent, StageDies,
              Fails, ContentInv, NoDraft
<1>7. CASE ReplyParsed
  <2>1. PICK answer \in ModelContent(taskSet.type) :
          LET content == InjectTargets(taskSet.type, answer, taskSet.targets)
              valid   == ValidateGeneratedContent(taskSet.type, content)
              asked   == content.text \in draft.prior
          IN  \/ ~valid /\ AskForValid
              \/ valid /\ asked /\ ~draft.again /\ AskForNew
              \/ valid /\ (~asked \/ draft.again) /\ TakeContent(content)
    BY <1>7 DEF ReplyParsed
  <2>. DEFINE content == InjectTargets(taskSet.type, answer, taskSet.targets)
  <2>2. written' = written
    BY <1>7 DEF ReplyParsed
  <2>3. ASSUME ValidateGeneratedContent(taskSet.type, content) PROVE content \in Acceptable
    BY <2>3 DEF Acceptable
  <2>4. \/ AskForValid \/ AskForNew
        \/ ValidateGeneratedContent(taskSet.type, content) /\ TakeContent(content)
    BY <2>1
  <2>. HIDE DEF content
  <2>5. CASE AskForValid \/ AskForNew
    BY <2>2, <2>5 DEF AskForValid, AskForNew, ContentInv, NoDraft
  <2>6. CASE content \in Acceptable /\ TakeContent(content)
    <3>1. Append(draft.contents, content) \in Seq(Acceptable)
      BY <2>6 DEF ContentInv
    <3>. QED  BY <2>2, <2>6, <3>1 DEF TakeContent, ContentInv, NoDraft
  <2>. QED  BY <2>3, <2>4, <2>5, <2>6
<1>8. CASE CreateTask
  <2>1. /\ draft.contents # <<>> /\ written' = Append(written, Row(NextRow))
        /\ draft' = [draft EXCEPT !.contents = Tail(draft.contents)]
    BY <1>8 DEF CreateTask
  <2>2. NextRow \in Acceptable /\ Tail(draft.contents) \in Seq(Acceptable)
    BY <2>1 DEF ContentInv, NextRow
  <2>3. Row(NextRow) \in [content : Acceptable, run : Nat]
    BY <2>2 DEF Row, ContentInv
  <2>. QED  BY <2>1, <2>2, <2>3 DEF ContentInv, NoDraft
<1>. QED  BY <1>4, <1>5, <1>6, <1>7, <1>8 DEF ContentNext

\* What passes the checks can be answered so that it is graded correct and credits a target.
LEMMA AcceptableIsSolvable ==
    ASSUME ContentInv, NEW c \in Acceptable
    PROVE  \E response \in ResponsesTo(taskSet.type, c) : \E g \in Grades(taskSet.type, c, response) :
              g[1] /\ (taskSet.targets # <<>> => g[2] \cap Range(taskSet.targets) # {})
<1>. DEFINE type == taskSet.type
            targets == taskSet.targets
<1>1. PICK answer \in ModelContent(type) : c = InjectTargets(type, answer, targets)
  BY DEF Acceptable
<1>2. ValidateGeneratedContent(type, c)
  BY DEF Acceptable
<1>3. targets # <<>> => targets[1] \in Range(targets)
  BY DEF ContentInv, Range
<1>4. type \in TaskTypes
  BY DEF ContentInv
<1>. HIDE DEF type, targets
<1>5. CASE type = "comprehension_mc"
  <2>1. answer \in ComprehensionContent /\ c = [answer EXCEPT !.ids = Range(targets)]
    BY <1>1, <1>5 DEF ModelContent, InjectTargets
  <2>2. c.ids = Range(targets) /\ c.index \in 0..4
        /\ Len(c.options) \in {1, 2} /\ DOMAIN c.options = 1..Len(c.options)
    <3>1. answer.options \in {<<"one">>, <<"one", "one">>, <<"one", "">>, <<"one", "two">>}
      BY <2>1 DEF ComprehensionContent
    <3>2. \A x, y : /\ Len(<<x>>) = 1 /\ DOMAIN <<x>> = 1..1
                     /\ Len(<<x, y>>) = 2 /\ DOMAIN <<x, y>> = 1..2
      OBVIOUS
    <3>3. Len(answer.options) \in {1, 2} /\ DOMAIN answer.options = 1..Len(answer.options)
      BY <3>1, <3>2
    <3>. QED  BY <2>1, <3>3 DEF ComprehensionContent
  <2>3. c.index % 2 = 0 /\ c.index \div 2 < Len(c.options)
    BY <1>2, <1>5 DEF ValidateGeneratedContent, ValidComprehensionMC
  <2>4. c.index \div 2 \in ResponsesTo(type, c)
    <3>. DEFINE half == c.index \div 2
    <3>0. half \in Nat
      <4>1. \A i \in 0..4 : i \div 2 \in Nat
        OBVIOUS
      <4>. QED  BY <2>2, <4>1
    <3>1. half + 1 \in DOMAIN c.options /\ half = (half + 1) - 1
      <4>1. half < Len(c.options)
        BY <2>3
      <4>. HIDE DEF half
      <4>. QED  BY <2>2, <3>0, <4>1
    <3>. QED  BY <1>5, <3>1 DEF ResponsesTo
  <2>5. Grades(type, c, c.index \div 2) = {<<TRUE, Range(targets)>>}
    BY <1>5, <2>2 DEF Grades, GradeComprehensionMC, RuleGrade
  <2>. DEFINE g == <<TRUE, Range(targets)>>
  <2>6. g \in Grades(type, c, c.index \div 2) /\ g[1]
        /\ (targets # <<>> => g[2] \cap Range(targets) # {})
    BY <1>3, <2>5
  <2>. QED  BY <2>4, <2>6 DEF type, targets
<1>6. CASE type = "fill_blank"
  <2>1. /\ answer \in FillBlankContent
        /\ c = [answer EXCEPT !.item = IF targets = <<>> THEN Nobody ELSE targets[1]]
    BY <1>1, <1>6 DEF ModelContent, InjectTargets
  <2>2. /\ c.item = IF targets = <<>> THEN Nobody ELSE targets[1]
        /\ c.forms \subseteq {"one", ""}
    BY <2>1 DEF FillBlankContent
  <2>3. c.forms \ {""} # {} /\ c.item # Nobody
    BY <1>2, <1>6 DEF ValidateGeneratedContent, ValidFillBlank
  <2>4. "one" \in c.forms /\ targets # <<>> /\ c.item = targets[1]
    BY <2>2, <2>3
  <2>5. Targets(type, c) = {targets[1]}
    BY <1>6, <2>3, <2>4 DEF Targets
  <2>6. Grades(type, c, "one") = {<<TRUE, {targets[1]}>>}
    BY <1>6, <2>4, <2>5 DEF Grades, GradeFillBlank, RuleGrade
  <2>7. "one" \in ResponsesTo(type, c)
    BY <1>6 DEF ResponsesTo
  <2>. DEFINE g == <<TRUE, {targets[1]}>>
  <2>8. g \in Grades(type, c, "one") /\ g[1]
        /\ (targets # <<>> => g[2] \cap Range(targets) # {})
    BY <1>3, <2>4, <2>6
  <2>. QED  BY <2>7, <2>8 DEF type, targets
<1>7. CASE type = "production"
  <2>1. answer \in ProductionContent /\ c = [answer EXCEPT !.ids = Range(targets)]
    BY <1>1, <1>7 DEF ModelContent, InjectTargets
  <2>2. c.ids = Range(targets)
    BY <2>1 DEF ProductionContent
  <2>3. Range(targets) \subseteq Targets(type, c)
    BY <1>7, <2>2 DEF Targets, ProductionTargets
  <2>4. <<TRUE, Targets(type, c)>> \in Grades(type, c, "text")
    BY <1>7 DEF Grades
  <2>5. "text" \in ResponsesTo(type, c)
    BY <1>7 DEF ResponsesTo
  <2>. DEFINE g == <<TRUE, Targets(type, c)>>
  <2>6. g[1] /\ (targets # <<>> => g[2] \cap Range(targets) # {})
    BY <1>3, <2>3
  <2>. QED  BY <2>4, <2>5, <2>6 DEF type, targets
<1>. QED  BY <1>4, <1>5, <1>6, <1>7 DEF TaskTypes

\* ContentInv, for any items, questions, levels, runs and faults.
THEOREM ContentInvariant == ContentSpec => []ContentInv
  BY InitialContent, ContentStep, PTL DEF ContentSpec

\* EveryTaskCanBeSolved.
THEOREM TasksCanBeSolved == ContentSpec => []EveryTaskCanBeSolved
<1>1. ContentInv => EveryTaskCanBeSolved
  <2>. SUFFICES ASSUME ContentInv, NEW j \in DOMAIN written
                PROVE  LET c == written[j].content
                       IN  \E response \in ResponsesTo(taskSet.type, c) :
                           \E g \in Grades(taskSet.type, c, response) :
                              g[1] /\ (taskSet.targets # <<>> => g[2] \cap Range(taskSet.targets) # {})
    BY DEF EveryTaskCanBeSolved
  <2>. DEFINE Rows == [content : Acceptable, run : Nat]
  <2>1. written[j] \in Rows
    <3>1. written \in Seq(Rows)
      BY DEF ContentInv
    <3>. HIDE DEF Rows
    <3>. QED  BY <3>1
  <2>. QED  BY <2>1, AcceptableIsSolvable
<1>. QED  BY <1>1, ContentInvariant, PTL
=============================================================================
