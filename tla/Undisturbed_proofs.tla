-------------------------- MODULE Undisturbed_proofs -------------------------
(***************************************************************************)
(* What is proved about a learner whom nobody disturbs (Learning), and of  *)
(* the whole of Learning from its parts.                                   *)
(*                                                                         *)
(* Counts are lost when two writers hold copies of one row, so that they   *)
(* are kept is a matter of who else writes.  AloneInv is about a learner   *)
(* who reads one story: the events reach the log, are taken up and are     *)
(* marked in their order (InTurn), the row of a word counts what is        *)
(* marked, and the run's copy what the run has begun with besides          *)
(* (CountedAlone).  A run that fails has marked nothing its row does not   *)
(* count, and the next one begins with what is not marked.                 *)
(*                                                                         *)
(* LoneInv is about one answer and no reading: at each place of the        *)
(* submission, what it has been through has left its mark in the rows of   *)
(* the words (AnswerInv) and of their skills (EarningInv).                 *)
(***************************************************************************)
EXTENDS Learning_proofs

\* The events of a kind about a word that are marked, and those its story's run has begun
\* with as well.
Marked(kind, i) == {e \in EventsOn(kind, i) : event[e] = "processed"}
Begun(s, kind, i) ==
    {e \in EventsOn(kind, i) : event[e] = "processed" \/ (Running(s) /\ e \in Started(s))}

\* Events of a story reach the log, are read by a run and are marked in their order.
InTurn(s) ==
    /\ \A e \in StoryEvents(s) : event[e] \in {"unsent", "pending", "processed"}
    /\ \A e, f \in StoryEvents(s) : e < f => /\ InLog(f) => InLog(e)
                                             /\ event[f] = "processed" => event[e] = "processed"
    /\ Running(s) =>
          /\ \A e \in run[s].ids, f \in PendingOf(s) : f < e => f \in run[s].ids
          /\ run[s].load # {} => Started(s) = {}
    /\ ~Running(s) => run[s].items = {}

\* What the row of a word, and the run's copy of it, count at least when nobody but the
\* story's run stores the row.
CountedAlone(s, i) ==
    /\ uk[i].lookups >= Cardinality(Marked("lookup", i))
    /\ CopyOf(s, i).lookups >= Cardinality(Begun(s, "lookup", i))
    /\ ~FirstRead(s) => uk[i].exposure >= Words[s][i]
    /\ Exposed(s, i) => CopyOf(s, i).exposure >= Words[s][i]
    /\ run[s].pc = "not_ready_store" /\ run[s].item = i => run[s].copy = uk[i]

\* The words of the only story that is read.
StoryInv(s) ==
    \A i \in Items :
        /\ \A e \in Begun(s, "rate", i) : surface[i] >= e
        /\ OnlyReadersWrite(i) => CountedAlone(s, i)

AloneInv ==
    /\ \A s \in Stories : InTurn(s)
    /\ \A i \in Items : rating[i].given = 0 => rating[i].pc = "idle"
    /\ surface \in [Items -> Nat]
    /\ \A s \in Stories : OnlyRead(s) => StoryInv(s)

-----------------------------------------------------------------------------
LEMMA EventCounts ==
    ASSUME NEW T \in SUBSET Events, NEW S \in SUBSET T
    PROVE  /\ Cardinality(S) \in Nat /\ Cardinality(T) \in Nat /\ Cardinality(S) <= Cardinality(T)
           /\ \A e \in Events : Cardinality(S \cup {e}) \in Nat /\ Cardinality(S \cup {e}) <= Cardinality(S) + 1
<1>1. IsFiniteSet(T) /\ IsFiniteSet(S)
  BY EventsFinite, FS_Subset
<1>2. Cardinality(S) \in Nat /\ Cardinality(T) \in Nat /\ Cardinality(S) <= Cardinality(T)
  BY <1>1, FS_Subset, FS_CardinalityType
<1>3. ASSUME NEW e \in Events
      PROVE  Cardinality(S \cup {e}) \in Nat /\ Cardinality(S \cup {e}) <= Cardinality(S) + 1
  <2>1. IsFiniteSet(S \cup {e}) /\ Cardinality(S \cup {e}) = IF e \in S THEN Cardinality(S) ELSE Cardinality(S) + 1
    BY <1>1, FS_AddElement
  <2>. QED  BY <1>2, <2>1
<1>. QED  BY <1>2, <1>3

LEMMA EventNumbers == Events \subseteq Nat /\ \A s : StoryEvents(s) \subseteq Events /\ PendingOf(s) \subseteq StoryEvents(s)
  BY EventAssumption DEF Events, StoryEvents, PendingOf

-----------------------------------------------------------------------------
\* What the steps of a run do to it.
LEMMA RunStarts ==
    ASSUME KnowledgeInv, CountInv, NEW s \in Stories, StartSignals(s)
    PROVE  /\ UNCHANGED <<event, surface, rating, failures, uk>> /\ ~Running(s)
           /\ \A z \in Stories \ {s} : run'[z] = run[z]
           /\ \/ run' = run
              \/ /\ PendingOf(s) # {} /\ run'[s].pc = "load" /\ run'[s].items = {}
                 /\ run'[s].ids = PendingOf(s) /\ run'[s].left = PendingOf(s)
                 /\ run'[s].load = IF FirstRead(s) THEN {i \in Items : Words[s][i] > 0} ELSE {}
<1>1. /\ UNCHANGED <<event, surface, rating, failures, uk>> /\ job[s].status = "queued"
      /\ \/ run' = run
         \/ /\ PendingOf(s) # {}
            /\ run' = [run EXCEPT ![s] = [NoRun EXCEPT !.pc = "load",
                         !.load = IF FirstRead(s) THEN {i \in Items : Words[s][i] > 0} ELSE {},
                         !.left = PendingOf(s), !.ids = PendingOf(s)]]
  BY DEF StartSignals
<1>2. ~Running(s)
  BY <1>1 DEF CountInv, RunShape
<1>3. DOMAIN run = Stories
  BY RunFacts
<1>4. PICK load, ids : /\ load = IF FirstRead(s) THEN {i \in Items : Words[s][i] > 0} ELSE {}
                       /\ ids = PendingOf(s)
  OBVIOUS
<1>5. CASE run' = [run EXCEPT ![s] = [NoRun EXCEPT !.pc = "load", !.load = load, !.left = ids, !.ids = ids]]
           /\ PendingOf(s) # {}
  <2>1. /\ \A z \in Stories \ {s} : run'[z] = run[z]
        /\ run'[s] = [NoRun EXCEPT !.pc = "load", !.load = load, !.left = ids, !.ids = ids]
    BY <1>3, <1>5
  <2>2. run'[s].pc = "load" /\ run'[s].items = {} /\ run'[s].ids = ids /\ run'[s].left = ids /\ run'[s].load = load
    BY <2>1 DEF NoRun
  <2>. QED  BY <1>1, <1>2, <1>4, <1>5, <2>1, <2>2
<1>. QED  BY <1>1, <1>2, <1>4, <1>5

LEMMA RunExposes ==
    ASSUME KnowledgeInv, CountInv, NEW s \in Stories, NEW k \in Items, LoadExposed(s, k)
    PROVE  /\ UNCHANGED <<event, job, surface, rating, failures, uk>> /\ k \in run[s].load
           /\ \A z \in Stories \ {s} : run'[z] = run[z]
           /\ run[s].pc = "load" /\ run'[s].pc = "load" /\ run'[s].load = run[s].load \ {k}
           /\ run'[s].ids = run[s].ids /\ run'[s].left = run[s].left
           /\ run'[s].items = run[s].items \cup {k}
           /\ run'[s].rows = [run[s].rows EXCEPT ![k] = WithExposure(uk[k], Words[s][k])]
<1>1. PICK old, load, items, rows :
         /\ old = run[s] /\ load = old.load \ {k} /\ items = old.items \cup {k}
         /\ rows = [old.rows EXCEPT ![k] = WithExposure(uk[k], Words[s][k])]
  OBVIOUS
<1>2. /\ UNCHANGED <<event, job, surface, rating, failures, uk>> /\ k \in run[s].load /\ run[s].pc = "load"
      /\ run' = [run EXCEPT ![s].load = load, ![s].items = items,
                            ![s].rows[k] = WithExposure(uk[k], Words[s][k])]
  BY <1>1 DEF LoadExposed
<1>3. DOMAIN run = Stories /\ DOMAIN old = DOMAIN NoRun
  BY <1>1, RunFacts
<1>4. /\ \A z \in Stories \ {s} : run'[z] = run[z]
      /\ run'[s] = [old EXCEPT !.load = load, !.items = items, !.rows = rows]
  BY <1>1, <1>2, <1>3 DEF NoRun
<1>5. /\ run'[s].pc = old.pc /\ run'[s].load = load /\ run'[s].ids = old.ids /\ run'[s].left = old.left
      /\ run'[s].items = items /\ run'[s].rows = rows
  BY <1>3, <1>4 DEF NoRun
<1>. QED  BY <1>1, <1>2, <1>4, <1>5

LEMMA RunDerives ==
    ASSUME KnowledgeInv, CountInv, NEW s \in Stories, DeriveEvent(s), NEW e, e = Earliest(run[s].left),
           NEW i, i = EventOf[e].item, NEW kind, kind = EventOf[e].kind
    PROVE  /\ UNCHANGED <<event, job, rating, failures, uk>> /\ run[s].pc = "load" /\ run[s].load = {}
           /\ \A z \in Stories \ {s} : run'[z] = run[z]
           /\ e \in run[s].left /\ e \in PendingOf(s) /\ \A f \in Started(s) : f < e
           /\ run'[s].ids = run[s].ids /\ run'[s].left = run[s].left \ {e} /\ run'[s].load = {}
           /\ \/ /\ kind \in {"not_ready", "reference_peek"} /\ run'[s].pc \in {"not_ready", "load"}
                 /\ run'[s].items = run[s].items /\ run'[s].rows = run[s].rows /\ UNCHANGED surface
              \/ /\ kind \in {"lookup", "rate", "navigate"} /\ run'[s].pc = "load"
                 /\ run'[s].items = run[s].items \cup {i}
                 /\ run'[s].rows = [run[s].rows EXCEPT ![i] =
                        IF kind = "lookup" THEN [CopyOf(s, i) EXCEPT !.lookups = @ + 1] ELSE CopyOf(s, i)]
                 /\ surface' = IF kind = "rate" THEN [surface EXCEPT ![i] = e] ELSE surface
<1>1. PICK old, left, row, items, rows, targets :
         /\ old = run[s] /\ left = old.left \ {e}
         /\ row = IF kind = "lookup" THEN [CopyOf(s, i) EXCEPT !.lookups = @ + 1] ELSE CopyOf(s, i)
         /\ items = old.items \cup {i} /\ rows = [old.rows EXCEPT ![i] = row]
         /\ targets = SessionTargets[s]
  OBVIOUS
<1>2. DOMAIN run = Stories /\ DOMAIN old = DOMAIN NoRun /\ Running(s) /\ RunShape(s) /\ old.left # {}
  BY <1>1, RunFacts DEF DeriveEvent, Running
<1>3. PICK taken : taken = [old EXCEPT !.left = left]
  OBVIOUS
<1>4. /\ UNCHANGED <<event, job, rating, failures, uk>> /\ run[s].pc = "load" /\ run[s].load = {}
      /\ \/ /\ kind = "not_ready" /\ UNCHANGED surface
            /\ run' = [run EXCEPT ![s] = [taken EXCEPT !.pc = "not_ready", !.targets = targets]]
         \/ /\ kind = "reference_peek" /\ UNCHANGED surface
            /\ run' = [run EXCEPT ![s] = taken]
         \/ /\ kind \in {"lookup", "rate", "navigate"}
            /\ surface' = IF kind = "rate" THEN [surface EXCEPT ![i] = e] ELSE surface
            /\ run' = [run EXCEPT ![s] = [taken EXCEPT !.items = @ \cup {i}, !.rows[i] = row]]
  BY <1>1, <1>3 DEF DeriveEvent
<1>5. /\ DOMAIN taken = DOMAIN NoRun /\ taken.left = left /\ taken.ids = old.ids /\ taken.load = old.load
      /\ taken.rows = old.rows /\ taken.items = old.items /\ taken.pc = old.pc
  BY <1>2, <1>3 DEF NoRun
<1>6. e \in run[s].left /\ e \in PendingOf(s) /\ \A f \in Started(s) : f < e
  <2>1. run[s].left \subseteq run[s].ids /\ run[s].ids \subseteq PendingOf(s) /\ run[s].left \subseteq Events
    BY <1>2, EventNumbers DEF RunShape
  <2>2. e \in run[s].left
    BY <1>1, <1>2, <2>1, EarliestIsFirst
  <2>. QED  BY <1>2, <2>1, <2>2 DEF RunShape
<1>7. \A z \in Stories \ {s} : run'[z] = run[z]
  BY <1>2, <1>4
<1>8. CASE /\ kind = "not_ready" /\ UNCHANGED surface
           /\ run' = [run EXCEPT ![s] = [taken EXCEPT !.pc = "not_ready", !.targets = targets]]
  <2>1. run'[s] = [taken EXCEPT !.pc = "not_ready", !.targets = targets]
    BY <1>2, <1>8
  <2>2. /\ run'[s].pc = "not_ready" /\ run'[s].ids = taken.ids /\ run'[s].left = taken.left
        /\ run'[s].load = taken.load /\ run'[s].items = taken.items /\ run'[s].rows = taken.rows
    BY <1>5, <2>1 DEF NoRun
  <2>. QED  BY <1>1, <1>4, <1>5, <1>6, <1>7, <1>8, <2>2
<1>9. CASE /\ kind = "reference_peek" /\ UNCHANGED surface
           /\ run' = [run EXCEPT ![s] = taken]
  <2>1. run'[s] = taken
    BY <1>2, <1>9
  <2>. QED  BY <1>1, <1>4, <1>5, <1>6, <1>7, <1>9, <2>1
<1>10. CASE /\ kind \in {"lookup", "rate", "navigate"}
            /\ surface' = IF kind = "rate" THEN [surface EXCEPT ![i] = e] ELSE surface
            /\ run' = [run EXCEPT ![s] = [taken EXCEPT !.items = @ \cup {i}, !.rows[i] = row]]
  <2>1. run'[s] = [taken EXCEPT !.items = items, !.rows = rows]
    BY <1>1, <1>2, <1>5, <1>10
  <2>2. /\ run'[s].pc = taken.pc /\ run'[s].ids = taken.ids /\ run'[s].left = taken.left
        /\ run'[s].load = taken.load /\ run'[s].items = items /\ run'[s].rows = rows
    BY <1>5, <2>1 DEF NoRun
  <2>3. run'[s].ids = run[s].ids /\ run'[s].left = run[s].left \ {e} /\ run'[s].load = {}
    BY <1>1, <1>4, <1>5, <2>2
  <2>4. /\ run'[s].pc = "load" /\ run'[s].items = run[s].items \cup {i}
        /\ run'[s].rows = [run[s].rows EXCEPT ![i] =
               IF kind = "lookup" THEN [CopyOf(s, i) EXCEPT !.lookups = @ + 1] ELSE CopyOf(s, i)]
    BY <1>1, <1>4, <1>5, <2>2
  <2>. QED  BY <1>4, <1>6, <1>7, <1>10, <2>3, <2>4
<1>. QED  BY <1>4, <1>8, <1>9, <1>10

\* The steps of the second reading, of the stores and of the marks.
LEMMA RunReadsAgain ==
    ASSUME KnowledgeInv, CountInv, NEW s \in Stories, NEW k \in Items, NotReadyLoad(s, k)
    PROVE  /\ UNCHANGED <<event, job, surface, rating, failures, uk>>
           /\ \A z \in Stories \ {s} : run'[z] = run[z]
           /\ run[s].pc = "not_ready" /\ run'[s].pc = "not_ready_store"
           /\ run'[s].ids = run[s].ids /\ run'[s].left = run[s].left /\ run'[s].load = run[s].load
           /\ run'[s].items = run[s].items /\ run'[s].rows = run[s].rows
           /\ run'[s].item = k /\ run'[s].copy = uk[k]
<1>1. PICK old, row, targets : old = run[s] /\ row = uk[k] /\ targets = old.targets \ {k}
  OBVIOUS
<1>2. /\ UNCHANGED <<event, job, surface, rating, failures, uk>> /\ run[s].pc = "not_ready"
      /\ run' = [run EXCEPT ![s].pc = "not_ready_store", ![s].targets = targets, ![s].item = k, ![s].copy = row]
  BY <1>1 DEF NotReadyLoad
<1>3. DOMAIN run = Stories /\ DOMAIN old = DOMAIN NoRun
  BY <1>1, RunFacts
<1>4. /\ \A z \in Stories \ {s} : run'[z] = run[z]
      /\ run'[s] = [old EXCEPT !.pc = "not_ready_store", !.targets = targets, !.item = k, !.copy = row]
  BY <1>1, <1>2, <1>3
<1>5. /\ run'[s].pc = "not_ready_store" /\ run'[s].ids = old.ids /\ run'[s].left = old.left
      /\ run'[s].load = old.load
  BY <1>3, <1>4 DEF NoRun
<1>6. run'[s].items = old.items /\ run'[s].rows = old.rows
  BY <1>3, <1>4 DEF NoRun
<1>7. run'[s].item = k /\ run'[s].copy = row
  BY <1>3, <1>4 DEF NoRun
<1>. QED  BY <1>1, <1>2, <1>4, <1>5, <1>6, <1>7

LEMMA RunStoresTarget ==
    ASSUME KnowledgeInv, CountInv, NEW s \in Stories, NotReadyStore(s) \/ NotReadyDone(s)
    PROVE  /\ UNCHANGED <<event, job, surface, rating, failures>>
           /\ \A z \in Stories \ {s} : run'[z] = run[z]
           /\ Running(s) /\ run'[s].pc \in {"not_ready", "load"}
           /\ run'[s].ids = run[s].ids /\ run'[s].left = run[s].left /\ run'[s].load = run[s].load
           /\ run'[s].items = run[s].items /\ run'[s].rows = run[s].rows
           /\ uk' = uk \/ (/\ run[s].pc = "not_ready_store" /\ run[s].item \in Items
                           /\ uk'[run[s].item].lookups = run[s].copy.lookups
                           /\ uk'[run[s].item].exposure = run[s].copy.exposure + 1
                           /\ \A i \in Items \ {run[s].item} : uk'[i] = uk[i])
<1>1. PICK pc : /\ pc \in {"not_ready", "load"} /\ run' = [run EXCEPT ![s].pc = pc]
                /\ UNCHANGED <<event, job, surface, rating, failures>> /\ Running(s)
                /\ uk' = uk \/ (run[s].pc = "not_ready_store" /\ Refresh(run[s].item, [run[s].copy EXCEPT !.exposure = @ + 1]))
  BY DEF NotReadyStore, NotReadyDone, Running
<1>2. PICK old : old = run[s]
  OBVIOUS
<1>3. DOMAIN run = Stories /\ DOMAIN old = DOMAIN NoRun
  BY <1>2, RunFacts
<1>4. (\A z \in Stories \ {s} : run'[z] = run[z]) /\ run'[s] = [old EXCEPT !.pc = pc]
  BY <1>1, <1>2, <1>3
<1>5. /\ run'[s].pc = pc /\ run'[s].ids = old.ids /\ run'[s].left = old.left /\ run'[s].load = old.load
      /\ run'[s].items = old.items /\ run'[s].rows = old.rows
  BY <1>3, <1>4 DEF NoRun
<1>6. ASSUME run[s].pc = "not_ready_store", Refresh(run[s].item, [run[s].copy EXCEPT !.exposure = @ + 1])
      PROVE  /\ run[s].item \in Items
             /\ uk'[run[s].item].lookups = run[s].copy.lookups
             /\ uk'[run[s].item].exposure = run[s].copy.exposure + 1
             /\ \A i \in Items \ {run[s].item} : uk'[i] = uk[i]
  <2>1. PICK i \in Items, copy \in KnowledgeRow : i = run[s].item /\ copy = run[s].copy
    BY <1>6, RunFacts
  <2>2. PICK exposure \in Nat : exposure = copy.exposure + 1
    BY DEF KnowledgeRow
  <2>3. PICK row : row = [copy EXCEPT !.exposure = exposure]
    OBVIOUS
  <2>4. row \in KnowledgeRow /\ row.lookups = copy.lookups /\ row.exposure = exposure
    BY <2>3 DEF KnowledgeRow
  <2>5. Alike(uk'[i], row) /\ \A j \in Items \ {i} : uk'[j] = uk[j]
    <3>1. Refresh(i, row) /\ DOMAIN uk = Items
      BY <1>6, <2>1, <2>2, <2>3, RunFacts
    <3>. QED  BY <2>4, <3>1, RefreshedRow
  <2>. QED  BY <2>1, <2>2, <2>4, <2>5 DEF Alike
<1>. QED  BY <1>1, <1>2, <1>4, <1>5, <1>6

LEMMA RunFlushes ==
    ASSUME KnowledgeInv, CountInv, NEW s \in Stories, NEW k \in Items, FlushRow(s, k)
    PROVE  /\ UNCHANGED <<event, job, surface, rating, failures>>
           /\ \A z \in Stories \ {s} : run'[z] = run[z]
           /\ run[s].pc = "load" /\ run'[s].pc = "load" /\ run[s].load = {} /\ k \in run[s].items
           /\ run'[s].ids = run[s].ids /\ run'[s].left = run[s].left /\ run'[s].load = {}
           /\ run'[s].items = run[s].items \ {k}
           /\ \A i \in Items \ {k} : run'[s].rows[i] = run[s].rows[i] /\ uk'[i] = uk[i]
           /\ Alike(uk'[k], run[s].rows[k])
<1>1. PICK old, items, rows : old = run[s] /\ items = old.items \ {k} /\ rows = [old.rows EXCEPT ![k] = ZeroRow]
  OBVIOUS
<1>2. /\ UNCHANGED <<event, job, surface, rating, failures>>
      /\ run[s].pc = "load" /\ run[s].load = {} /\ k \in run[s].items /\ Refresh(k, run[s].rows[k])
      /\ run' = [run EXCEPT ![s].items = items, ![s].rows[k] = ZeroRow]
  BY <1>1 DEF FlushRow
<1>3. DOMAIN run = Stories /\ DOMAIN old = DOMAIN NoRun /\ DOMAIN uk = Items /\ run[s].rows[k] \in KnowledgeRow
      /\ DOMAIN old.rows = Items
  BY <1>1, RunFacts
<1>4. /\ \A z \in Stories \ {s} : run'[z] = run[z]
      /\ run'[s] = [old EXCEPT !.items = items, !.rows = rows]
  BY <1>1, <1>2, <1>3 DEF NoRun
<1>5. /\ run'[s].pc = old.pc /\ run'[s].load = old.load /\ run'[s].ids = old.ids /\ run'[s].left = old.left
      /\ run'[s].items = items /\ run'[s].rows = rows
  BY <1>3, <1>4 DEF NoRun
<1>6. Alike(uk'[k], run[s].rows[k]) /\ \A i \in Items \ {k} : uk'[i] = uk[i]
  BY <1>2, <1>3, RefreshedRow
<1>7. \A i \in Items \ {k} : rows[i] = old.rows[i]
  BY <1>1, <1>3
<1>. QED  BY <1>1, <1>2, <1>4, <1>5, <1>6, <1>7

LEMMA RunMarks ==
    ASSUME KnowledgeInv, CountInv, NEW s \in Stories, MarkProcessed(s)
    PROVE  \E e \in run[s].ids :
             /\ UNCHANGED <<job, surface, rating, failures, uk>> /\ e \in StoryEvents(s)
             /\ \A z \in Stories \ {s} : run'[z] = run[z]
             /\ event[e] = "pending" /\ event'[e] = "processed" /\ \A f \in Events \ {e} : event'[f] = event[f]
             /\ \A f \in run[s].ids : e <= f
             /\ run[s].pc = "load" /\ run'[s].pc = "load"
             /\ run[s].load = {} /\ run[s].left = {} /\ run[s].items = {}
             /\ run'[s].load = {} /\ run'[s].left = {} /\ run'[s].items = {}
             /\ run'[s].ids = run[s].ids \ {e}
<1>1. PICK e, old, ids : e = Earliest(run[s].ids) /\ old = run[s] /\ ids = old.ids \ {e}
  OBVIOUS
<1>2. /\ UNCHANGED <<job, surface, rating, failures, uk>> /\ event' = [event EXCEPT ![e] = "processed"]
      /\ run[s].pc = "load" /\ run[s].load = {} /\ run[s].left = {} /\ run[s].items = {} /\ run[s].ids # {}
      /\ run' = [run EXCEPT ![s].ids = ids]
  BY <1>1 DEF MarkProcessed
<1>3. DOMAIN run = Stories /\ DOMAIN old = DOMAIN NoRun /\ DOMAIN event = Events /\ run[s].ids \subseteq PendingOf(s)
  BY <1>1, <1>2, RunFacts DEF RunShape, Running
<1>4. e \in run[s].ids /\ \A f \in run[s].ids : e <= f
  BY <1>1, <1>2, <1>3, EventNumbers, EarliestIsFirst
<1>5. (\A z \in Stories \ {s} : run'[z] = run[z]) /\ run'[s] = [old EXCEPT !.ids = ids]
  BY <1>1, <1>2, <1>3
<1>6. /\ run'[s].pc = old.pc /\ run'[s].load = old.load /\ run'[s].left = old.left /\ run'[s].items = old.items
      /\ run'[s].ids = ids
  BY <1>3, <1>5 DEF NoRun
<1>7. /\ e \in StoryEvents(s) /\ event[e] = "pending" /\ event'[e] = "processed"
      /\ \A f \in Events \ {e} : event'[f] = event[f]
  BY <1>2, <1>3, <1>4, EventNumbers DEF PendingOf
<1>. QED  BY <1>1, <1>2, <1>4, <1>5, <1>6, <1>7

LEMMA RunEnds ==
    ASSUME KnowledgeInv, CountInv, NEW s \in Stories, EndSignals(s) \/ FailSignals(s)
    PROVE  /\ UNCHANGED <<event, surface, rating, uk>> /\ run'[s].pc = "idle" /\ run'[s].items = {}
           /\ \A z \in Stories \ {s} : run'[z] = run[z]
<1>1. DOMAIN run = Stories
  BY RunFacts
<1>2. UNCHANGED <<event, surface, rating, uk>> /\ run' = [run EXCEPT ![s] = NoRun]
  BY DEF EndSignals, FailSignals
<1>. QED  BY <1>1, <1>2 DEF NoRun

-----------------------------------------------------------------------------
\* Events keep their order.
LEMMA OtherInTurn ==
    ASSUME NEW z \in Stories, InTurn(z), run'[z] = run[z],
           \A e \in StoryEvents(z) : event'[e] = event[e]
    PROVE  InTurn(z)'
<1>1. PendingOf(z)' = PendingOf(z) /\ Running(z)' = Running(z) /\ Started(z)' = Started(z)
      /\ \A e \in StoryEvents(z) : InLog(e)' = InLog(e)
  BY DEF PendingOf, Running, Started, StoryEvents, InLog
<1>2. StoryEvents(z)' = StoryEvents(z)
  BY DEF StoryEvents
<1>. QED  BY <1>1, <1>2 DEF InTurn

LEMMA RunInTurn ==
    ASSUME NEW s \in Stories, InTurn(s), UNCHANGED event,
           Running(s)' => /\ \A e \in run'[s].ids, f \in PendingOf(s) : f < e => f \in run'[s].ids
                          /\ run'[s].load # {} => Started(s)' = {},
           ~Running(s)' => run'[s].items = {}
    PROVE  InTurn(s)'
<1>1. PendingOf(s)' = PendingOf(s) /\ StoryEvents(s)' = StoryEvents(s) /\ \A e : InLog(e)' = InLog(e)
  BY DEF PendingOf, StoryEvents, InLog
<1>. QED  BY <1>1 DEF InTurn

LEMMA MarkInTurn ==
    ASSUME KnowledgeInv, CountInv, NEW s \in Stories, InTurn(s), MarkProcessed(s)
    PROVE  InTurn(s)'
<1>1. PICK e \in run[s].ids :
         /\ e \in StoryEvents(s) /\ event[e] = "pending" /\ event'[e] = "processed"
         /\ \A f \in Events \ {e} : event'[f] = event[f]
         /\ \A f \in run[s].ids : e <= f
         /\ run[s].pc = "load" /\ run'[s].pc = "load" /\ run'[s].load = {} /\ run'[s].ids = run[s].ids \ {e}
  BY RunMarks
<1>2. Running(s) /\ Running(s)' /\ StoryEvents(s)' = StoryEvents(s) /\ StoryEvents(s) \subseteq Events
      /\ PendingOf(s)' \subseteq PendingOf(s) \ {e} /\ Events \subseteq Nat
  BY <1>1, EventNumbers DEF Running, StoryEvents, PendingOf
<1>3. \A f \in StoryEvents(s) : event'[f] = IF f = e THEN "processed" ELSE event[f]
  BY <1>1, <1>2
<1>4. \A f \in StoryEvents(s) : InLog(f)' <=> InLog(f)
  BY <1>1, <1>3 DEF InLog
<1>5. \A f \in StoryEvents(s) : event'[f] \in {"unsent", "pending", "processed"}
  BY <1>3 DEF InTurn
<1>6. ASSUME NEW d \in StoryEvents(s), NEW f \in StoryEvents(s), d < f
      PROVE  (InLog(f)' => InLog(d)') /\ (event'[f] = "processed" => event'[d] = "processed")
  <2>1. InLog(f)' => InLog(d)'
    BY <1>4, <1>6 DEF InTurn
  <2>2. CASE f # e
    BY <1>3, <1>6, <2>1, <2>2 DEF InTurn
  <2>3. CASE f = e
    <3>1. InLog(d) /\ event[d] \in {"unsent", "pending", "processed"}
      BY <1>1, <1>6, <2>3 DEF InTurn, InLog
    <3>2. event[d] # "pending"
      <4>. SUFFICES ASSUME event[d] = "pending" PROVE FALSE
        OBVIOUS
      <4>1. d \in run[s].ids
        BY <1>1, <1>2, <1>6, <2>3 DEF InTurn, PendingOf
      <4>2. e \in Nat /\ d \in Nat /\ e <= d /\ d < e
        BY <1>1, <1>2, <1>6, <2>3, <4>1
      <4>. QED  BY <4>2
    <3>3. event[d] = "processed"
      BY <3>1, <3>2 DEF InLog
    <3>. QED  BY <1>3, <2>1, <3>3
  <2>. QED  BY <2>2, <2>3
<1>7. ASSUME NEW d \in run'[s].ids, NEW f \in PendingOf(s)', f < d PROVE f \in run'[s].ids
  <2>1. d \in run[s].ids /\ f \in PendingOf(s) /\ f # e
    BY <1>1, <1>2
  <2>. QED  BY <1>1, <1>2, <1>7, <2>1 DEF InTurn
<1>. QED  BY <1>1, <1>2, <1>5, <1>6, <1>7 DEF InTurn

LEMMA FlushInTurn ==
    ASSUME KnowledgeInv, CountInv, NEW s \in Stories, InTurn(s), NEW last \in StoryEvents(s), NEW lost, Flush(s, last, lost)
    PROVE  InTurn(s)'
<1>0. StoryEvents(s)' = StoryEvents(s) /\ StoryEvents(s) \subseteq Events /\ Events \subseteq Nat /\ UNCHANGED run
  BY EventNumbers DEF StoryEvents, Flush
<1>1. \A e \in StoryEvents(s) : event'[e] = IF e <= last /\ event[e] = "unsent" THEN "pending" ELSE event[e]
  BY <1>0 DEF Flush
<1>2. \A e \in StoryEvents(s) : event'[e] \in {"unsent", "pending", "processed"}
  BY <1>1 DEF InTurn
<1>3. ASSUME NEW e \in StoryEvents(s), NEW f \in StoryEvents(s), e < f
      PROVE  (InLog(f)' => InLog(e)') /\ (event'[f] = "processed" => event'[e] = "processed")
  <2>1. (InLog(f) => InLog(e)) /\ (event[f] = "processed" => event[e] = "processed")
    BY <1>3 DEF InTurn
  <2>2. e \in Nat /\ f \in Nat /\ last \in Nat
    BY <1>0
  <2>3. f <= last => e <= last
    BY <1>3, <2>2
  <2>. QED  BY <1>1, <2>1, <2>3 DEF InLog
<1>4. ASSUME Running(s), NEW e \in run[s].ids, NEW f \in PendingOf(s)', f < e PROVE f \in run[s].ids
  <2>1. e \in PendingOf(s)
    BY <1>4 DEF CountInv, RunShape
  <2>2. f \in StoryEvents(s) /\ e \in StoryEvents(s) /\ InLog(e) /\ event'[f] = "pending"
    BY <1>0, <2>1 DEF PendingOf, InLog
  <2>3. InLog(f)
    BY <1>4, <2>2 DEF InTurn
  <2>4. f \in PendingOf(s)
    BY <1>1, <2>2, <2>3 DEF PendingOf, InLog
  <2>. QED  BY <1>4, <2>1, <2>4 DEF InTurn
<1>5. Running(s)' = Running(s) /\ Started(s)' = Started(s)
  BY <1>0 DEF Running, Started
<1>. QED  BY <1>0, <1>2, <1>3, <1>4, <1>5 DEF InTurn

\* What a step of a story leaves to the others.
LEMMA SignalsOfOthers ==
    ASSUME KnowledgeInv, CountInv, NEW s \in Stories, SignalStep(s) \/ FailSignals(s)
    PROVE  /\ \A z \in Stories \ {s} : run'[z] = run[z] /\ \A e \in StoryEvents(z) : event'[e] = event[e]
           /\ UNCHANGED rating
           /\ \A e \in Events : event'[e] = event[e] \/ (event[e] = "pending" /\ event'[e] = "processed")
<1>1. CASE MarkProcessed(s)
  <2>1. PICK e \in run[s].ids :
           /\ UNCHANGED rating /\ e \in StoryEvents(s) /\ \A z \in Stories \ {s} : run'[z] = run[z]
           /\ event[e] = "pending" /\ event'[e] = "processed" /\ \A f \in Events \ {e} : event'[f] = event[f]
    BY <1>1, RunMarks
  <2>2. \A z \in Stories \ {s} : \A f \in StoryEvents(z) : f # e /\ f \in Events
    BY <2>1 DEF StoryEvents
  <2>. QED  BY <2>1, <2>2
<1>2. CASE EndSignals(s) \/ FailSignals(s)
  BY <1>2, RunEnds
<1>3. CASE StartSignals(s)
  BY <1>3, RunStarts
<1>4. CASE DeriveEvent(s)
  BY <1>4, RunDerives
<1>5. CASE NotReadyStore(s) \/ NotReadyDone(s)
  BY <1>5, RunStoresTarget
<1>6. CASE \E k \in Items : LoadExposed(s, k)
  BY <1>6, RunExposes
<1>7. CASE \E k \in Items : NotReadyLoad(s, k)
  BY <1>7, RunReadsAgain
<1>8. CASE \E k \in Items : FlushRow(s, k)
  BY <1>8, RunFlushes
<1>. QED  BY <1>1, <1>2, <1>3, <1>4, <1>5, <1>6, <1>7, <1>8 DEF SignalStep

LEMMA SignalsInTurn ==
    ASSUME KnowledgeInv, CountInv, NEW s \in Stories, \A z \in Stories : InTurn(z), SignalStep(s) \/ FailSignals(s)
    PROVE  \A z \in Stories : InTurn(z)'
<1>0. \A z \in Stories \ {s} : InTurn(z)'
  BY SignalsOfOthers, OtherInTurn
<1>1. CASE MarkProcessed(s)
  BY <1>0, <1>1, MarkInTurn
<1>2. CASE EndSignals(s) \/ FailSignals(s)
  BY <1>0, <1>2, RunEnds, RunInTurn DEF Running
<1>3. CASE StartSignals(s)
  <2>1. CASE run' = run
    BY <1>0, <1>3, <2>1, RunStarts, OtherInTurn
  <2>2. CASE run'[s].pc = "load" /\ run'[s].ids = PendingOf(s) /\ run'[s].left = PendingOf(s)
    BY <1>0, <1>3, <2>2, RunStarts, RunInTurn DEF Running, Started
  <2>. QED  BY <1>3, <2>1, <2>2, RunStarts
<1>4. CASE DeriveEvent(s)
  <2>1. /\ UNCHANGED event /\ run[s].pc = "load" /\ run'[s].pc \in {"not_ready", "load"}
        /\ run'[s].ids = run[s].ids /\ run'[s].load = {}
    BY <1>4, RunDerives
  <2>. QED  BY <1>0, <2>1, RunInTurn DEF Running, InTurn
<1>5. CASE NotReadyStore(s) \/ NotReadyDone(s)
  <2>1. /\ UNCHANGED event /\ Running(s) /\ run'[s].pc \in {"not_ready", "load"}
        /\ run'[s].ids = run[s].ids /\ run'[s].load = run[s].load /\ run'[s].left = run[s].left
    BY <1>5, RunStoresTarget
  <2>. QED  BY <1>0, <2>1, RunInTurn DEF Running, InTurn, Started
<1>6. ASSUME NEW k \in Items, LoadExposed(s, k) PROVE InTurn(s)'
  <2>1. /\ UNCHANGED event /\ run[s].pc = "load" /\ run'[s].pc = "load" /\ run[s].load # {}
        /\ run'[s].ids = run[s].ids /\ run'[s].left = run[s].left
    BY <1>6, RunExposes
  <2>. QED  BY <2>1, RunInTurn DEF Running, InTurn, Started
<1>7. ASSUME NEW k \in Items, NotReadyLoad(s, k) PROVE InTurn(s)'
  <2>1. /\ UNCHANGED event /\ run[s].pc = "not_ready" /\ run'[s].pc = "not_ready_store"
        /\ run'[s].ids = run[s].ids /\ run'[s].left = run[s].left /\ run'[s].load = run[s].load
    BY <1>7, RunReadsAgain
  <2>. QED  BY <2>1, RunInTurn DEF Running, InTurn, Started
<1>8. ASSUME NEW k \in Items, FlushRow(s, k) PROVE InTurn(s)'
  <2>1. /\ UNCHANGED event /\ run[s].pc = "load" /\ run'[s].pc = "load"
        /\ run'[s].ids = run[s].ids /\ run'[s].load = {}
    BY <1>8, RunFlushes
  <2>. QED  BY <2>1, RunInTurn DEF Running, InTurn, Started
<1>. QED  BY <1>0, <1>1, <1>2, <1>3, <1>4, <1>5, <1>6, <1>7, <1>8 DEF SignalStep

-----------------------------------------------------------------------------
\* The story's own run counts what it takes up.
LEMMA WhatIsBegun ==
    ASSUME NEW s \in Stories, NEW kind, NEW i
    PROVE  /\ Marked(kind, i) \subseteq Begun(s, kind, i) /\ Begun(s, kind, i) \subseteq Events
           /\ Marked(kind, i) \in SUBSET Events /\ Begun(s, kind, i) \in SUBSET Events
           /\ ~Running(s) \/ Started(s) = {} => Begun(s, kind, i) = Marked(kind, i)
  BY DEF Marked, Begun, EventsOn

LEMMA WhatIsBegunNext ==
    ASSUME NEW s \in Stories, NEW kind, NEW i
    PROVE  /\ Marked(kind, i)' \subseteq Begun(s, kind, i)' /\ Begun(s, kind, i)' \subseteq Events
           /\ ~Running(s)' \/ Started(s)' = {} => Begun(s, kind, i)' = Marked(kind, i)'
  BY DEF Marked, Begun, EventsOn, Running, Started

LEMMA MarkedStays ==
    ASSUME UNCHANGED event, NEW s \in Stories
    PROVE  /\ \A kind, i : EventsOn(kind, i)' = EventsOn(kind, i) /\ Marked(kind, i)' = Marked(kind, i)
           /\ FirstRead(s)' = FirstRead(s)
           /\ Running(s) /\ Running(s)' /\ Started(s)' = Started(s)
                 => \A kind, i : Begun(s, kind, i)' = Begun(s, kind, i)
<1>1. \A kind, i : EventsOn(kind, i)' = EventsOn(kind, i)
  BY DEF EventsOn, InLog
<1>. QED  BY <1>1 DEF Marked, Begun, FirstRead, StoryEvents

LEMMA CopyIsRow ==
    ASSUME KnowledgeInv, CountInv, NEW s \in Stories, NEW i \in Items
    PROVE  /\ CopyOf(s, i) \in KnowledgeRow /\ CopyOf(s, i).lookups \in Nat /\ CopyOf(s, i).exposure \in Nat
           /\ uk[i] \in KnowledgeRow /\ uk[i].lookups \in Nat /\ uk[i].exposure \in Nat
           /\ Words[s][i] \in Nat
           /\ Cardinality(Marked("lookup", i)) \in Nat /\ Cardinality(Begun(s, "lookup", i)) \in Nat
           /\ Cardinality(Marked("lookup", i)) <= Cardinality(Begun(s, "lookup", i))
<1>1. CopyOf(s, i) \in KnowledgeRow /\ uk[i] \in KnowledgeRow
  BY RunFacts DEF CopyOf
<1>2. \A row \in KnowledgeRow : row.lookups \in Nat /\ row.exposure \in Nat
  BY DEF KnowledgeRow
<1>. QED  BY <1>1, <1>2, WordAssumption, WhatIsBegun, EventCounts

LEMMA StoryAfter ==
    ASSUME NEW s \in Stories, UNCHANGED <<rating, submission>>, StoryInv(s),
           UNCHANGED surface, \A i \in Items : Begun(s, "rate", i)' \subseteq Begun(s, "rate", i),
           \A i \in Items : CountedAlone(s, i) => CountedAlone(s, i)'
    PROVE  StoryInv(s)'
<1>1. \A i \in Items : OnlyReadersWrite(i)' <=> OnlyReadersWrite(i)
  BY DEF OnlyReadersWrite
<1>. QED  BY <1>1 DEF StoryInv

LEMMA StoryStarts ==
    ASSUME KnowledgeInv, CountInv, NEW s \in Stories, InTurn(s), StoryInv(s), UNCHANGED submission, StartSignals(s)
    PROVE  StoryInv(s)'
<1>1. /\ UNCHANGED <<event, surface, rating, uk>> /\ ~Running(s)
      /\ \/ run' = run
         \/ /\ run'[s].pc = "load" /\ run'[s].items = {}
            /\ run'[s].ids = PendingOf(s) /\ run'[s].left = PendingOf(s)
            /\ run'[s].load = IF FirstRead(s) THEN {i \in Items : Words[s][i] > 0} ELSE {}
  BY RunStarts
<1>2. CASE run' = run
  <2>1. \A kind, i : Begun(s, kind, i)' = Begun(s, kind, i) /\ Marked(kind, i)' = Marked(kind, i)
    BY <1>1, <1>2 DEF Begun, Marked, EventsOn, InLog, Running, Started
  <2>2. \A i \in Items : CopyOf(s, i)' = CopyOf(s, i) /\ Exposed(s, i)' = Exposed(s, i) /\ FirstRead(s)' = FirstRead(s)
    BY <1>1, <1>2 DEF CopyOf, Exposed, FirstRead, StoryEvents, Running
  <2>. QED  BY <1>1, <1>2, <2>1, <2>2, StoryAfter DEF CountedAlone
<1>3. CASE /\ run'[s].pc = "load" /\ run'[s].items = {}
           /\ run'[s].ids = PendingOf(s) /\ run'[s].left = PendingOf(s)
           /\ run'[s].load = IF FirstRead(s) THEN {i \in Items : Words[s][i] > 0} ELSE {}
  <2>1. Started(s)' = {} /\ run[s].items = {}
    BY <1>1, <1>3 DEF Started, InTurn
  <2>2. \A kind, i : /\ Begun(s, kind, i)' = Marked(kind, i) /\ Begun(s, kind, i) = Marked(kind, i)
                     /\ Marked(kind, i)' = Marked(kind, i)
    BY <1>1, <2>1, WhatIsBegun, WhatIsBegunNext, MarkedStays
  <2>3. ASSUME NEW i \in Items, CountedAlone(s, i) PROVE CountedAlone(s, i)'
    <3>1. CopyOf(s, i) = uk[i] /\ CopyOf(s, i)' = uk[i] /\ uk'[i] = uk[i]
      BY <1>1, <1>3, <2>1 DEF CopyOf
    <3>2. FirstRead(s)' = FirstRead(s)
      BY <1>1, MarkedStays
    <3>3. Exposed(s, i)' => uk[i].exposure >= Words[s][i]
      <4>. SUFFICES ASSUME Exposed(s, i)', FirstRead(s) PROVE uk[i].exposure >= Words[s][i]
        BY <2>3 DEF CountedAlone
      <4>1. ~(Words[s][i] > 0)
        BY <1>3, <3>2 DEF Exposed
      <4>. QED  BY <4>1, CopyIsRow
    <3>. QED  BY <1>3, <2>2, <2>3, <3>1, <3>2, <3>3 DEF CountedAlone
  <2>. QED  BY <1>1, <2>2, <2>3, StoryAfter
<1>. QED  BY <1>1, <1>2, <1>3

LEMMA StoryExposes ==
    ASSUME KnowledgeInv, CountInv, NEW s \in Stories, InTurn(s), StoryInv(s), UNCHANGED submission,
           NEW k \in Items, LoadExposed(s, k)
    PROVE  StoryInv(s)'
<1>1. /\ UNCHANGED <<event, surface, rating, uk>> /\ k \in run[s].load
      /\ run[s].pc = "load" /\ run'[s].pc = "load" /\ run'[s].load = run[s].load \ {k}
      /\ run'[s].ids = run[s].ids /\ run'[s].left = run[s].left
      /\ run'[s].items = run[s].items \cup {k}
      /\ run'[s].rows = [run[s].rows EXCEPT ![k] = WithExposure(uk[k], Words[s][k])]
  BY RunExposes
<1>2. Running(s) /\ Running(s)' /\ Started(s)' = Started(s) /\ Started(s) = {}
  <2>1. Running(s) /\ Running(s)'
    BY <1>1 DEF Running
  <2>2. Started(s)' = Started(s)
    BY <1>1 DEF Started
  <2>3. Started(s) = {}
    BY <1>1, <2>1 DEF InTurn
  <2>. QED  BY <2>1, <2>2, <2>3
<1>3. \A kind, i : /\ Begun(s, kind, i)' = Begun(s, kind, i) /\ Begun(s, kind, i) = Marked(kind, i)
                   /\ Marked(kind, i)' = Marked(kind, i) /\ FirstRead(s)' = FirstRead(s)
  <2>1. /\ \A kind, i : Marked(kind, i)' = Marked(kind, i) /\ Begun(s, kind, i)' = Begun(s, kind, i)
        /\ FirstRead(s)' = FirstRead(s)
    BY <1>1, <1>2, MarkedStays
  <2>2. \A kind, i : Begun(s, kind, i) = Marked(kind, i)
    BY <1>2, WhatIsBegun
  <2>. QED  BY <2>1, <2>2
<1>4. ASSUME NEW i \in Items, CountedAlone(s, i) PROVE CountedAlone(s, i)'
  <2>0. DOMAIN run[s].rows = Items
    BY RunFacts
  <2>1. CASE i = k
    <3>1. PICK old \in KnowledgeRow, n \in Nat : old = uk[k] /\ n = Words[s][k]
      BY CopyIsRow
    <3>2. PICK exposure, variety \in Nat : exposure = old.exposure + n /\ variety = old.variety + 1
      BY DEF KnowledgeRow
    <3>3. PICK row : row = [old EXCEPT !.exposure = exposure, !.variety = variety]
      OBVIOUS
    <3>4. row.lookups = old.lookups /\ row.exposure = exposure /\ exposure >= n
      BY <3>2, <3>3 DEF KnowledgeRow
    <3>5. CopyOf(s, i)' = row
      BY <1>1, <2>0, <2>1, <3>1, <3>2, <3>3 DEF CopyOf, WithExposure
    <3>. QED  BY <1>1, <1>3, <1>4, <2>1, <3>1, <3>4, <3>5, CopyIsRow DEF CountedAlone
  <2>2. CASE i # k
    <3>1. CopyOf(s, i)' = CopyOf(s, i)
      BY <1>1, <2>0, <2>2 DEF CopyOf
    <3>2. Exposed(s, i)' => Exposed(s, i)
      BY <1>1, <1>2, <1>3, <2>2 DEF Exposed
    <3>. QED  BY <1>1, <1>3, <1>4, <3>1, <3>2 DEF CountedAlone
  <2>. QED  BY <2>1, <2>2
<1>. QED  BY <1>1, <1>3, <1>4, StoryAfter

LEMMA StoryDerives ==
    ASSUME KnowledgeInv, CountInv, NEW s \in Stories, InTurn(s), StoryInv(s), surface \in [Items -> Nat],
           OnlyRead(s), UNCHANGED submission, DeriveEvent(s)
    PROVE  StoryInv(s)'
<1>0. PICK e, i, kind : e = Earliest(run[s].left) /\ i = EventOf[e].item /\ kind = EventOf[e].kind
  OBVIOUS
<1>1. /\ UNCHANGED <<event, rating, uk>> /\ run[s].pc = "load" /\ run[s].load = {}
      /\ e \in run[s].left /\ e \in PendingOf(s) /\ \A f \in Started(s) : f < e
      /\ run'[s].ids = run[s].ids /\ run'[s].left = run[s].left \ {e} /\ run'[s].load = {}
      /\ \/ /\ kind \in {"not_ready", "reference_peek"} /\ run'[s].pc \in {"not_ready", "load"}
            /\ run'[s].items = run[s].items /\ run'[s].rows = run[s].rows /\ UNCHANGED surface
         \/ /\ kind \in {"lookup", "rate", "navigate"} /\ run'[s].pc = "load"
            /\ run'[s].items = run[s].items \cup {i}
            /\ run'[s].rows = [run[s].rows EXCEPT ![i] =
                   IF kind = "lookup" THEN [CopyOf(s, i) EXCEPT !.lookups = @ + 1] ELSE CopyOf(s, i)]
            /\ surface' = IF kind = "rate" THEN [surface EXCEPT ![i] = e] ELSE surface
  BY <1>0, RunDerives
<1>2. Running(s) /\ Running(s)' /\ Started(s)' = Started(s) \cup {e}
  <2>1. run[s].left \subseteq run[s].ids
    BY <1>1, RunFacts DEF RunShape, Running
  <2>. QED  BY <1>1, <2>1 DEF Running, Started
<1>3. /\ e \in Events /\ event[e] = "pending" /\ e \in StoryEvents(s)
      /\ Events \subseteq Nat /\ FirstRead(s)' = FirstRead(s)
  BY <1>1, EventNumbers, MarkedStays DEF PendingOf
<1>4. \A a, j : /\ Marked(a, j)' = Marked(a, j)
                /\ Begun(s, a, j)' = IF a = kind /\ j = i THEN Begun(s, a, j) \cup {e} ELSE Begun(s, a, j)
  <2>1. \A a, j : EventsOn(a, j)' = EventsOn(a, j) /\ Marked(a, j)' = Marked(a, j)
    BY <1>1, MarkedStays
  <2>2. \A a, j : e \in EventsOn(a, j) <=> a = kind /\ j = i
    BY <1>0, <1>3 DEF EventsOn, InLog
  <2>. QED  BY <1>1, <1>2, <2>1, <2>2 DEF Begun
\* A rating that is applied is the latest that was.
<1>5. ASSUME NEW j \in Items, NEW f \in Begun(s, "rate", j)' PROVE surface'[j] >= f
  <2>0. \A d \in Begun(s, "rate", j) : surface[j] >= d
    BY DEF StoryInv
  <2>1. CASE kind = "rate" /\ j = i
    <3>1. surface'[j] = e
      BY <1>1, <2>1
    <3>2. f = e \/ f \in Begun(s, "rate", j)
      BY <1>4
    <3>3. ASSUME f \in Begun(s, "rate", j), f # e PROVE f < e
      <4>1. CASE f \in Started(s)
        BY <1>1, <4>1
      <4>2. CASE event[f] = "processed" /\ f \in Events /\ EventOf[f].story = s
        <5>1. f \in StoryEvents(s) /\ ~(e < f)
          BY <1>3, <4>2 DEF InTurn, StoryEvents
        <5>2. e \in Nat /\ f \in Nat
          BY <1>3, <4>2
        <5>. QED  BY <3>3, <5>1, <5>2
      <4>. QED  BY <3>3, <4>1, <4>2 DEF Begun, EventsOn, OnlyRead
    <3>4. e \in Nat /\ f \in Nat
      BY <1>3, <3>2, WhatIsBegun
    <3>. QED  BY <3>1, <3>2, <3>3, <3>4
  <2>2. CASE ~(kind = "rate" /\ j = i)
    <3>1. f \in Begun(s, "rate", j)
      BY <1>4, <2>2
    <3>2. surface'[j] = surface[j]
      BY <1>1, <2>2
    <3>. QED  BY <2>0, <3>1, <3>2
  <2>. QED  BY <2>1, <2>2
<1>6. ASSUME NEW j \in Items, CountedAlone(s, j) PROVE CountedAlone(s, j)'
  <2>0. DOMAIN run[s].rows = Items
    BY RunFacts
  <2>1. (Exposed(s, j)' <=> Exposed(s, j)) /\ run'[s].pc # "not_ready_store"
    BY <1>1, <1>2, <1>3 DEF Exposed
  <2>2. CASE kind = "lookup" /\ j = i
    <3>1. PICK copy \in KnowledgeRow : copy = CopyOf(s, j)
      BY CopyIsRow
    <3>2. PICK lookups \in Nat : lookups = copy.lookups + 1
      BY DEF KnowledgeRow
    <3>3. PICK row : row = [copy EXCEPT !.lookups = lookups]
      OBVIOUS
    <3>4. row.lookups = lookups /\ row.exposure = copy.exposure
      BY <3>3 DEF KnowledgeRow
    <3>5. CopyOf(s, j)' = row
      BY <1>1, <2>0, <2>2, <3>1, <3>2, <3>3 DEF CopyOf
    <3>6. PICK n, m \in Nat : n = Cardinality(Begun(s, "lookup", j)) /\ m = Cardinality(Begun(s, "lookup", j)') /\ m <= n + 1
      <4>1. Begun(s, "lookup", j)' = Begun(s, "lookup", j) \cup {e}
        BY <1>4, <2>2
      <4>. QED  BY <1>3, <4>1, WhatIsBegun, EventCounts
    <3>7. copy.lookups >= n /\ copy.lookups \in Nat
      BY <1>6, <3>1, <3>6, CopyIsRow DEF CountedAlone
    <3>8. CopyOf(s, j)'.lookups >= m
      BY <3>2, <3>4, <3>5, <3>6, <3>7
    <3>9. Exposed(s, j)' => CopyOf(s, j)'.exposure >= Words[s][j]
      BY <1>6, <2>1, <3>1, <3>4, <3>5 DEF CountedAlone
    <3>. QED  BY <1>1, <1>3, <1>4, <1>6, <2>1, <3>6, <3>8, <3>9 DEF CountedAlone
  <2>3. CASE ~(kind = "lookup" /\ j = i)
    <3>1. CopyOf(s, j)' = CopyOf(s, j)
      BY <1>1, <2>0, <2>3 DEF CopyOf
    <3>2. Begun(s, "lookup", j)' = Begun(s, "lookup", j)
      BY <1>4, <2>3
    <3>. QED  BY <1>1, <1>3, <1>4, <1>6, <2>1, <3>1, <3>2 DEF CountedAlone
  <2>. QED  BY <2>2, <2>3
<1>7. \A j \in Items : OnlyReadersWrite(j)' <=> OnlyReadersWrite(j)
  BY <1>1 DEF OnlyReadersWrite
<1>. QED  BY <1>5, <1>6, <1>7 DEF StoryInv

LEMMA StoryReadsAgain ==
    ASSUME KnowledgeInv, CountInv, NEW s \in Stories, StoryInv(s), UNCHANGED submission,
           \/ \E k \in Items : NotReadyLoad(s, k)
           \/ NotReadyStore(s) \/ NotReadyDone(s)
    PROVE  StoryInv(s)'
<1>1. /\ UNCHANGED <<event, surface, rating>>
      /\ Running(s) /\ run'[s].pc # "idle"
      /\ run'[s].ids = run[s].ids /\ run'[s].left = run[s].left /\ run'[s].load = run[s].load
      /\ run'[s].items = run[s].items /\ run'[s].rows = run[s].rows
      /\ \/ /\ uk' = uk
            /\ \/ run'[s].pc = "not_ready_store" /\ \A i \in Items : run'[s].item = i => run'[s].copy = uk[i]
               \/ run'[s].pc # "not_ready_store"
         \/ /\ run'[s].pc # "not_ready_store"
            /\ run[s].pc = "not_ready_store" /\ run[s].item \in Items
            /\ uk'[run[s].item].lookups = run[s].copy.lookups
            /\ uk'[run[s].item].exposure = run[s].copy.exposure + 1
            /\ \A i \in Items \ {run[s].item} : uk'[i] = uk[i]
  <2>1. CASE \E k \in Items : NotReadyLoad(s, k)
    BY <2>1, RunReadsAgain DEF Running
  <2>2. CASE NotReadyStore(s) \/ NotReadyDone(s)
    BY <2>2, RunStoresTarget
  <2>. QED  BY <2>1, <2>2
<1>2. Running(s)' /\ Started(s)' = Started(s)
  BY <1>1 DEF Running, Started
<1>3. \A kind, i : /\ Begun(s, kind, i)' = Begun(s, kind, i) /\ Marked(kind, i)' = Marked(kind, i)
                   /\ FirstRead(s)' = FirstRead(s)
  BY <1>1, <1>2, MarkedStays
<1>4. \A i \in Items : Exposed(s, i)' <=> Exposed(s, i)
  BY <1>1, <1>2, <1>3 DEF Exposed
<1>5. ASSUME NEW i \in Items, CountedAlone(s, i) PROVE CountedAlone(s, i)'
  <2>1. CASE uk'[i] = uk[i]
    <3>1. CopyOf(s, i)' = CopyOf(s, i)
      BY <1>1, <2>1 DEF CopyOf
    <3>2. run'[s].pc = "not_ready_store" /\ run'[s].item = i => run'[s].copy = uk'[i]
      BY <1>1, <2>1
    <3>. QED  BY <1>3, <1>4, <1>5, <2>1, <3>1, <3>2 DEF CountedAlone
  <2>2. CASE /\ run'[s].pc # "not_ready_store" /\ run[s].pc = "not_ready_store" /\ run[s].item = i
             /\ uk'[i].lookups = run[s].copy.lookups /\ uk'[i].exposure = run[s].copy.exposure + 1
    <3>1. uk'[i].lookups = uk[i].lookups /\ uk'[i].exposure = uk[i].exposure + 1
      BY <1>5, <2>2 DEF CountedAlone
    <3>2. uk[i].lookups \in Nat /\ uk[i].exposure \in Nat /\ Words[s][i] \in Nat
      BY CopyIsRow
    <3>3. PICK more \in Nat : more = uk'[i].exposure /\ more >= uk[i].exposure
      BY <3>1, <3>2
    <3>4. CopyOf(s, i) = CopyOf(s, i)' \/ (CopyOf(s, i) = uk[i] /\ CopyOf(s, i)' = uk'[i])
      BY <1>1 DEF CopyOf
    <3>5. (~FirstRead(s) => more >= Words[s][i])
      BY <1>5, <3>2, <3>3 DEF CountedAlone
    <3>6. Exposed(s, i) => CopyOf(s, i)'.exposure >= Words[s][i]
      BY <1>5, <3>2, <3>3, <3>4 DEF CountedAlone
    <3>7. CopyOf(s, i)'.lookups = CopyOf(s, i).lookups
      BY <3>1, <3>4
    <3>. QED  BY <1>3, <1>4, <1>5, <2>2, <3>1, <3>3, <3>5, <3>6, <3>7 DEF CountedAlone
  <2>. QED  BY <1>1, <2>1, <2>2
<1>. QED  BY <1>1, <1>3, <1>5, StoryAfter

LEMMA StoryStores ==
    ASSUME KnowledgeInv, CountInv, NEW s \in Stories, StoryInv(s), UNCHANGED submission,
           NEW k \in Items, FlushRow(s, k)
    PROVE  StoryInv(s)'
<1>1. /\ UNCHANGED <<event, surface, rating>>
      /\ run[s].pc = "load" /\ run'[s].pc = "load" /\ run[s].load = {} /\ k \in run[s].items
      /\ run'[s].ids = run[s].ids /\ run'[s].left = run[s].left /\ run'[s].load = {}
      /\ run'[s].items = run[s].items \ {k}
      /\ \A i \in Items \ {k} : run'[s].rows[i] = run[s].rows[i] /\ uk'[i] = uk[i]
      /\ Alike(uk'[k], run[s].rows[k])
  BY RunFlushes
<1>2. Running(s) /\ Running(s)' /\ Started(s)' = Started(s)
  BY <1>1 DEF Running, Started
<1>3. \A kind, i : /\ Begun(s, kind, i)' = Begun(s, kind, i) /\ Marked(kind, i)' = Marked(kind, i)
                   /\ FirstRead(s)' = FirstRead(s)
  BY <1>1, <1>2, MarkedStays
<1>4. \A i \in Items : Exposed(s, i)
  BY <1>1, <1>2 DEF Exposed
<1>5. ASSUME NEW i \in Items, CountedAlone(s, i) PROVE CountedAlone(s, i)'
  <2>1. CASE i = k
    <3>1. /\ CopyOf(s, i)' = uk'[i]
          /\ uk'[i].lookups = CopyOf(s, i).lookups /\ uk'[i].exposure = CopyOf(s, i).exposure
      BY <1>1, <2>1 DEF CopyOf, Alike
    <3>2. CopyOf(s, i).lookups >= Cardinality(Marked("lookup", i))
      BY <1>5, CopyIsRow DEF CountedAlone
    <3>. QED  BY <1>1, <1>3, <1>4, <1>5, <3>1, <3>2 DEF CountedAlone
  <2>2. CASE i # k
    <3>1. CopyOf(s, i)' = CopyOf(s, i) /\ uk'[i] = uk[i]
      BY <1>1, <2>2 DEF CopyOf
    <3>. QED  BY <1>1, <1>3, <1>4, <1>5, <3>1 DEF CountedAlone
  <2>. QED  BY <2>1, <2>2
<1>. QED  BY <1>1, <1>3, <1>5, StoryAfter

LEMMA StoryMarks ==
    ASSUME KnowledgeInv, CountInv, NEW s \in Stories, StoryInv(s), UNCHANGED submission, MarkProcessed(s)
    PROVE  StoryInv(s)'
<1>1. PICK e \in run[s].ids :
         /\ UNCHANGED <<surface, rating, uk>> /\ e \in StoryEvents(s)
         /\ event[e] = "pending" /\ event'[e] = "processed" /\ \A f \in Events \ {e} : event'[f] = event[f]
         /\ run[s].pc = "load" /\ run'[s].pc = "load"
         /\ run[s].load = {} /\ run[s].left = {} /\ run[s].items = {}
         /\ run'[s].load = {} /\ run'[s].left = {} /\ run'[s].items = {}
         /\ run'[s].ids = run[s].ids \ {e}
  BY RunMarks
<1>2. Running(s) /\ Running(s)' /\ Started(s)' = Started(s) \ {e} /\ e \in Started(s)
  BY <1>1 DEF Running, Started
<1>3. \A kind, i : EventsOn(kind, i)' = EventsOn(kind, i)
  BY <1>1 DEF EventsOn, InLog
<1>4. \A kind, i : Begun(s, kind, i)' = Begun(s, kind, i)
  <2>. SUFFICES ASSUME NEW kind, NEW i, NEW f \in EventsOn(kind, i)
                PROVE  (event'[f] = "processed" \/ f \in Started(s)') <=> (event[f] = "processed" \/ f \in Started(s))
    BY <1>2, <1>3 DEF Begun
  <2>1. f \in Events
    BY DEF EventsOn
  <2>. QED  BY <1>1, <1>2, <2>1
<1>5. ASSUME NEW i \in Items, CountedAlone(s, i) PROVE CountedAlone(s, i)'
  <2>1. CopyOf(s, i) = uk[i] /\ CopyOf(s, i)' = uk[i] /\ uk'[i] = uk[i] /\ Exposed(s, i)
    BY <1>1, <1>2 DEF CopyOf, Exposed
  <2>2. PICK b, m \in Nat : b = Cardinality(Begun(s, "lookup", i)) /\ m = Cardinality(Marked("lookup", i)') /\ m <= b
    BY <1>4, WhatIsBegun, WhatIsBegunNext, EventCounts
  <2>3. uk[i].lookups >= b /\ uk[i].exposure >= Words[s][i] /\ uk[i].lookups \in Nat
    BY <1>5, <2>1, <2>2, CopyIsRow DEF CountedAlone
  <2>4. uk[i].lookups >= m
    BY <2>2, <2>3
  <2>. QED  BY <1>1, <1>4, <2>1, <2>2, <2>3, <2>4 DEF CountedAlone
<1>. QED  BY <1>1, <1>4, <1>5, StoryAfter

LEMMA StoryEnds ==
    ASSUME KnowledgeInv, CountInv, NEW s \in Stories, StoryInv(s), UNCHANGED submission,
           EndSignals(s) \/ FailSignals(s)
    PROVE  StoryInv(s)'
<1>1. UNCHANGED <<event, surface, rating, uk>> /\ run'[s].pc = "idle" /\ run'[s].items = {}
  BY RunEnds
<1>2. ~Running(s)'
  BY <1>1 DEF Running
<1>3. \A kind, i : /\ Begun(s, kind, i)' = Marked(kind, i) /\ Marked(kind, i)' = Marked(kind, i)
                   /\ Marked(kind, i) \subseteq Begun(s, kind, i) /\ FirstRead(s)' = FirstRead(s)
  BY <1>1, <1>2, MarkedStays, WhatIsBegun, WhatIsBegunNext
<1>4. ASSUME NEW i \in Items, CountedAlone(s, i) PROVE CountedAlone(s, i)'
  <2>1. CopyOf(s, i)' = uk[i] /\ uk'[i] = uk[i] /\ (Exposed(s, i)' => ~FirstRead(s))
    BY <1>1, <1>2, <1>3 DEF CopyOf, Exposed
  <2>. QED  BY <1>1, <1>3, <1>4, <2>1 DEF CountedAlone
<1>. QED  BY <1>1, <1>3, <1>4, StoryAfter

LEMMA StoryGoesOn ==
    ASSUME KnowledgeInv, CountInv, NEW s \in Stories, InTurn(s), StoryInv(s), surface \in [Items -> Nat],
           OnlyRead(s), UNCHANGED submission, SignalStep(s) \/ FailSignals(s)
    PROVE  StoryInv(s)'
<1>1. CASE StartSignals(s) \/ DeriveEvent(s) \/ \E k \in Items : LoadExposed(s, k)
  BY <1>1, StoryStarts, StoryDerives, StoryExposes
<1>2. CASE NotReadyStore(s) \/ NotReadyDone(s) \/ \E k \in Items : NotReadyLoad(s, k)
  BY <1>2, StoryReadsAgain
<1>3. CASE MarkProcessed(s) \/ EndSignals(s) \/ FailSignals(s) \/ \E k \in Items : FlushRow(s, k)
  BY <1>3, StoryMarks, StoryEnds, StoryStores
<1>. QED  BY <1>1, <1>2, <1>3 DEF SignalStep

-----------------------------------------------------------------------------
\* A story of which nothing is in the log has nothing to derive.
LEMMA UnreadRests ==
    ASSUME CountInv, NEW z \in Stories, \A e \in StoryEvents(z) : ~InLog(e)
    PROVE  PendingOf(z) = {} /\ ~Running(z)
<1>1. PendingOf(z) = {} /\ FirstRead(z)
  BY DEF PendingOf, InLog, FirstRead
<1>. QED  BY <1>1 DEF CountInv, RunShape

LEMMA UnreadWaits ==
    ASSUME CountInv, NEW z \in Stories, \A e \in StoryEvents(z) : ~InLog(e), SignalStep(z) \/ FailSignals(z)
    PROVE  UNCHANGED <<event, run, surface, rating, uk>>
<1>1. PendingOf(z) = {} /\ run[z].pc = "idle"
  BY UnreadRests DEF Running
<1>2. StartSignals(z)
  BY <1>1 DEF SignalStep, FailSignals, DeriveEvent, NotReadyStore, NotReadyDone, MarkProcessed, EndSignals,
              LoadExposed, NotReadyLoad, FlushRow
<1>. QED  BY <1>1, <1>2 DEF StartSignals

LEMMA StoryStays ==
    ASSUME KnowledgeInv, CountInv, NEW s \in Stories, StoryInv(s), run'[s] = run[s],
           \A e \in Events : event'[e] = event[e] \/ (event[e] = "unsent" /\ event'[e] = "pending"),
           surface \in [Items -> Nat], surface' \in [Items -> Nat],
           \A i \in Items : surface'[i] >= surface[i],
           \A i \in Items : OnlyReadersWrite(i)' => OnlyReadersWrite(i) /\ uk'[i] = uk[i]
    PROVE  StoryInv(s)'
<1>1. /\ Running(s)' = Running(s) /\ Started(s)' = Started(s)
      /\ Running(s) => \A e \in Started(s) : e \in Events /\ event[e] = "pending"
  BY EventNumbers DEF Running, Started, CountInv, RunShape, PendingOf, StoryEvents
<1>2. FirstRead(s)' = FirstRead(s)
  BY DEF FirstRead, StoryEvents
<1>3. ASSUME NEW kind, NEW i
      PROVE  Begun(s, kind, i)' = Begun(s, kind, i) /\ Marked(kind, i)' = Marked(kind, i)
  BY <1>1 DEF Begun, Marked, EventsOn, InLog
<1>4. ASSUME NEW i \in Items, OnlyReadersWrite(i)'
      PROVE  CountedAlone(s, i)'
  <2>1. CountedAlone(s, i) /\ uk'[i] = uk[i]
    BY <1>4 DEF StoryInv
  <2>2. CopyOf(s, i)' = CopyOf(s, i) /\ Exposed(s, i)' = Exposed(s, i)
    BY <1>1, <1>2, <2>1 DEF CopyOf, Exposed
  <2>. QED  BY <1>2, <1>3, <2>1, <2>2 DEF CountedAlone
<1>5. ASSUME NEW i \in Items, NEW e \in Begun(s, "rate", i)'
      PROVE  surface'[i] >= e
  <2>1. e \in Begun(s, "rate", i) /\ e \in Events
    BY <1>3, <1>5, WhatIsBegun
  <2>2. e \in Nat /\ surface[i] \in Nat /\ surface'[i] \in Nat /\ surface[i] >= e /\ surface'[i] >= surface[i]
    BY <2>1, EventNumbers DEF StoryInv
  <2>. QED  BY <2>2
<1>. QED  BY <1>4, <1>5 DEF StoryInv

LEMMA RatingStays ==
    ASSUME KnowledgeInv, NEW k \in Items, LoadForLevel(k) \/ StoreLevel(k),
           \A i \in Items : rating[i].given = 0 => rating[i].pc = "idle"
    PROVE  /\ UNCHANGED <<event, run, surface>>
           /\ \A i \in Items : /\ rating'[i].given = 0 => rating[i].given = 0 /\ uk'[i] = uk[i]
                               /\ rating'[i].given = 0 => rating'[i].pc = "idle"
<1>1. UNCHANGED <<event, run, surface>>
  BY DEF LoadForLevel, StoreLevel
<1>2. DOMAIN rating = Items /\ DOMAIN rating[k] = DOMAIN NoRating /\ DOMAIN uk = Items /\ rating[k].given \in Nat
  BY DEF KnowledgeInv, WriterTypeOK
<1>3. PICK old, given, row : old = rating[k] /\ given = old.given + 1 /\ row = uk[k]
  OBVIOUS
<1>4. CASE LoadForLevel(k)
  <2>1. UNCHANGED uk /\ rating' = [rating EXCEPT ![k].pc = "store", ![k].copy = row, ![k].given = given]
    BY <1>3, <1>4 DEF LoadForLevel
  <2>2. /\ \A i \in Items \ {k} : rating'[i] = rating[i]
        /\ rating'[k] = [old EXCEPT !.pc = "store", !.copy = row, !.given = given]
    BY <1>2, <1>3, <2>1
  <2>3. rating'[k].given = given
    BY <1>2, <1>3, <2>2 DEF NoRating
  <2>4. given # 0
    BY <1>2, <1>3
  <2>. QED  BY <1>1, <2>1, <2>2, <2>3, <2>4
<1>5. CASE StoreLevel(k)
  <2>1. PICK level, confident : /\ rating' = [rating EXCEPT ![k].pc = "idle", ![k].copy = ZeroRow, ![k].level = level]
                                /\ uk' = [uk EXCEPT ![k] = confident] /\ old.pc = "store"
    BY <1>3, <1>5 DEF StoreLevel, Refresh
  <2>2. /\ \A i \in Items \ {k} : rating'[i] = rating[i] /\ uk'[i] = uk[i]
        /\ rating'[k] = [old EXCEPT !.pc = "idle", !.copy = ZeroRow, !.level = level]
    BY <1>2, <1>3, <2>1
  <2>3. rating'[k].given = old.given /\ old.given # 0
    BY <1>2, <1>3, <2>1, <2>2 DEF NoRating
  <2>. QED  BY <1>1, <1>3, <2>2, <2>3
<1>. QED  BY <1>4, <1>5

\* A step of a submission is of no other one, and never takes it back.
LEMMA SubmissionMoves ==
    ASSUME submission \in [Signals -> SubmissionRow], NEW q \in Signals,
           SubmitStep(q) \/ SubmissionDies(q) \/ \E t \in Tasks : Submit(q, t)
    PROVE  /\ \A p \in Signals \ {q} : submission'[p] = submission[p]
           /\ submission'[q].pc # "idle"
           /\ submission[q].pc # "idle" => submission'[q].task = submission[q].task
<1>1. CASE \E t \in Tasks : Submit(q, t)
  <2>1. PICK t \in Tasks : Submit(q, t)
    BY <1>1
  <2>2. /\ submission[q].pc = "idle"
        /\ submission' = [submission EXCEPT ![q] = [NoSubmission EXCEPT
                             !.pc = "grade", !.task = t, !.content = task[t].content,
                             !.again = task[t].graded, !.before = task[t].graded /\ task[t].correct]]
    BY <2>1 DEF Submit
  <2>. QED  BY <2>2 DEF NoSubmission
<1>2. CASE Grade(q)
  <2>1. CASE submission' = [submission EXCEPT ![q].pc = "done"]
    BY <2>1 DEF SubmissionRow
  <2>2. ASSUME NEW correct, NEW shown,
               submission' = [submission EXCEPT ![q].pc = "record", ![q].correct = correct, ![q].shown = shown]
        PROVE  submission'[q].pc = "record" /\ submission'[q].task = submission[q].task
               /\ \A p \in Signals \ {q} : submission'[p] = submission[p]
    BY <2>2 DEF SubmissionRow
  <2>. QED  BY <1>2, <2>1, <2>2, Zenon DEF Grade
<1>3. CASE RecordTaskGrade(q) \/ BeginXP(q) \/ LearnSkills(q) \/ SubmissionDies(q)
  <2>1. PICK pc : submission' = [submission EXCEPT ![q].pc = pc] /\ pc # "idle"
    <3>1. PICK next : next = IF xpRun'[q].pc = "done" THEN "done" ELSE submission[q].pc
      OBVIOUS
    <3>2. ASSUME LearnSkills(q) PROVE submission' = [submission EXCEPT ![q].pc = next] /\ next # "idle"
      <4>1. submission' = [submission EXCEPT ![q].pc = IF xpRun'[q].pc = "done" THEN "done" ELSE @]
        BY <3>2 DEF LearnSkills
      <4>2. submission[q].pc = "xp"
        BY <3>2 DEF LearnSkills
      <4>. QED  BY <3>1, <4>1, <4>2
    <3>3. ASSUME RecordTaskGrade(q)
          PROVE  submission' = [submission EXCEPT ![q].pc = IF Improves(submission[q]) THEN "signal" ELSE "done"]
      BY <3>3 DEF RecordTaskGrade
    <3>4. ASSUME BeginXP(q) PROVE submission' = [submission EXCEPT ![q].pc = "xp"]
      BY <3>4 DEF BeginXP
    <3>5. ASSUME SubmissionDies(q) PROVE submission' = [submission EXCEPT ![q].pc = "dead"]
      BY <3>5 DEF SubmissionDies
    <3>. QED  BY <1>3, <3>2, <3>3, <3>4, <3>5
  <2>. QED  BY <2>1 DEF SubmissionRow
<1>4. CASE LearnItems(q)
  BY <1>4 DEF LearnItems, taskVars
<1>. QED  BY <1>1, <1>2, <1>3, <1>4 DEF SubmitStep

\* Verifications, reports and their jobs leave the answers alone.
LEMMA BesideAnswers ==
    ASSUME \/ \E k \in Skills : VerifyStep(k)
           \/ \E r \in Reports : \/ ReportTask(r) \/ ReportStep(r) \/ EnqueueRegenerationFails(r) \/ ReportDies(r)
                                 \/ RegenStep(r) \/ RegenDies(r)
    PROVE  UNCHANGED <<submission, acquireVars>>
  BY DEF VerifyStep, ReportTask, ReportStep, CreateReport, EnqueueRegeneration, RecordUnavailable,
         EnqueueRegenerationFails, ReportDies, RegenStep, RegenDies, RegenLoad, RegenWritesOutcome,
         RegenGenerate, ReplaceTaskContent, RegenFails, FailTaskRegeneration, RegenFinish, taskVars

LEMMA TasksStay ==
    ASSUME LearningInv, TaskNext, UNCHANGED readerVars
    PROVE  \A i \in Items : OnlyReadersWrite(i)' => OnlyReadersWrite(i) /\ uk'[i] = uk[i]
<1>1. /\ submission \in [Signals -> SubmissionRow] /\ DOMAIN uk = Items
      /\ UNCHANGED rating
  BY DEF LearningInv, TaskInv, TaskTypeOK, KnowledgeInv, WriterTypeOK, readerVars
<1>2. \A p \in Signals : submission[p].pc # "idle" =>
            submission'[p].pc # "idle" /\ submission'[p].task = submission[p].task
  <2>1. ASSUME NEW q \in Signals, SubmitStep(q) \/ SubmissionDies(q) \/ \E t \in Tasks : Submit(q, t),
               NEW p \in Signals, submission[p].pc # "idle"
        PROVE  submission'[p].pc # "idle" /\ submission'[p].task = submission[p].task
    <3>1. CASE p = q
      BY <1>1, <2>1, <3>1, SubmissionMoves
    <3>2. CASE p # q
      BY <1>1, <2>1, <3>2, SubmissionMoves
    <3>. QED  BY <3>1, <3>2
  <2>. QED  BY <2>1, BesideAnswers DEF TaskNext
<1>3. ASSUME NEW i \in Items, uk'[i] # uk[i]
      PROVE  \E q \in Signals : submission[q].pc # "idle" /\ i \in TargetsOf[submission[q].task]
  <2>1. PICK q \in Signals : LearnItems(q) /\ StoreForSignal(q)
    <3>1. ASSUME NEW q \in Signals, SubmitStep(q) \/ SubmissionDies(q) \/ \E t \in Tasks : Submit(q, t)
          PROVE  (LearnItems(q) /\ StoreForSignal(q)) \/ UNCHANGED uk
      <4>1. CASE Grade(q)
        BY <4>1, Zenon DEF Grade, acquireVars
      <4>2. CASE RecordTaskGrade(q)
        BY <4>2 DEF RecordTaskGrade, acquireVars
      <4>3. CASE LearnItems(q)
        BY <4>3 DEF LearnItems, ApplyTaskSignal, LoadForSignal
      <4>4. CASE BeginXP(q) \/ LearnSkills(q) \/ SubmissionDies(q) \/ \E t \in Tasks : Submit(q, t)
        BY <4>4 DEF BeginXP, LearnSkills, SubmissionDies, Submit, acquireVars
      <4>. QED  BY <3>1, <4>1, <4>2, <4>3, <4>4 DEF SubmitStep
    <3>. QED  BY <1>3, <3>1, BesideAnswers DEF TaskNext, acquireVars
  <2>2. /\ submission[q].pc = "signal" /\ signal[q].pc = "store"
        /\ \E row : uk' = [uk EXCEPT ![signal[q].item] = row]
    BY <2>1 DEF LearnItems, StoreForSignal, Refresh
  <2>3. signal[q].item = i
    BY <1>1, <1>3, <2>2
  <2>. QED  BY <2>2, <2>3 DEF LearningInv, SignalInv
<1>. QED  BY <1>1, <1>2, <1>3 DEF OnlyReadersWrite

-----------------------------------------------------------------------------
LEMMA LogOnlyGrows ==
    ASSUME NEW s \in Stories, OnlyRead(s)',
           \A e \in Events : event'[e] = event[e] \/ event'[e] \in {"pending", "processed"}
    PROVE  OnlyRead(s)
  BY DEF OnlyRead, InLog

LEMMA SurfaceStays ==
    ASSUME KnowledgeInv, CountInv, surface \in [Items -> Nat], NEW s \in Stories, SignalStep(s) \/ FailSignals(s)
    PROVE  surface' \in [Items -> Nat]
<1>1. CASE DeriveEvent(s)
  <2>1. Earliest(run[s].left) \in PendingOf(s)
    BY <1>1, RunDerives
  <2>2. Earliest(run[s].left) \in Nat
    BY <2>1, EventNumbers
  <2>3. \/ surface' = surface
        \/ surface' = [surface EXCEPT ![EventOf[Earliest(run[s].left)].item] = Earliest(run[s].left)]
    BY <1>1 DEF DeriveEvent
  <2>. QED  BY <2>2, <2>3
<1>2. CASE ~DeriveEvent(s)
  <2>1. surface' = surface
    BY <1>2 DEF SignalStep, FailSignals, StartSignals, NotReadyStore, NotReadyDone, MarkProcessed, EndSignals,
                LoadExposed, NotReadyLoad, FlushRow
  <2>. QED  BY <2>1
<1>. QED  BY <1>1, <1>2

LEMMA QuietInTurn ==
    ASSUME AloneInv, UNCHANGED <<event, run>>
    PROVE  \A z \in Stories : InTurn(z)'
<1>. SUFFICES ASSUME NEW z \in Stories PROVE InTurn(z)'
  OBVIOUS
<1>1. InTurn(z) /\ run'[z] = run[z] /\ \A e \in StoryEvents(z) : event'[e] = event[e]
  BY DEF AloneInv
<1>. QED  BY <1>1, OtherInTurn

LEMMA AloneSignals ==
    ASSUME KnowledgeInv, CountInv, AloneInv, UNCHANGED submission, NEW z \in Stories, SignalStep(z) \/ FailSignals(z)
    PROVE  AloneInv'
<1>1. /\ \A s \in Stories : InTurn(s)'
      /\ surface \in [Items -> Nat] /\ surface' \in [Items -> Nat] /\ rating' = rating
      /\ \A e \in Events : event'[e] = event[e] \/ (event[e] = "pending" /\ event'[e] = "processed")
  BY SignalsInTurn, SignalsOfOthers, SurfaceStays DEF AloneInv
<1>2. ASSUME NEW s \in Stories, OnlyRead(s)' PROVE StoryInv(s)'
  <2>1. OnlyRead(s)
    BY <1>1, <1>2, LogOnlyGrows
  <2>2. StoryInv(s) /\ InTurn(s)
    BY <2>1 DEF AloneInv
  <2>3. CASE z = s
    BY <1>1, <2>1, <2>2, <2>3, StoryGoesOn
  <2>4. CASE z # s
    <3>0. \A e \in StoryEvents(z) : ~InLog(e)
      BY <2>1, <2>4 DEF OnlyRead, StoryEvents
    <3>1. UNCHANGED <<event, run, surface, rating, uk>>
      BY <3>0, UnreadWaits
    <3>2. \A i \in Items : OnlyReadersWrite(i)' <=> OnlyReadersWrite(i)
      BY <3>1 DEF OnlyReadersWrite
    <3>3. \A i \in Items : surface'[i] >= surface[i]
      BY <1>1, <3>1
    <3>. QED  BY <1>1, <2>2, <3>1, <3>2, <3>3, StoryStays
  <2>. QED  BY <2>3, <2>4
<1>. QED  BY <1>1, <1>2 DEF AloneInv

\* The log grows, words are rated, tasks are answered.
LEMMA AloneBeside ==
    ASSUME LearningInv, CountInv, AloneInv,
           \/ UNCHANGED submission /\ \E z \in Stories, lost \in BOOLEAN : \E last \in StoryEvents(z) : Flush(z, last, lost) /\ UNCHANGED uk
           \/ UNCHANGED submission /\ \E k \in Items : LoadForLevel(k) \/ StoreLevel(k)
           \/ UNCHANGED submission /\ \E e \in Events : SetSurfaceLevel(e)
           \/ TaskNext /\ UNCHANGED readerVars
           \/ UNCHANGED learningVars
    PROVE  AloneInv'
<1>0. KnowledgeInv
  BY DEF LearningInv
<1>1. /\ run' = run /\ surface' \in [Items -> Nat] /\ \A i \in Items : surface'[i] >= surface[i]
      /\ \A e \in Events : event'[e] = event[e] \/ (event[e] = "unsent" /\ event'[e] = "pending")
      /\ \A s \in Stories : InTurn(s)'
      /\ \A i \in Items : OnlyReadersWrite(i)' => OnlyReadersWrite(i) /\ uk'[i] = uk[i]
      /\ \A i \in Items : rating'[i].given = 0 => rating'[i].pc = "idle"
  <2>0. /\ surface \in [Items -> Nat] /\ \A s \in Stories : InTurn(s)
        /\ \A i \in Items : rating[i].given = 0 => rating[i].pc = "idle"
    BY DEF AloneInv
  <2>00. surface' = surface => surface' \in [Items -> Nat] /\ \A i \in Items : surface'[i] >= surface[i]
    BY <2>0
  <2>1. CASE UNCHANGED submission /\ \E z \in Stories, lost \in BOOLEAN : \E last \in StoryEvents(z) : Flush(z, last, lost) /\ UNCHANGED uk
    <3>1. PICK z \in Stories, lost \in BOOLEAN : \E last \in StoryEvents(z) : Flush(z, last, lost) /\ UNCHANGED uk
      BY <2>1
    <3>2. PICK last \in StoryEvents(z) : Flush(z, last, lost) /\ UNCHANGED uk
      BY <3>1
    <3>3. /\ UNCHANGED <<run, surface, rating, submission, uk>>
          /\ event' = [e \in Events |-> IF e \in StoryEvents(z) /\ e <= last /\ event[e] = "unsent"
                                        THEN "pending" ELSE event[e]]
      BY <2>1, <3>2 DEF Flush
    <3>4. ASSUME NEW s \in Stories PROVE InTurn(s)'
      <4>1. CASE s = z
        BY <1>0, <2>0, <3>2, <4>1, FlushInTurn
      <4>2. CASE s # z
        <5>1. \A e \in StoryEvents(s) : event'[e] = event[e]
          BY <3>3, <4>2 DEF StoryEvents
        <5>. QED  BY <2>0, <3>3, <5>1, OtherInTurn
      <4>. QED  BY <4>1, <4>2
    <3>. QED  BY <2>0, <2>00, <3>3, <3>4 DEF OnlyReadersWrite
  <2>2. CASE UNCHANGED submission /\ \E k \in Items : LoadForLevel(k) \/ StoreLevel(k)
    <3>1. /\ UNCHANGED <<event, run, surface>>
          /\ \A i \in Items : /\ rating'[i].given = 0 => rating[i].given = 0 /\ uk'[i] = uk[i]
                              /\ rating'[i].given = 0 => rating'[i].pc = "idle"
      BY <1>0, <2>0, <2>2, RatingStays
    <3>. QED  BY <2>00, <2>2, <3>1, QuietInTurn DEF OnlyReadersWrite
  <2>3. CASE UNCHANGED submission /\ \E e \in Events : SetSurfaceLevel(e)
    <3>1. PICK e \in Events : SetSurfaceLevel(e)
      BY <2>3
    <3>2. PICK i : i = EventOf[e].item
      OBVIOUS
    <3>3. /\ UNCHANGED <<event, run, rating, uk, submission>>
          /\ surface[i] < e /\ surface' = [surface EXCEPT ![i] = e]
      BY <2>3, <3>1, <3>2 DEF SetSurfaceLevel
    <3>4. surface' \in [Items -> Nat] /\ \A k \in Items : surface'[k] >= surface[k]
      <4>1. e \in Nat /\ \A k \in Items : surface[k] \in Nat
        BY <2>0, EventNumbers
      <4>2. \A k \in Items : surface'[k] = IF k = i THEN e ELSE surface[k]
        BY <2>0, <3>3
      <4>3. surface' \in [Items -> Nat]
        BY <2>0, <3>3, <4>1
      <4>4. ASSUME NEW k \in Items PROVE surface'[k] >= surface[k]
        <5>1. surface[k] \in Nat /\ surface'[k] = IF k = i THEN e ELSE surface[k]
          BY <4>1, <4>2
        <5>2. k = i => surface[k] < e
          BY <3>3
        <5>. QED  BY <4>1, <5>1, <5>2
      <4>. QED  BY <4>3, <4>4
    <3>5. UNCHANGED <<event, run, rating, uk, submission>>
      BY <3>3
    <3>6. \A k \in Items : OnlyReadersWrite(k)' <=> OnlyReadersWrite(k)
      BY <3>5 DEF OnlyReadersWrite
    <3>. QED  BY <2>0, <3>4, <3>5, <3>6, QuietInTurn
  <2>4. CASE TaskNext /\ UNCHANGED readerVars
    <3>1. UNCHANGED <<event, run, surface, rating>>
      BY <2>4 DEF readerVars
    <3>. QED  BY <2>0, <2>00, <2>4, <3>1, QuietInTurn, TasksStay
  <2>5. CASE UNCHANGED learningVars
    <3>1. UNCHANGED <<event, run, surface, rating, submission, uk>>
      BY <2>5 DEF learningVars, readerVars, taskVars, acquireVars
    <3>. QED  BY <2>0, <2>00, <3>1, QuietInTurn DEF OnlyReadersWrite
  <2>. QED  BY <2>1, <2>2, <2>3, <2>4, <2>5
<1>2. ASSUME NEW s \in Stories, OnlyRead(s)' PROVE StoryInv(s)'
  <2>1. StoryInv(s) /\ surface \in [Items -> Nat]
    BY <1>1, <1>2, LogOnlyGrows DEF AloneInv
  <2>. QED  BY <1>0, <1>1, <2>1, StoryStays
<1>. QED  BY <1>1, <1>2 DEF AloneInv

LEMMA InitialAlone == LearningInit => AloneInv
<1>. SUFFICES ASSUME LearningInit PROVE AloneInv
  OBVIOUS
<1>1. /\ event = [e \in Events |-> "unsent"] /\ run = [s \in Stories |-> NoRun]
      /\ surface = [i \in Items |-> 0] /\ rating = [i \in Items |-> NoRating]
      /\ uk = [i \in Items |-> ZeroRow]
  BY DEF LearningInit, AcquireInit, ReaderInit
<1>2. \A s \in Stories : InTurn(s) /\ ~Running(s) /\ run[s].items = {} /\ FirstRead(s) /\ run[s].pc = "idle"
  BY <1>1 DEF InTurn, Running, InLog, StoryEvents, NoRun, FirstRead
<1>3. \A s \in Stories : \A kind, i : Begun(s, kind, i) = {} /\ Marked(kind, i) = {}
  BY <1>1, <1>2 DEF Begun, Marked, EventsOn
<1>4. \A s \in Stories, i \in Items : CountedAlone(s, i)
  <2>1. Cardinality({}) = 0
    BY FS_EmptySet
  <2>2. ZeroRow.lookups = 0
    BY DEF ZeroRow
  <2>3. ASSUME NEW s \in Stories, NEW i \in Items
        PROVE  CopyOf(s, i) = ZeroRow /\ uk[i] = ZeroRow /\ ~Exposed(s, i)
    BY <1>1, <1>2 DEF CopyOf, Exposed
  <2>. QED  BY <1>2, <1>3, <2>1, <2>2, <2>3 DEF CountedAlone
<1>. QED  BY <1>1, <1>2, <1>3, <1>4 DEF AloneInv, StoryInv, NoRating

LEMMA AloneStep == LearningInv /\ CountInv /\ AloneInv /\ [LearningNext]_learningVars => AloneInv'
<1>. SUFFICES ASSUME LearningInv, CountInv, AloneInv, [LearningNext]_learningVars PROVE AloneInv'
  OBVIOUS
<1>1. CASE ReaderNext /\ UNCHANGED <<signal, taskVars, skillVars>>
  <2>1. UNCHANGED submission
    BY <1>1 DEF taskVars
  <2>2. ASSUME NEW s \in Stories, SignalStep(s) \/ FailSignals(s) PROVE AloneInv'
    BY <2>1, <2>2, AloneSignals DEF LearningInv
  <2>. QED  BY <1>1, <2>1, <2>2, AloneBeside DEF ReaderNext
<1>2. CASE (TaskNext /\ UNCHANGED readerVars) \/ UNCHANGED learningVars
  BY <1>2, AloneBeside
<1>. QED  BY <1>1, <1>2 DEF LearningNext

\* While one story is all that is read, its events are worked off in order, and nothing is
\* marked that a row, or taken up that the run's copy of it, does not count
\* (reader/service.go ProcessPendingEvents).
THEOREM AloneInvariant == LearningSpec => [](LearningInv /\ CountInv /\ AloneInv)
<1>1. LearningInit => LearningInv /\ CountInv /\ AloneInv
  BY InitialLearning, InitialCounts, InitialAlone
<1>2. LearningInv /\ CountInv /\ AloneInv /\ [LearningNext]_learningVars => (LearningInv /\ CountInv /\ AloneInv)'
  BY LearningStep, CountStep, AloneStep
<1>. QED  BY <1>1, <1>2, PTL DEF LearningSpec

\* Every word of the only story that is read is counted once it is marked, and shows the
\* latest rating given there once all is marked, also after runs that failed
\* (reader/service.go ProcessPendingEvents, jobs/reader_signals.go).
THEOREM OneStoryCounts == LearningSpec => []OneStoryIsCounted
<1>1. LearningInv /\ CountInv /\ AloneInv => OneStoryIsCounted
  <2>. SUFFICES ASSUME LearningInv, CountInv, AloneInv, NEW s \in Stories, OnlyRead(s), NEW i \in Items
                PROVE  RatingsSettle(i, s) /\ (OnlyReadersWrite(i) => ProcessedIsCounted(i, s))
    BY DEF OneStoryIsCounted
  <2>1. StoryInv(s)
    BY DEF AloneInv
  <2>2. OnlyReadersWrite(i) => ProcessedIsCounted(i, s)
    BY <2>1 DEF StoryInv, CountedAlone, ProcessedIsCounted, Marked
  <2>3. RatingsSettle(i, s)
    <3>. SUFFICES ASSUME \A e \in StoryEvents(s) : event[e] = "processed", NEW e \in EventsOn("rate", i)
                  PROVE  surface[i] >= e
      BY DEF RatingsSettle
    <3>1. e \in StoryEvents(s)
      BY DEF EventsOn, OnlyRead, StoryEvents
    <3>. QED  BY <2>1, <3>1 DEF StoryInv, Begun
  <2>. QED  BY <2>2, <2>3
<1>. QED  BY <1>1, AloneInvariant, PTL

-----------------------------------------------------------------------------
\* What is proved about the parts holds of the whole: the work on tasks and the skills
\* change as TaskWork and SkillXp say, whatever the learner reads (handler/tasks.go,
\* handler/task_reports.go, skills/service.go).
THEOREM LearningImplements == LearningSpec => TaskSpec /\ SkillSpec
<1>1. LearningInit => TaskInit /\ SkillInit
  BY DEF LearningInit
<1>2. LearningInv /\ [LearningNext]_learningVars => [TaskNext]_taskVars
  BY DEF LearningNext, learningVars
<1>3. LearningInv /\ [LearningNext]_learningVars => [SkillNext]_skillVars
  <2>. SUFFICES ASSUME LearningInv, LearningNext, ~UNCHANGED skillVars PROVE SkillNext
    BY DEF learningVars
  <2>1. TaskNext
    BY DEF LearningNext
  <2>2. ASSUME NEW k \in Skills, VerifyStep(k) PROVE SkillNext
    BY <2>2 DEF VerifyStep, SkillNext
  <2>3. ASSUME NEW q \in Signals, SubmitStep(q) \/ SubmissionDies(q) \/ \E t \in Tasks : Submit(q, t) PROVE SkillNext
    <3>1. CASE LearnSkills(q)
      BY <3>1, CreditAssumption DEF LearnSkills, SkillNext
    <3>2. CASE BeginXP(q)
      <4>1. submission \in [Signals -> SubmissionRow]
        BY DEF LearningInv, TaskInv, TaskTypeOK
      <4>2. PICK t, shown, correct, base :
               /\ t = submission[q].task /\ shown = submission[q].shown /\ correct = submission[q].correct
               /\ base = BaseXP[t]
        OBVIOUS
      <4>3. /\ BeginXPRun(q, TargetsOf[t], shown, correct, base)
            /\ UNCHANGED <<xp, verify, verifier, confirmed>>
        BY <3>2, <4>2 DEF BeginXP
      <4>4. /\ TargetsOf[t] \in SUBSET DOMAIN SkillsOf /\ shown \in SUBSET DOMAIN SkillsOf
            /\ correct \in BOOLEAN /\ base \in Nat /\ q \in Learners
        BY <4>1, <4>2, TaskAssumption, CreditAssumption DEF SubmissionRow
      <4>. QED  BY <4>3, <4>4 DEF SkillNext
    <3>3. UNCHANGED skillVars \/ LearnSkills(q) \/ BeginXP(q)
      <4>1. CASE Grade(q)
        BY <4>1, Zenon DEF Grade
      <4>2. CASE RecordTaskGrade(q)
        BY <4>2 DEF RecordTaskGrade
      <4>3. CASE LearnItems(q) \/ SubmissionDies(q) \/ \E t \in Tasks : Submit(q, t)
        BY <4>3 DEF LearnItems, SubmissionDies, Submit
      <4>. QED  BY <2>3, <4>1, <4>2, <4>3 DEF SubmitStep
    <3>. QED  BY <3>1, <3>2, <3>3
  <2>4. ASSUME NEW r \in Reports, \/ ReportTask(r) \/ ReportStep(r) \/ EnqueueRegenerationFails(r) \/ ReportDies(r)
                                 \/ RegenStep(r) \/ RegenDies(r)
        PROVE  UNCHANGED skillVars
    BY <2>4 DEF ReportTask, ReportStep, CreateReport, EnqueueRegeneration, RecordUnavailable,
         EnqueueRegenerationFails, ReportDies, RegenStep, RegenDies, RegenLoad, RegenWritesOutcome,
         RegenGenerate, ReplaceTaskContent, RegenFails, FailTaskRegeneration, RegenFinish
  <2>. QED  BY <2>1, <2>2, <2>3, <2>4 DEF TaskNext
<1>. QED  BY <1>1, <1>2, <1>3, LearningInvariant, PTL DEF LearningSpec, TaskSpec, SkillSpec

-----------------------------------------------------------------------------
\* Nothing is read and no word rated; the submission is the only one, and nothing failed.
NothingRead == (\A e \in Events : ~InLog(e)) /\ (\A i \in Items : rating[i].given = 0)
Lone(q) == faults = 0 /\ \A p \in Signals \ {q} : submission[p].pc = "idle"

\* Its way through submitTask: it is a first answer, and nothing it was shown to know has
\* been stored without its mark.
AnswerInv(q) ==
    LET sub == submission[q] IN
    /\ sub.pc # "dead"
    /\ sub.shown \subseteq TargetsOf[sub.task]
    /\ sub.pc \in {"grade", "record"} => ~sub.again
    /\ sub.pc \in {"idle", "grade"} => ~sub.correct
    /\ sub.pc = "signal" => signal[q].shown = sub.shown
    /\ NothingRead /\ (sub.pc \in {"signal", "xp"} \/ (sub.pc = "done" /\ sub.correct))
          => \A i \in sub.shown : Awaits(q, i) \/ uk[i].correct >= 1

NoSkills == \A k \in Skills : xp[k] = ZeroXP /\ verify[k] = NoVerify

\* A rejected tier leaves some experience.
RejectionsLeave == verifier = "none" \/ XPPerTier > 1

Earned(items) ==
    \A k \in Skills : /\ xp[k] = ZeroXP \/ xp[k].xp > 0
                      /\ k \in SkillsOfItems(items) => xp[k].xp > 0
                      /\ xp[k].pending => xp[k].tier > 0
                      /\ verify[k].status = "running" => verify[k].copy.xp > 0 /\ verify[k].copy.tier > 0

\* Its way through the skills, the first there are.
EarningInv(q) ==
    LET sub == submission[q] IN
    /\ sub.pc \in {"idle", "grade", "record", "signal"} => xpRun[q].pc = "idle"
    /\ sub.pc = "xp" => xpRun[q].pc \in {"load", "store", "enqueue"}
    /\ sub.pc = "done" /\ sub.correct => xpRun[q].pc = "done"
    /\ xpRun[q].pc \in {"idle", "load", "store"} => NoSkills
    /\ xpRun[q].pc \in {"load", "store"} =>
          /\ xpRun[q].items = TargetsOf[sub.task] /\ xpRun[q].shown = sub.shown
          /\ xpRun[q].base = BaseXP[sub.task]
    /\ xpRun[q].pc = "store" => \A k \in Skills : xpRun[q].current[k] = ZeroXP
    /\ xpRun[q].pc \in {"enqueue", "done"} /\ RejectionsLeave => Earned(sub.shown)

LoneInv ==
    /\ \A q \in Learners : DOMAIN xpRun[q] = DOMAIN NoXPRun
    /\ \A q \in Signals : Lone(q) => AnswerInv(q) /\ EarningInv(q)

-----------------------------------------------------------------------------
\* A learner who reads nothing leaves the rows to the answers.
LEMMA ReadingWaits ==
    ASSUME LearningInv, CountInv, AloneInv, ReaderNext
    PROVE  NothingRead' => NothingRead /\ \A i \in Items : uk'[i] = uk[i]
<1>0. KnowledgeInv /\ \A i \in Items : rating[i].given = 0 => rating[i].pc = "idle"
  BY DEF LearningInv, AloneInv
<1>1. CASE \E s \in Stories : \E last \in StoryEvents(s), lost \in BOOLEAN : Flush(s, last, lost) /\ UNCHANGED uk
  <2>1. /\ UNCHANGED <<rating, uk>>
        /\ \A e \in Events : event'[e] = event[e] \/ event'[e] = "pending"
    BY <1>1 DEF Flush
  <2>. QED  BY <2>1 DEF NothingRead, InLog
<1>2. ASSUME NEW s \in Stories, SignalStep(s) \/ FailSignals(s), NothingRead'
      PROVE  NothingRead /\ \A i \in Items : uk'[i] = uk[i]
  <2>1. NothingRead
    BY <1>0, <1>2, SignalsOfOthers DEF NothingRead, InLog
  <2>2. \A e \in StoryEvents(s) : ~InLog(e)
    BY <2>1 DEF NothingRead, StoryEvents
  <2>3. uk' = uk
    BY <1>2, <2>2, UnreadWaits
  <2>. QED  BY <2>1, <2>3
<1>3. ASSUME NEW k \in Items, LoadForLevel(k) \/ StoreLevel(k), NothingRead'
      PROVE  NothingRead /\ \A i \in Items : uk'[i] = uk[i]
  <2>1. event' = event /\ \A i \in Items : rating'[i].given = 0 => rating[i].given = 0 /\ uk'[i] = uk[i]
    BY <1>0, <1>3, RatingStays
  <2>. QED  BY <1>3, <2>1 DEF NothingRead, InLog
<1>4. CASE \E e \in Events : SetSurfaceLevel(e)
  BY <1>4 DEF SetSurfaceLevel, NothingRead, InLog
<1>. QED  BY <1>1, <1>2, <1>3, <1>4 DEF ReaderNext

LEMMA AnswerRests ==
    ASSUME submission \in [Signals -> SubmissionRow], NEW q \in Signals, AnswerInv(q),
           submission'[q] = submission[q], signal'[q] = signal[q],
           NothingRead' => NothingRead /\ \A i \in Items : uk'[i] = uk[i]
    PROVE  AnswerInv(q)'
<1>1. submission[q].shown \subseteq Items
  BY DEF SubmissionRow
<1>2. \A i : Awaits(q, i)' = Awaits(q, i)
  BY DEF Awaits
<1>. QED  BY <1>1, <1>2 DEF AnswerInv

LEMMA EarningRests ==
    ASSUME NEW q \in Signals, EarningInv(q), submission'[q] = submission[q], UNCHANGED skillVars
    PROVE  EarningInv(q)'
  BY DEF EarningInv, skillVars, NoSkills, Earned, RejectionsLeave

LEMMA BelowTier == XPPerTier > 1 => \A n \in Nat \ {0} : AtLeast(n * XPPerTier - 1, 0) > 0
<1>. SUFFICES ASSUME XPPerTier > 1, NEW n \in Nat \ {0} PROVE AtLeast(n * XPPerTier - 1, 0) > 0
  OBVIOUS
<1>1. PICK m \in Nat : n = m + 1
  <2>1. n - 1 \in Nat /\ n = (n - 1) + 1
    OBVIOUS
  <2>. QED  BY <2>1
<1>2. PICK p \in Nat : p = m * XPPerTier
  BY XPAssumption
<1>3. PICK q : q = n * XPPerTier
  OBVIOUS
<1>4. q = p + XPPerTier
  BY <1>1, <1>2, <1>3, XPAssumption
<1>5. q - 1 \in Nat /\ q - 1 > 0
  BY <1>2, <1>4, XPAssumption
<1>6. AtLeast(q - 1, 0) > 0
  BY <1>5 DEF AtLeast
<1>. QED  BY <1>3, <1>6

\* Verifications wait until something was earned.
LEMMA VerifyingEarns ==
    ASSUME SkillInv, NEW q \in Signals, EarningInv(q), submission'[q] = submission[q],
           NEW k \in Skills, VerifySkill(k)
    PROVE  EarningInv(q)' /\ xpRun' = xpRun
<1>0. /\ verify \in [Skills -> [status : {"none", "queued", "running"}, copy : XPRow]]
      /\ xp \in [Skills -> XPRow]
  BY DEF SkillInv, SkillTypeOK
<1>1. UNCHANGED <<xpRun, verifier>> /\ verify[k].status # "none"
  BY DEF VerifySkill, StartVerify, Promote, Reject, VerifyFails
<1>2. ~NoSkills
  BY <1>1 DEF NoSkills, NoVerify
<1>3. ASSUME NEW items, Earned(items), RejectionsLeave PROVE Earned(items)'
  <2>1. CASE StartVerify(k)
    <3>1. /\ UNCHANGED xp /\ \A j \in Skills \ {k} : verify'[j] = verify[j]
          /\ verify'[k] = IF xp[k].pending THEN [status |-> "running", copy |-> xp[k]] ELSE NoVerify
      BY <1>0, <2>1 DEF StartVerify
    <3>2. xp[k].pending => xp[k].xp > 0 /\ xp[k].tier > 0
      BY <1>3 DEF Earned, ZeroXP
    <3>3. verify'[k].status = "running" => verify'[k].copy.xp > 0 /\ verify'[k].copy.tier > 0
      BY <3>1, <3>2 DEF NoVerify
    <3>. QED  BY <1>3, <3>1, <3>3 DEF Earned
  <2>2. CASE Promote(k)
    <3>1. PICK row \in XPRow : row = verify[k].copy
      BY <1>0
    <3>2. /\ verify[k].status = "running" /\ xp' = [xp EXCEPT ![k] = [row EXCEPT !.pending = FALSE]]
          /\ verify' = [verify EXCEPT ![k] = NoVerify]
      BY <2>2, <3>1 DEF Promote
    <3>3. /\ row.xp > 0 /\ xp'[k].xp = row.xp /\ ~xp'[k].pending /\ verify'[k].status = "none"
          /\ \A j \in Skills \ {k} : xp'[j] = xp[j] /\ verify'[j] = verify[j]
      BY <1>0, <1>3, <3>1, <3>2 DEF Earned, XPRow, NoVerify
    <3>. QED  BY <1>3, <3>3 DEF Earned
  <2>3. CASE Reject(k)
    <3>1. PICK row \in XPRow : row = verify[k].copy
      BY <1>0
    <3>2. /\ verify[k].status = "running" /\ verifier = "llm"
          /\ xp' = [xp EXCEPT ![k] = RejectedRow(row)] /\ verify' = [verify EXCEPT ![k] = NoVerify]
      BY <2>3, <3>1 DEF Reject
    <3>3. row.tier \in Nat \ {0} /\ XPPerTier > 1
      BY <1>3, <3>1, <3>2 DEF Earned, XPRow, RejectionsLeave
    <3>4. /\ xp'[k].xp > 0 /\ ~xp'[k].pending /\ verify'[k].status = "none"
          /\ \A j \in Skills \ {k} : xp'[j] = xp[j] /\ verify'[j] = verify[j]
      BY <1>0, <3>2, <3>3, BelowTier DEF RejectedRow, NoVerify
    <3>. QED  BY <1>3, <3>4 DEF Earned
  <2>4. CASE VerifyFails(k)
    <3>1. PICK next \in {"queued", "none"} : verify' = [verify EXCEPT ![k] = [NoVerify EXCEPT !.status = next]]
      BY <2>4 DEF VerifyFails
    <3>2. verify'[k].status = next /\ xp' = xp /\ \A j \in Skills \ {k} : verify'[j] = verify[j]
      BY <1>0, <2>4, <3>1 DEF VerifyFails, NoVerify
    <3>. QED  BY <1>3, <3>2 DEF Earned
  <2>. QED  BY <2>1, <2>2, <2>3, <2>4 DEF VerifySkill
<1>4. RejectionsLeave' = RejectionsLeave
  BY <1>1 DEF RejectionsLeave
<1>. QED  BY <1>1, <1>2, <1>3, <1>4 DEF EarningInv

-----------------------------------------------------------------------------
\* The answer itself.
LEMMA SubmittedAlone ==
    ASSUME LearningInv, NEW q \in Signals, Lone(q), AnswerInv(q), EarningInv(q), NEW t \in Tasks, Submit(q, t),
           UNCHANGED readerVars
    PROVE  AnswerInv(q)' /\ EarningInv(q)'
<1>1. /\ submission \in [Signals -> SubmissionRow] /\ AttemptInv
  BY DEF LearningInv, TaskInv, TaskTypeOK
<1>2. /\ submission[q].pc = "idle" /\ UNCHANGED <<acquireVars, skillVars>>
      /\ submission' = [submission EXCEPT ![q] = [NoSubmission EXCEPT
                             !.pc = "grade", !.task = t, !.content = task[t].content,
                             !.again = task[t].graded, !.before = task[t].graded /\ task[t].correct]]
  BY DEF Submit
<1>3. GradedOf(t) = {}
  BY <1>2 DEF GradedOf, Graded, Lone
<1>4. ~task[t].graded
  BY <1>1, <1>3 DEF AttemptInv
<1>5. /\ submission'[q].pc = "grade" /\ ~submission'[q].again /\ ~submission'[q].correct
      /\ submission'[q].shown = {}
  BY <1>1, <1>2, <1>4 DEF NoSubmission
<1>6. AnswerInv(q)'
  BY <1>5 DEF AnswerInv
<1>7. xpRun[q].pc = "idle" /\ NoSkills /\ NoSkills' /\ xpRun' = xpRun
  BY <1>2 DEF EarningInv, NoSkills, skillVars
<1>. QED  BY <1>5, <1>6, <1>7 DEF EarningInv

LEMMA GradedAlone ==
    ASSUME LearningInv, NEW q \in Signals, AnswerInv(q), EarningInv(q), Grade(q)
    PROVE  AnswerInv(q)' /\ EarningInv(q)'
<1>0. submission \in [Signals -> SubmissionRow]
  BY DEF LearningInv, TaskInv, TaskTypeOK
<1>1. submission[q].pc = "grade" /\ UNCHANGED <<acquireVars, skillVars>>
  BY Zenon DEF Grade
<1>2. xpRun[q].pc = "idle" /\ NoSkills /\ NoSkills' /\ xpRun' = xpRun
  BY <1>1 DEF EarningInv, NoSkills, skillVars
<1>3. ASSUME submission'[q].pc \in {"record", "done"}, submission'[q].task = submission[q].task,
             submission'[q].again = submission[q].again, submission'[q].shown \subseteq TargetsOf[submission[q].task],
             submission'[q].pc = "done" => ~submission'[q].correct
      PROVE  AnswerInv(q)' /\ EarningInv(q)'
  <2>1. AnswerInv(q)'
    BY <1>1, <1>3 DEF AnswerInv
  <2>. QED  BY <1>2, <1>3, <2>1 DEF EarningInv
<1>4. CASE submission' = [submission EXCEPT ![q].pc = "done"]
  <2>1. ~submission[q].correct /\ submission[q].shown \subseteq TargetsOf[submission[q].task]
    BY <1>1 DEF AnswerInv
  <2>2. /\ submission'[q].pc = "done" /\ submission'[q].task = submission[q].task
        /\ submission'[q].again = submission[q].again /\ submission'[q].shown = submission[q].shown
        /\ submission'[q].correct = submission[q].correct
    BY <1>0, <1>4 DEF SubmissionRow
  <2>. QED  BY <1>3, <2>1, <2>2
<1>5. ASSUME NEW g \in GradesOf(submission[q].task),
             submission' = [submission EXCEPT ![q].pc = "record", ![q].correct = g[1], ![q].shown = g[2]]
      PROVE  AnswerInv(q)' /\ EarningInv(q)'
  <2>1. PICK correct, shown : correct = g[1] /\ shown = g[2]
    OBVIOUS
  <2>2. shown \subseteq TargetsOf[submission[q].task]
    <3>. DEFINE targets == TargetsOf[submission[q].task]
    <3>1. CASE RuleGraded[submission[q].task]
      <4>1. g \in {<<TRUE, targets>>, <<FALSE, {}>>}
        BY <1>5, <3>1, Zenon DEF GradesOf
      <4>. HIDE DEF targets
      <4>2. g = <<TRUE, targets>> \/ g = <<FALSE, {}>>
        BY <4>1
      <4>3. g[2] = targets \/ g[2] = {}
        <5>1. CASE g = <<TRUE, targets>>
          BY <5>1
        <5>2. CASE g = <<FALSE, {}>>
          BY <5>2
        <5>. QED  BY <4>2, <5>1, <5>2
      <4>. QED  BY <2>1, <4>3 DEF targets
    <3>2. CASE ~RuleGraded[submission[q].task]
      <4>1. g \in BOOLEAN \X SUBSET targets
        BY <1>5, <3>2, Zenon DEF GradesOf
      <4>. HIDE DEF targets
      <4>2. g[2] \in SUBSET targets
        BY <4>1
      <4>. QED  BY <2>1, <4>2 DEF targets
    <3>. QED  BY <3>1, <3>2
  <2>3. /\ submission'[q].pc = "record" /\ submission'[q].task = submission[q].task
        /\ submission'[q].again = submission[q].again /\ submission'[q].shown = shown
    BY <1>0, <1>5, <2>1 DEF SubmissionRow
  <2>. QED  BY <1>3, <2>2, <2>3
<1>6. \/ \E g \in GradesOf(submission[q].task) :
              submission' = [submission EXCEPT ![q].pc = "record", ![q].correct = g[1], ![q].shown = g[2]]
      \/ submission' = [submission EXCEPT ![q].pc = "done"]
  BY Zenon DEF Grade
<1>. QED  BY <1>4, <1>5, <1>6

LEMMA RecordedAlone ==
    ASSUME LearningInv, NEW q \in Signals, AnswerInv(q), EarningInv(q), RecordTaskGrade(q)
    PROVE  AnswerInv(q)' /\ EarningInv(q)'
<1>0. submission \in [Signals -> SubmissionRow] /\ DOMAIN signal = Signals
  BY DEF LearningInv, TaskInv, TaskTypeOK, KnowledgeInv, WriterTypeOK
<1>1. PICK old \in SubmissionRow : old = submission[q]
  BY <1>0
<1>2. old.pc = "record" /\ ~old.again /\ old.shown \subseteq TargetsOf[old.task] /\ Improves(old)
  BY <1>1 DEF AnswerInv, RecordTaskGrade, Improves
<1>3. /\ submission' = [submission EXCEPT ![q].pc = "signal"]
      /\ BeginSignal(q, TargetsOf[old.task], old.shown) /\ UNCHANGED skillVars
  BY <1>1, <1>2 DEF RecordTaskGrade
<1>4. submission'[q] = [old EXCEPT !.pc = "signal"]
  BY <1>0, <1>1, <1>3
<1>5. /\ submission'[q].pc = "signal" /\ submission'[q].shown = old.shown /\ submission'[q].task = old.task
  BY <1>4 DEF SubmissionRow
<1>6. /\ signal'[q].left = TargetsOf[old.task] /\ signal'[q].shown = old.shown
  <2>1. PICK targets, shown : targets = TargetsOf[old.task] /\ shown = old.shown
    OBVIOUS
  <2>2. signal'[q] = [NoSignal EXCEPT !.pc = "load", !.left = targets, !.shown = shown]
    BY <1>0, <1>3, <2>1 DEF BeginSignal
  <2>. QED  BY <2>1, <2>2 DEF NoSignal
<1>7. \A i \in submission'[q].shown : Awaits(q, i)'
  BY <1>2, <1>5, <1>6 DEF Awaits
<1>8. AnswerInv(q)'
  BY <1>2, <1>5, <1>6, <1>7 DEF AnswerInv
<1>9. xpRun[q].pc = "idle" /\ NoSkills /\ NoSkills' /\ xpRun' = xpRun
  BY <1>1, <1>2, <1>3 DEF EarningInv, NoSkills, skillVars
<1>. QED  BY <1>5, <1>8, <1>9 DEF EarningInv

-----------------------------------------------------------------------------
LEMMA LearnedAlone ==
    ASSUME LearningInv, NEW q \in Signals, AnswerInv(q), EarningInv(q), LearnItems(q), UNCHANGED readerVars
    PROVE  AnswerInv(q)' /\ EarningInv(q)'
<1>0. /\ submission \in [Signals -> SubmissionRow] /\ DOMAIN signal = Signals
      /\ DOMAIN signal[q] = DOMAIN NoSignal /\ uk \in [Items -> KnowledgeRow]
  BY DEF LearningInv, TaskInv, TaskTypeOK, KnowledgeInv, WriterTypeOK
<1>1. /\ submission[q].pc = "signal" /\ submission' = submission /\ UNCHANGED skillVars
      /\ signal[q].shown = submission[q].shown
      /\ NothingRead' = NothingRead
  BY DEF LearnItems, taskVars, AnswerInv, readerVars, NothingRead, InLog
<1>2. EarningInv(q)'
  BY <1>1, EarningRests
<1>3. ASSUME NEW k \in Items, LoadForSignal(q, k)
      PROVE  AnswerInv(q)'
  <2>1. PICK old, row, left : old = signal[q] /\ row = uk[k] /\ left = old.left \ {k}
    OBVIOUS
  <2>2. /\ uk' = uk /\ old.pc = "load"
        /\ signal'[q] = [old EXCEPT !.pc = "store", !.left = left, !.item = k, !.copy = row]
    BY <1>0, <1>3, <2>1 DEF LoadForSignal
  <2>3. /\ signal'[q].pc = "store" /\ signal'[q].left = left /\ signal'[q].item = k
        /\ signal'[q].shown = old.shown
    BY <1>0, <2>1, <2>2 DEF NoSignal
  <2>4. \A i : Awaits(q, i) => Awaits(q, i)'
    BY <1>1, <2>1, <2>2, <2>3 DEF Awaits
  <2>. QED  BY <1>1, <2>1, <2>2, <2>3, <2>4 DEF AnswerInv
<1>4. CASE StoreForSignal(q)
  <2>1. PICK old, copy, k, pc :
           old = signal[q] /\ copy = old.copy /\ k = old.item /\ pc = IF old.left = {} THEN "done" ELSE "load"
    OBVIOUS
  <2>2. /\ old.pc = "store" /\ copy \in KnowledgeRow /\ k \in Items
    BY <1>0, <1>4, <2>1 DEF LearningInv, KnowledgeInv, WriterTypeOK, Copies, RowOf, StoreForSignal
  <2>3. signal'[q] = [old EXCEPT !.pc = pc]
    BY <1>0, <1>4, <2>1 DEF StoreForSignal
  <2>4. signal'[q].pc = pc /\ signal'[q].left = old.left /\ signal'[q].shown = old.shown
    BY <1>0, <2>1, <2>3 DEF NoSignal
  <2>5. ASSUME k \in submission[q].shown
        PROVE  uk'[k].correct >= 1
    <3>1. PICK total, correct \in Nat : total = copy.total + 1 /\ correct = copy.correct + 1 /\ correct >= 1
      BY <2>2 DEF KnowledgeRow
    <3>2. PICK row : row = [copy EXCEPT !.total = total, !.correct = correct]
      OBVIOUS
    <3>3. row \in KnowledgeRow /\ row.correct = correct
      BY <2>2, <3>2 DEF KnowledgeRow
    <3>4. WithGrade(copy, TRUE) = row
      BY <2>2, <3>1, <3>2 DEF WithGrade
    <3>5. k \in old.shown
      BY <1>1, <2>1, <2>5
    <3>6. Refresh(k, WithGrade(copy, k \in old.shown))
      BY <1>4, <2>1 DEF StoreForSignal
    <3>7. PICK confident \in BOOLEAN : uk' = [uk EXCEPT ![k] = Advanced(row, confident)]
      BY <3>4, <3>5, <3>6 DEF Refresh
    <3>8. uk'[k] = Advanced(row, confident)
      BY <1>0, <2>2, <3>7
    <3>9. uk'[k].correct = row.correct
      BY <3>3, <3>8, AdvancedRow
    <3>. QED  BY <3>1, <3>3, <3>9
  <2>6. \A i \in Items \ {k} : uk'[i] = uk[i]
    BY <1>0, <1>4, <2>1 DEF StoreForSignal, Refresh
  <2>7. \A i : Awaits(q, i) => i = k \/ Awaits(q, i)'
    BY <1>1, <2>1, <2>2, <2>4 DEF Awaits
  <2>8. submission[q].shown \subseteq Items
    BY <1>0 DEF SubmissionRow
  <2>9. ASSUME NothingRead', NEW i \in submission[q].shown
        PROVE  Awaits(q, i)' \/ uk'[i].correct >= 1
    <3>1. Awaits(q, i) \/ uk[i].correct >= 1
      BY <1>1, <2>9 DEF AnswerInv
    <3>. QED  BY <2>5, <2>6, <2>7, <2>8, <2>9, <3>1
  <2>10. (NothingRead => \A i \in submission[q].shown : Awaits(q, i) \/ uk[i].correct >= 1)'
    BY <1>1, <2>9
  <2>11. (/\ submission[q].pc = "signal" /\ signal[q].shown = submission[q].shown
          /\ submission[q].shown \subseteq TargetsOf[submission[q].task])'
    BY <1>1, <2>1, <2>4 DEF AnswerInv
  <2>. QED  BY <1>2, <2>10, <2>11 DEF AnswerInv
<1>. QED  BY <1>2, <1>3, <1>4 DEF LearnItems, ApplyTaskSignal

LEMMA EarningBegins ==
    ASSUME LearningInv, SkillInv, NEW q \in Signals, AnswerInv(q), EarningInv(q), BeginXP(q), UNCHANGED readerVars
    PROVE  AnswerInv(q)' /\ EarningInv(q)'
<1>0. /\ submission \in [Signals -> SubmissionRow] /\ SignalInv /\ DOMAIN xpRun = Learners /\ q \in Learners
  BY CreditAssumption DEF LearningInv, TaskInv, TaskTypeOK, SkillInv, SkillTypeOK
<1>1. PICK old, targets, base :
         /\ old \in SubmissionRow /\ old = submission[q]
         /\ targets = TargetsOf[old.task] /\ base = BaseXP[old.task]
  <2>1. PICK old, targets, base : old = submission[q] /\ targets = TargetsOf[old.task] /\ base = BaseXP[old.task]
    OBVIOUS
  <2>. QED  BY <1>0, <2>1
<1>2. /\ old.pc = "signal" /\ signal[q].pc = "done" /\ submission' = [submission EXCEPT ![q].pc = "xp"]
      /\ BeginXPRun(q, targets, old.shown, old.correct, base)
      /\ UNCHANGED <<uk, xp, verify, verifier>>
  BY <1>1 DEF BeginXP
<1>3. /\ submission'[q].pc = "xp" /\ submission'[q].shown = old.shown /\ submission'[q].task = old.task
      /\ submission'[q].correct = old.correct
  BY <1>0, <1>1, <1>2 DEF SubmissionRow
<1>4. \A i : ~Awaits(q, i)
  BY <1>0, <1>1, <1>2 DEF SignalInv, Awaits
<1>5. NothingRead' = NothingRead
  BY DEF readerVars, NothingRead, InLog
<1>6. AnswerInv(q)'
  BY <1>1, <1>2, <1>3, <1>4, <1>5 DEF AnswerInv
<1>7. NoSkills /\ NoSkills'
  BY <1>1, <1>2 DEF EarningInv, NoSkills
<1>8. PICK shown, correct : shown = old.shown /\ correct = old.correct
  OBVIOUS
<1>9. xpRun'[q] = [NoXPRun EXCEPT !.pc = "load", !.items = targets, !.shown = shown,
                                  !.correct = correct, !.base = base]
  BY <1>0, <1>2, <1>8 DEF BeginXPRun
<1>10. /\ xpRun'[q].pc = "load" /\ xpRun'[q].items = targets /\ xpRun'[q].shown = shown /\ xpRun'[q].base = base
  BY <1>9 DEF NoXPRun
<1>11. EarningInv(q)'
  BY <1>1, <1>3, <1>7, <1>8, <1>10 DEF EarningInv
<1>. QED  BY <1>6, <1>11

LEMMA FirstChange ==
    ASSUME NEW base \in Nat \ {0}
    PROVE  LET row == BuildXPChange(ZeroXP, base) IN row.xp > 0 /\ (row.pending => row.tier > 0)
<1>1. AtLeast(ZeroXP.xp + base, 0) = base
  BY DEF AtLeast, ZeroXP
<1>2. PICK tier : tier = Clamp(base \div XPPerTier, 0, TierCount)
  OBVIOUS
<1>3. Clamp(0, 0, TierCount) = 0
  BY XPAssumption DEF Clamp
<1>4. PICK pending : pending = (tier > 0)
  OBVIOUS
<1>5. BuildXPChange(ZeroXP, base) = [xp |-> base, tier |-> tier, pending |-> pending]
  BY <1>1, <1>2, <1>3, <1>4 DEF BuildXPChange, ZeroXP
<1>6. PICK row : row = [xp |-> base, tier |-> tier, pending |-> pending]
  OBVIOUS
<1>7. row.xp = base /\ row.tier = tier /\ row.pending = pending
  BY <1>6
<1>8. row.xp > 0
  BY <1>7
<1>9. row.pending => row.tier > 0
  BY <1>4, <1>7
<1>. QED  BY <1>5, <1>6, <1>8, <1>9

\* The first experience there is goes to the skills of what the answer has shown.
LEMMA FirstExperience ==
    ASSUME SkillInv, NEW q \in Signals, EarningInv(q), submission[q].task \in Tasks,
           submission[q].shown \subseteq TargetsOf[submission[q].task], StoreXP(q),
           NEW shown, shown = submission[q].shown
    PROVE  Earned(shown)'
<1>1. PICK items, base, correct, current, of :
         /\ of = submission[q].task /\ items = xpRun[q].items /\ base = xpRun[q].base
         /\ correct = xpRun[q].correct /\ current = xpRun[q].current
  OBVIOUS
<1>2. /\ NoSkills /\ xpRun[q].pc = "store" /\ items = TargetsOf[of] /\ xpRun[q].shown = shown
      /\ base = BaseXP[of] /\ \A k \in Skills : current[k] = ZeroXP
  BY <1>1 DEF EarningInv, StoreXP
<1>3. base \in Nat \ {0} /\ items \subseteq Items /\ shown \subseteq items
  BY <1>1, <1>2, CreditAssumption, TaskAssumption
<1>4. SkillsOfItems(items) \subseteq Skills /\ SkillsOfItems(shown) \subseteq SkillsOfItems(items)
  BY <1>3, CreditAssumption DEF SkillsOfItems
<1>. DEFINE Gain(k) == XPDelta(current[k], k \in SkillsOfItems(shown), correct, base)
            changed == {k \in SkillsOfItems(items) : Gain(k) # 0}
<1>5. Deltas(q) = [k \in SkillsOfItems(items) |-> Gain(k)]
  BY <1>1, <1>2 DEF Deltas
<1>6. \A k \in SkillsOfItems(items) : Gain(k) = IF k \in SkillsOfItems(shown) THEN base ELSE 0
  BY <1>2, <1>4 DEF XPDelta, ZeroXP
<1>7. changed = SkillsOfItems(shown)
  BY <1>3, <1>4, <1>6
<1>8. /\ verify' = verify
      /\ \A k \in Skills : xp'[k] = IF k \in SkillsOfItems(shown) THEN BuildXPChange(ZeroXP, base) ELSE xp[k]
  <2>1. {k \in DOMAIN Deltas(q) : Deltas(q)[k] # 0} = changed
    BY <1>5
  <2>2. \A k \in changed : Deltas(q)[k] = base /\ current[k] = ZeroXP
    BY <1>2, <1>4, <1>5, <1>6, <1>7
  <2>3. /\ verify' = verify
        /\ xp' = [k \in Skills |-> IF k \in {j \in DOMAIN Deltas(q) : Deltas(q)[j] # 0}
                                   THEN [j \in {h \in DOMAIN Deltas(q) : Deltas(q)[h] # 0} |->
                                            BuildXPChange(current[j], Deltas(q)[j])][k]
                                   ELSE xp[k]]
    BY <1>1 DEF StoreXP
  <2>. HIDE DEF changed
  <2>. QED  BY <1>7, <2>1, <2>2, <2>3
<1>9. LET row == BuildXPChange(ZeroXP, base) IN row.xp > 0 /\ (row.pending => row.tier > 0)
  BY <1>3, FirstChange
<1>10. \A k \in Skills : verify[k].status # "running" /\ xp[k] = ZeroXP /\ ~xp[k].pending
  BY <1>2 DEF NoSkills, NoVerify, ZeroXP
<1>. QED  BY <1>2, <1>8, <1>9, <1>10 DEF Earned

-----------------------------------------------------------------------------
LEMMA SkilledAlone ==
    ASSUME LearningInv, SkillInv, \A p \in Learners : DOMAIN xpRun[p] = DOMAIN NoXPRun,
           NEW q \in Signals, AnswerInv(q), EarningInv(q), LearnSkills(q), UNCHANGED readerVars
    PROVE  AnswerInv(q)' /\ EarningInv(q)'
<1>0. /\ submission \in [Signals -> SubmissionRow] /\ DOMAIN xpRun = Learners /\ q \in Learners
      /\ verify \in [Skills -> [status : {"none", "queued", "running"}, copy : XPRow]]
  BY CreditAssumption DEF LearningInv, TaskInv, TaskTypeOK, SkillInv, SkillTypeOK
<1>1. PICK old, mine, shown : old = submission[q] /\ mine = xpRun[q] /\ shown = old.shown
  OBVIOUS
<1>2. PICK pc : pc = IF xpRun'[q].pc = "done" THEN "done" ELSE old.pc
  OBVIOUS
<1>3. old.pc = "xp" /\ ApplyXP(q) /\ UNCHANGED <<uk, signal>>
  BY <1>1 DEF LearnSkills, acquireVars
<1>4. submission'[q] = [old EXCEPT !.pc = pc] /\ pc = IF xpRun'[q].pc = "done" THEN "done" ELSE "xp"
  <2>1. submission' = [submission EXCEPT ![q].pc = IF xpRun'[q].pc = "done" THEN "done" ELSE @]
    BY DEF LearnSkills
  <2>. QED  BY <1>0, <1>1, <1>2, <1>3, <2>1
<1>5. /\ submission'[q].pc = pc /\ submission'[q].task = old.task /\ submission'[q].shown = shown
      /\ submission'[q].correct = old.correct /\ old.task \in Tasks
  BY <1>0, <1>1, <1>4 DEF SubmissionRow
<1>6. AnswerInv(q)'
  <2>1. NothingRead' = NothingRead
    BY DEF readerVars, NothingRead, InLog
  <2>2. \A i : Awaits(q, i)' => Awaits(q, i)
    BY <1>1, <1>3, <1>4, <1>5 DEF Awaits
  <2>3. \A i : ~Awaits(q, i)
    BY <1>1, <1>3 DEF Awaits
  <2>. QED  BY <1>1, <1>3, <1>4, <1>5, <2>1, <2>3 DEF AnswerInv
<1>7. /\ mine.pc \in {"load", "store", "enqueue"} /\ DOMAIN mine = DOMAIN NoXPRun
      /\ mine.pc \in {"load", "store"} => /\ mine.items = TargetsOf[old.task] /\ mine.shown = shown
                                         /\ mine.base = BaseXP[old.task] /\ NoSkills
      /\ mine.pc = "enqueue" /\ RejectionsLeave => Earned(shown)
  BY <1>0, <1>1, <1>3 DEF EarningInv
<1>8. CASE LoadCurrent(q)
  <2>1. PICK rows : rows = xp
    OBVIOUS
  <2>2. /\ mine.pc = "load" /\ UNCHANGED <<xp, verify, verifier>>
        /\ xpRun' = [xpRun EXCEPT ![q].pc = "store", ![q].current = rows]
    BY <1>1, <1>8, <2>1 DEF LoadCurrent
  <2>3. /\ xpRun'[q] = [mine EXCEPT !.pc = "store", !.current = rows]
    BY <1>0, <1>1, <2>2
  <2>4. /\ xpRun'[q].pc = "store" /\ xpRun'[q].current = rows /\ xpRun'[q].items = mine.items
        /\ xpRun'[q].shown = mine.shown /\ xpRun'[q].base = mine.base
    BY <1>7, <2>3 DEF NoXPRun
  <2>5. NoSkills' /\ \A k \in Skills : rows[k] = ZeroXP
    BY <1>7, <2>1, <2>2 DEF NoSkills
  <2>6. EarningInv(q)'
    BY <1>4, <1>5, <1>7, <2>2, <2>4, <2>5 DEF EarningInv
  <2>. QED  BY <1>6, <2>6
<1>9. CASE StoreXP(q)
  <2>1. PICK left : xpRun' = [xpRun EXCEPT ![q] = [NoXPRun EXCEPT !.pc = "enqueue", !.left = left]]
    BY <1>9 DEF StoreXP
  <2>2. /\ xpRun'[q].pc = "enqueue"
    BY <1>0, <2>1 DEF NoXPRun
  <2>3. Earned(shown)'
    BY <1>1, <1>5, <1>9, FirstExperience DEF AnswerInv
  <2>4. EarningInv(q)'
    BY <1>4, <1>5, <2>2, <2>3 DEF EarningInv
  <2>. QED  BY <1>6, <2>4
<1>10. ASSUME NEW k \in Skills, EnqueueSkillVerify(q, k)
       PROVE  EarningInv(q)'
  <2>1. PICK left, status : left = mine.left \ {k} /\ status = IF verify[k].status = "none" THEN "queued" ELSE verify[k].status
    OBVIOUS
  <2>2. /\ mine.pc = "enqueue" /\ UNCHANGED <<xp, verifier>>
        /\ xpRun' = [xpRun EXCEPT ![q].left = left]
        /\ verify' = [verify EXCEPT ![k].status = status]
    BY <1>1, <1>10, <2>1 DEF EnqueueSkillVerify
  <2>3. /\ xpRun'[q] = [mine EXCEPT !.left = left]
    BY <1>0, <1>1, <2>2
  <2>4. xpRun'[q].pc = "enqueue"
    BY <1>7, <2>2, <2>3 DEF NoXPRun
  <2>5. /\ \A j \in Skills \ {k} : verify'[j] = verify[j]
        /\ verify'[k].status = status /\ verify'[k].copy = verify[k].copy
    BY <1>0, <2>2
  <2>6. RejectionsLeave => Earned(shown)'
    BY <1>7, <2>1, <2>2, <2>5 DEF Earned
  <2>7. EarningInv(q)'
    BY <1>4, <1>5, <2>2, <2>4, <2>6 DEF EarningInv, RejectionsLeave
  <2>. QED  BY <2>7
<1>11. CASE XPApplied(q)
  <2>1. /\ mine.pc = "enqueue" /\ UNCHANGED <<xp, verify, verifier>>
        /\ xpRun' = [xpRun EXCEPT ![q].pc = "done"]
    BY <1>1, <1>11 DEF XPApplied
  <2>2. /\ xpRun'[q] = [mine EXCEPT !.pc = "done"]
    BY <1>0, <1>1, <2>1
  <2>3. xpRun'[q].pc = "done"
    BY <1>7, <2>2 DEF NoXPRun
  <2>4. RejectionsLeave => Earned(shown)'
    BY <1>7, <2>1 DEF Earned
  <2>5. EarningInv(q)'
    BY <1>4, <1>5, <2>1, <2>3, <2>4 DEF EarningInv, RejectionsLeave
  <2>. QED  BY <1>6, <2>5
<1>. QED  BY <1>3, <1>6, <1>8, <1>9, <1>10, <1>11 DEF ApplyXP

\* A run through the skills is a record of the same fields at each of its steps.
LEMMA XPRecords ==
    ASSUME SkillInv, \A p \in Learners : DOMAIN xpRun[p] = DOMAIN NoXPRun, NEW q \in Signals,
           SubmitStep(q) \/ SubmissionDies(q) \/ \E t \in Tasks : Submit(q, t)
    PROVE  \A p \in Learners : DOMAIN xpRun'[p] = DOMAIN NoXPRun
<1>0. DOMAIN xpRun = Learners /\ q \in Learners
  BY CreditAssumption DEF SkillInv, SkillTypeOK
<1>1. ASSUME NEW r, xpRun' = [xpRun EXCEPT ![q] = r], DOMAIN r = DOMAIN NoXPRun
      PROVE  \A p \in Learners : DOMAIN xpRun'[p] = DOMAIN NoXPRun
  BY <1>0, <1>1
<1>2. CASE BeginXP(q)
  <2>1. PICK items, shown, correct, base : BeginXPRun(q, items, shown, correct, base)
    BY <1>2 DEF BeginXP
  <2>. QED  BY <1>1, <2>1 DEF BeginXPRun
<1>3. CASE LearnSkills(q)
  <2>0. PICK mine, rows : mine = xpRun[q] /\ rows = xp
    OBVIOUS
  <2>1. CASE LoadCurrent(q)
    <3>1. xpRun' = [xpRun EXCEPT ![q] = [mine EXCEPT !.pc = "store", !.current = rows]]
      BY <1>0, <2>0, <2>1 DEF LoadCurrent
    <3>. QED  BY <1>0, <1>1, <2>0, <3>1
  <2>2. CASE StoreXP(q)
    <3>1. PICK left : xpRun' = [xpRun EXCEPT ![q] = [NoXPRun EXCEPT !.pc = "enqueue", !.left = left]]
      BY <2>2 DEF StoreXP
    <3>. QED  BY <1>1, <3>1
  <2>3. CASE XPApplied(q)
    <3>1. xpRun' = [xpRun EXCEPT ![q] = [mine EXCEPT !.pc = "done"]]
      BY <1>0, <2>0, <2>3 DEF XPApplied
    <3>. QED  BY <1>0, <1>1, <2>0, <3>1
  <2>4. ASSUME NEW k \in Skills, EnqueueSkillVerify(q, k)
        PROVE  \A p \in Learners : DOMAIN xpRun'[p] = DOMAIN NoXPRun
    <3>1. PICK left : left = mine.left \ {k}
      OBVIOUS
    <3>2. xpRun' = [xpRun EXCEPT ![q] = [mine EXCEPT !.left = left]]
      BY <1>0, <2>0, <2>4, <3>1 DEF EnqueueSkillVerify
    <3>. QED  BY <1>0, <1>1, <2>0, <3>2
  <2>. QED  BY <1>3, <2>1, <2>2, <2>3, <2>4 DEF LearnSkills, ApplyXP
<1>4. CASE Grade(q)
  BY <1>4, Zenon DEF Grade, skillVars
<1>5. CASE RecordTaskGrade(q) \/ LearnItems(q) \/ SubmissionDies(q) \/ \E t \in Tasks : Submit(q, t)
  BY <1>5 DEF RecordTaskGrade, LearnItems, SubmissionDies, Submit, skillVars
<1>. QED  BY <1>2, <1>3, <1>4, <1>5 DEF SubmitStep

-----------------------------------------------------------------------------
LEMMA AnswerStep ==
    ASSUME LearningInv, SkillInv, LoneInv, UNCHANGED readerVars, NEW q \in Signals, Lone(q)',
           SubmitStep(q) \/ SubmissionDies(q) \/ \E t \in Tasks : Submit(q, t)
    PROVE  AnswerInv(q)' /\ EarningInv(q)'
<1>0. /\ TaskInv /\ submission \in [Signals -> SubmissionRow] /\ faults \in Nat
      /\ \A p \in Learners : DOMAIN xpRun[p] = DOMAIN NoXPRun
  BY DEF LearningInv, TaskInv, TaskTypeOK, LoneInv
<1>1. ~SubmissionDies(q)
  BY <1>0 DEF SubmissionDies, Fault, Lone
<1>2. Lone(q)
  <2>1. faults' = faults
    <3>1. CASE Grade(q)
      BY <3>1, Zenon DEF Grade
    <3>2. CASE ~Grade(q)
      BY <1>1, <3>2 DEF SubmitStep, Submit, RecordTaskGrade, LearnItems, BeginXP, LearnSkills, taskVars
    <3>. QED  BY <3>1, <3>2
  <2>2. \A p \in Signals \ {q} : submission'[p] = submission[p]
    BY <1>0, SubmissionMoves
  <2>. QED  BY <2>1, <2>2 DEF Lone
<1>3. AnswerInv(q) /\ EarningInv(q)
  BY <1>2 DEF LoneInv
<1>4. CASE BeginXP(q)
  BY <1>3, <1>4, EarningBegins
<1>5. CASE LearnSkills(q)
  BY <1>0, <1>3, <1>5, SkilledAlone
<1>6. CASE Grade(q) \/ RecordTaskGrade(q) \/ LearnItems(q) \/ \E t \in Tasks : Submit(q, t)
  BY <1>2, <1>3, <1>6, SubmittedAlone, GradedAlone, RecordedAlone, LearnedAlone
<1>. QED  BY <1>1, <1>4, <1>5, <1>6 DEF SubmitStep

\* A submission that is made is not taken back: others that are now absent always were.
LEMMA LoneStep == LearningInv /\ CountInv /\ AloneInv /\ SkillInv /\ LoneInv /\ [LearningNext]_learningVars => LoneInv'
<1>. SUFFICES ASSUME LearningInv, CountInv, AloneInv, SkillInv, LoneInv, [LearningNext]_learningVars PROVE LoneInv'
  OBVIOUS
<1>0. /\ TaskInv /\ submission \in [Signals -> SubmissionRow]
      /\ \A p \in Learners : DOMAIN xpRun[p] = DOMAIN NoXPRun
  BY DEF LearningInv, TaskInv, TaskTypeOK, LoneInv
<1>1. ASSUME UNCHANGED <<signal, taskVars, skillVars>>,
             NothingRead' => NothingRead /\ \A i \in Items : uk'[i] = uk[i]
      PROVE  LoneInv'
  <2>1. UNCHANGED <<submission, faults, xpRun>>
    BY <1>1 DEF taskVars, skillVars
  <2>2. ASSUME NEW q \in Signals, Lone(q)' PROVE AnswerInv(q)' /\ EarningInv(q)'
    <3>1. AnswerInv(q) /\ EarningInv(q)
      BY <2>1, <2>2 DEF LoneInv, Lone
    <3>. QED  BY <1>0, <1>1, <2>1, <3>1, AnswerRests, EarningRests
  <2>. QED  BY <1>0, <2>1, <2>2 DEF LoneInv
<1>2. CASE ReaderNext /\ UNCHANGED <<signal, taskVars, skillVars>>
  BY <1>1, <1>2, ReadingWaits
<1>3. CASE UNCHANGED learningVars
  BY <1>1, <1>3 DEF learningVars, readerVars, acquireVars, NothingRead, InLog
<1>4. ASSUME NEW k \in Skills, VerifyStep(k), UNCHANGED readerVars PROVE LoneInv'
  <2>1. /\ VerifySkill(k) /\ UNCHANGED <<submission, faults, uk, signal>> /\ NothingRead' = NothingRead
    BY <1>4 DEF VerifyStep, taskVars, acquireVars, readerVars, NothingRead, InLog
  <2>2. xpRun' = xpRun
    BY <2>1 DEF VerifySkill, StartVerify, Promote, Reject, VerifyFails
  <2>3. ASSUME NEW q \in Signals, Lone(q)' PROVE AnswerInv(q)' /\ EarningInv(q)'
    <3>1. AnswerInv(q) /\ EarningInv(q)
      BY <2>1, <2>3 DEF LoneInv, Lone
    <3>. QED  BY <1>0, <2>1, <3>1, AnswerRests, VerifyingEarns
  <2>. QED  BY <1>0, <2>2, <2>3 DEF LoneInv
<1>5. ASSUME NEW r \in Reports, UNCHANGED readerVars,
             \/ ReportTask(r) \/ ReportStep(r) \/ EnqueueRegenerationFails(r) \/ ReportDies(r)
             \/ RegenStep(r) \/ RegenDies(r)
      PROVE  LoneInv'
  <2>1. UNCHANGED <<submission, acquireVars>>
    BY <1>5, BesideAnswers
  <2>2. UNCHANGED skillVars
    BY <1>5
       DEF ReportTask, ReportStep, CreateReport, EnqueueRegeneration, RecordUnavailable,
         EnqueueRegenerationFails, ReportDies, RegenStep, RegenDies, RegenLoad, RegenWritesOutcome,
         RegenGenerate, ReplaceTaskContent, RegenFails, FailTaskRegeneration, RegenFinish
  <2>3. faults' = 0 => faults = 0
    BY <1>0, <1>5, FaultsGrow DEF TaskNext
  <2>4. /\ UNCHANGED <<uk, signal, xpRun>> /\ NothingRead' = NothingRead
    BY <1>5, <2>1, <2>2 DEF acquireVars, skillVars, readerVars, NothingRead, InLog
  <2>5. ASSUME NEW q \in Signals, Lone(q)' PROVE AnswerInv(q)' /\ EarningInv(q)'
    <3>1. AnswerInv(q) /\ EarningInv(q)
      BY <2>1, <2>3, <2>5 DEF LoneInv, Lone
    <3>. QED  BY <1>0, <2>1, <2>2, <2>4, <3>1, AnswerRests, EarningRests
  <2>. QED  BY <1>0, <2>4, <2>5 DEF LoneInv
<1>6. ASSUME NEW p \in Signals, SubmitStep(p) \/ SubmissionDies(p) \/ \E t \in Tasks : Submit(p, t), UNCHANGED readerVars
      PROVE  LoneInv'
  <2>1. submission'[p].pc # "idle"
    BY <1>0, <1>6, SubmissionMoves
  <2>2. ASSUME NEW q \in Signals, Lone(q)' PROVE AnswerInv(q)' /\ EarningInv(q)'
    <3>1. q = p
      BY <2>1, <2>2 DEF Lone
    <3>. QED  BY <1>6, <2>2, <3>1, AnswerStep
  <2>3. \A q \in Learners : DOMAIN xpRun'[q] = DOMAIN NoXPRun
    BY <1>0, <1>6, XPRecords
  <2>. QED  BY <2>2, <2>3 DEF LoneInv
<1>. QED  BY <1>2, <1>3, <1>4, <1>5, <1>6 DEF LearningNext, TaskNext

-----------------------------------------------------------------------------
\* Nobody reconfigures the verifier while the rows change.
LEMMA VerifierStays == SkillSpec => [](verifier \in {"none", "llm"})
<1>1. SkillInit => verifier \in {"none", "llm"}
  BY DEF SkillInit
<1>2. verifier \in {"none", "llm"} /\ [SkillNext]_skillVars => (verifier \in {"none", "llm"})'
  BY DEF SkillNext, skillVars, ApplyXP, LoadCurrent, StoreXP, XPApplied, EnqueueSkillVerify,
         VerifySkill, StartVerify, Promote, Reject, VerifyFails
<1>. QED  BY <1>1, <1>2, PTL DEF SkillSpec

LEMMA InitialLone == LearningInit => LoneInv
<1>. SUFFICES ASSUME LearningInit PROVE LoneInv
  OBVIOUS
<1>1. /\ submission = [q \in Signals |-> NoSubmission] /\ xpRun = [q \in Learners |-> NoXPRun]
      /\ xp = [k \in Skills |-> ZeroXP] /\ verify = [k \in Skills |-> NoVerify]
  BY DEF LearningInit, TaskInit, SkillInit
<1>2. ASSUME NEW q \in Signals PROVE AnswerInv(q) /\ EarningInv(q)
  <2>1. q \in Learners
    BY CreditAssumption
  <2>2. /\ submission[q].pc = "idle" /\ submission[q].shown = {} /\ ~submission[q].correct
        /\ ~submission[q].again /\ xpRun[q].pc = "idle"
    BY <1>1, <2>1 DEF NoSubmission, NoXPRun
  <2>3. NoSkills
    BY <1>1 DEF NoSkills
  <2>. QED  BY <2>2, <2>3 DEF AnswerInv, EarningInv
<1>. QED  BY <1>1, <1>2 DEF LoneInv

\* An answer nobody disturbs is a first one on its way through grading, the rows of its words
\* and those of their skills, and none of the three is left without its mark
\* (handler/tasks.go submitTask, acquire/acquire.go ApplyTaskSignal, skills/service.go ApplyTaskSignal).
THEOREM LoneInvariant == LearningSpec => [](LearningInv /\ SkillInv /\ LoneInv)
<1>1. LearningSpec => [](LearningInv /\ CountInv /\ AloneInv)
  BY AloneInvariant
<1>2. LearningSpec => []SkillInv
  BY LearningImplements, SkillInvariant, PTL
<1>3. LearningInv /\ CountInv /\ AloneInv /\ SkillInv /\ LoneInv /\ [LearningNext]_learningVars => LoneInv'
  BY LoneStep
<1>. QED  BY <1>1, <1>2, <1>3, InitialLone, PTL DEF LearningSpec

\* A correct answer of a learner who does nothing else is credited to every word it has
\* shown and to every skill of these words, also where a model rejects its tier (but for tiers
\* of a single point).
THEOREM OneAnswerCounts == LearningSpec => []OneAnswerIsCredited
<1>1. LearningInv /\ LoneInv /\ verifier \in {"none", "llm"} => OneAnswerIsCredited
  <2>. SUFFICES ASSUME LearningInv, LoneInv, verifier \in {"none", "llm"}, NothingRead,
                       NEW q \in Signals, submission[q].pc = "done", submission[q].correct, Lone(q),
                       NEW i \in submission[q].shown
                PROVE  uk[i].correct >= 1 /\ \A k \in SkillsOf[i] : xp[k].xp > 0 \/ (verifier = "llm" /\ XPPerTier = 1)
    BY DEF OneAnswerIsCredited, AloneIsCredited, NothingRead, Lone
  <2>1. AnswerInv(q) /\ EarningInv(q)
    BY DEF LoneInv
  <2>2. submission[q].shown \subseteq Items
    BY DEF LearningInv, TaskInv, TaskTypeOK, SubmissionRow
  <2>3. uk[i].correct >= 1
    BY <2>1 DEF AnswerInv, Awaits
  <2>4. ASSUME NEW k \in SkillsOf[i], RejectionsLeave
        PROVE  xp[k].xp > 0
    <3>1. Earned(submission[q].shown)
      BY <2>1, <2>4 DEF EarningInv
    <3>2. k \in Skills /\ k \in SkillsOfItems(submission[q].shown)
      BY <2>2, CreditAssumption DEF SkillsOfItems
    <3>. QED  BY <3>1, <3>2 DEF Earned
  <2>. QED  BY <2>3, <2>4, XPAssumption DEF RejectionsLeave
<1>2. LearningSpec => [](verifier \in {"none", "llm"})
  BY LearningImplements, VerifierStays, PTL
<1>. QED  BY <1>1, <1>2, LoneInvariant, PTL

\* What the parts promise holds of the learner's rows as they are written by all: tiers agree
\* with experience and count once they are confirmed (skills/xp.go, verify.go), reports
\* regenerate within the cap, keep a final outcome and leave graded content alone
\* (handler/task_reports.go, jobs/task_regeneration.go).
THEOREM PartsKeepTheirPromises ==
    LearningSpec => /\ [](TierAgreesWithXp /\ ConfirmedBeforeEffective /\ CapRespected)
                    /\ TerminalReportIsFinal /\ GradedContentKept
  BY LearningImplements, TiersAgree, TiersAreConfirmed, CapIsRespected, OutcomesAreFinal, GradesAreFinal, PTL
=============================================================================
