--------------------------- MODULE Learning_proofs ---------------------------
(***************************************************************************)
(* What is proved about the rows of user_knowledge, whoever writes them    *)
(* and in whatever order: the jobs of any number of stories, ratings and   *)
(* grades, each of which reads a row, changes its copy and stores the      *)
(* copy.  Since a later store may take an earlier one back, the invariant  *)
(* is about every copy on its way (Copies) as well as about the rows.      *)
(*                                                                         *)
(* A row of an item counts at most one answer of each submission that has  *)
(* stored its signal there (Credited).  That set never shrinks, and a      *)
(* submission joins it with its store, which adds one to the copy.         *)
(*                                                                         *)
(* What a row counts of the reading is bought on account: everything that  *)
(* is due (Due), once for each run that has failed, and of the last runs   *)
(* what they have taken up (Spent).  A failed run may leave copies behind  *)
(* that count what nobody remembers, which is what its share pays for.     *)
(***************************************************************************)
EXTENDS Learning, TaskWork_proofs, WellFoundedInduction

Stages == {"unseen", "encountered", "recognizing", "acquiring", "acquired", "automatic"}

KnowledgeRow == [exposure : Nat, variety : Nat, lookups : Nat, correct : Nat, total : Nat,
                 level : Nat, stage : Stages]

\* Submissions that have been graded, in general and of a task.
Graded == {q \in Signals : submission[q].pc \in {"signal", "xp", "done", "dead"}}
GradedOf(t) == {q \in Graded : submission[q].task = t}
GradedFor(i) == {q \in Graded : i \in TargetsOf[submission[q].task]}

\* The row of i is still to be read or stored by a submission.
Awaits(q, i) ==
    /\ submission[q].pc = "signal"
    /\ i \in signal[q].left \/ (signal[q].pc = "store" /\ signal[q].item = i)

Credited(i) == {q \in GradedFor(i) : ~Awaits(q, i)}

\* A row of i, or a copy of it.
RowOf(i, row) ==
    /\ row \in KnowledgeRow
    /\ row.correct <= row.total
    /\ row.total <= Cardinality(Credited(i))

Copies ==
    /\ \A q \in Signals : signal[q].pc = "store" => RowOf(signal[q].item, signal[q].copy)
    /\ \A s \in Stories : /\ \A i \in Items : RowOf(i, run[s].rows[i])
                          /\ run[s].pc = "not_ready_store" => RowOf(run[s].item, run[s].copy)
    /\ \A i \in Items : rating[i].pc = "store" => RowOf(i, rating[i].copy)

StageReached(row) == StageOrder(Stage(row, FALSE)) <= StageOrder(row.stage)

\* Two rows that count the same reading.
Alike(row, old) ==
    row.lookups = old.lookups /\ row.variety = old.variety /\ row.exposure = old.exposure

\* The shape of what the writers hold.
WriterTypeOK ==
    /\ uk \in [Items -> KnowledgeRow]
    /\ DOMAIN signal = Signals /\ DOMAIN run = Stories /\ DOMAIN rating = Items
    /\ \A q \in Signals :
          /\ DOMAIN signal[q] = DOMAIN NoSignal
          /\ signal[q].left \subseteq Items
          /\ signal[q].pc = "store" => signal[q].item \in Items
    /\ \A s \in Stories :
          /\ DOMAIN run[s] = DOMAIN NoRun
          /\ DOMAIN run[s].rows = Items
          /\ run[s].pc = "not_ready_store" => run[s].item \in Items
    /\ \A i \in Items : DOMAIN rating[i] = DOMAIN NoRating /\ rating[i].given \in Nat

KnowledgeInv ==
    /\ WriterTypeOK
    /\ \A i \in Items : RowOf(i, uk[i]) /\ StageReached(uk[i])
    /\ Copies

\* A submission takes the items of its task one by one.
SignalInv ==
    \A q \in Signals : submission[q].pc = "signal" =>
        /\ signal[q].pc \in {"load", "store", "done"}
        /\ signal[q].left \subseteq TargetsOf[submission[q].task]
        /\ signal[q].pc = "store" => signal[q].item \in TargetsOf[submission[q].task] \ signal[q].left
        /\ signal[q].pc = "done" => signal[q].left = {}

\* An answer to a graded task follows another one.
AttemptInv ==
    /\ \A t \in Tasks : /\ task[t].attempts <= AtLeast(Cardinality(GradedOf(t)), 1)
                        /\ task[t].graded => GradedOf(t) # {}
    /\ \A q \in Signals : submission[q].again => GradedOf(submission[q].task) # {}

LearningInv == TaskInv /\ KnowledgeInv /\ SignalInv /\ AttemptInv

-----------------------------------------------------------------------------
LEMMA StageNames ==
    /\ Stages = {StageLadder[n] : n \in 1..6}
    /\ StageOrder("unseen") = 1 /\ StageOrder("encountered") = 2 /\ StageOrder("recognizing") = 3
    /\ StageOrder("acquiring") = 4 /\ StageOrder("acquired") = 5 /\ StageOrder("automatic") = 6
<1>1. DOMAIN StageLadder = 1..6
  BY DEF StageLadder
<1>2. /\ StageLadder[1] = "unseen" /\ StageLadder[2] = "encountered" /\ StageLadder[3] = "recognizing"
      /\ StageLadder[4] = "acquiring" /\ StageLadder[5] = "acquired" /\ StageLadder[6] = "automatic"
  BY DEF StageLadder
<1>3. \A n \in 1..6 : StageOrder(StageLadder[n]) = n
  <2>. SUFFICES ASSUME NEW n \in 1..6 PROVE StageOrder(StageLadder[n]) = n
    OBVIOUS
  <2>1. \A m \in 1..6 : StageLadder[m] = StageLadder[n] => m = n
    BY <1>2
  <2>. QED  BY <1>1, <2>1 DEF StageOrder
<1>. QED  BY <1>2, <1>3 DEF Stages

\* Confidence only takes a row further.
LEMMA StageOfRow ==
    ASSUME NEW row, NEW confident \in BOOLEAN, row.exposure \in Nat
    PROVE  /\ Stage(row, confident) \in Stages
           /\ StageOrder(Stage(row, confident)) \in 1..6
           /\ StageOrder(Stage(row, FALSE)) <= StageOrder(Stage(row, confident))
<1>. DEFINE next == Stage(row, confident)  certain == Stage(row, FALSE)
<1>1. \/ next = certain /\ certain \in Stages
      \/ next \in {"acquired", "automatic"} /\ certain = "acquired"
  BY DEF Stage, Stages
<1>2. \A stage \in Stages : StageOrder(stage) \in 1..6
  BY StageNames DEF Stages
<1>. HIDE DEF next, certain
<1>3. next \in Stages /\ certain \in Stages
  BY <1>1 DEF Stages
<1>4. PICK m, n \in 1..6 : m = StageOrder(certain) /\ n = StageOrder(next)
  BY <1>2, <1>3
<1>5. m <= n
  BY <1>1, <1>4, StageNames
<1>6. next \in Stages /\ StageOrder(next) \in 1..6 /\ StageOrder(certain) <= StageOrder(next)
  BY <1>3, <1>4, <1>5
<1>. QED  BY <1>6 DEF next, certain

\* A stored row has reached the stage its counters imply; its counters are the copy's.
LEMMA AdvancedRow ==
    ASSUME NEW row \in KnowledgeRow, NEW confident \in BOOLEAN
    PROVE  LET new == Advanced(row, confident)
           IN  /\ new \in KnowledgeRow
               /\ new.correct = row.correct /\ new.total = row.total
               /\ Alike(new, row)
               /\ StageReached(new)
<1>. DEFINE new == Advanced(row, confident)  next == Stage(row, confident)
<1>1. /\ next \in Stages /\ StageOrder(next) \in 1..6
      /\ StageOrder(Stage(row, FALSE)) <= StageOrder(next)
  BY StageOfRow DEF KnowledgeRow
<1>2. StageOrder(row.stage) \in 1..6
  BY StageNames DEF KnowledgeRow, Stages
<1>3. CASE StageOrder(next) > StageOrder(row.stage)
  <2>1. new = [row EXCEPT !.stage = next]
    BY <1>3 DEF Advanced
  <2>2. new \in KnowledgeRow /\ new.correct = row.correct /\ new.total = row.total /\ new.stage = next
    BY <1>1, <2>1 DEF KnowledgeRow
  <2>3. /\ new.exposure = row.exposure /\ new.variety = row.variety /\ new.lookups = row.lookups
        /\ new.correct = row.correct /\ new.total = row.total
    BY <2>1 DEF KnowledgeRow
  <2>4. Stage(new, FALSE) = Stage(row, FALSE)
    BY <2>3 DEF Stage, Recognizes, Acquires, HasAcquired, LookupsBelow
  <2>. QED  BY <1>1, <2>2, <2>3, <2>4 DEF StageReached, Alike
<1>4. CASE ~(StageOrder(next) > StageOrder(row.stage))
  <2>1. new = row
    BY <1>4 DEF Advanced
  <2>2. StageOrder(Stage(row, FALSE)) \in 1..6
    BY StageOfRow DEF KnowledgeRow
  <2>3. StageOrder(Stage(row, FALSE)) <= StageOrder(row.stage)
    <3>. DEFINE certain == Stage(row, FALSE)
    <3>1. StageOrder(certain) \in 1..6 /\ StageOrder(certain) <= StageOrder(next)
      BY <1>1, <2>2
    <3>. HIDE DEF next, certain
    <3>2. StageOrder(certain) <= StageOrder(row.stage)
      BY <1>1, <1>2, <1>4, <3>1
    <3>. QED  BY <3>2 DEF certain
  <2>. QED  BY <2>1, <2>3 DEF StageReached, Alike
<1>. QED  BY <1>3, <1>4

LEMMA ZeroIsRow ==
    ASSUME IsFiniteSet(Signals), NEW i
    PROVE  RowOf(i, ZeroRow)
<1>1. IsFiniteSet(Credited(i))
  BY FS_Subset DEF Credited, GradedFor, Graded
<1>2. Cardinality(Credited(i)) \in Nat
  BY <1>1, FS_CardinalityType
<1>. QED  BY <1>2 DEF RowOf, ZeroRow, KnowledgeRow, Stages

\* Who has been credited stays it.
LEMMA RowStays ==
    ASSUME NEW i, Credited(i) \subseteq Credited(i)', NEW row, RowOf(i, row)
    PROVE  RowOf(i, row)'
<1>1. IsFiniteSet(Credited(i)) /\ IsFiniteSet(Credited(i)')
  BY TaskAssumption, FS_Subset DEF Credited, GradedFor, Graded
<1>2. Cardinality(Credited(i)) \in Nat /\ Cardinality(Credited(i)') \in Nat
  BY <1>1, FS_CardinalityType
<1>3. Cardinality(Credited(i)) <= Cardinality(Credited(i)')
  BY <1>1, FS_Subset
<1>4. Cardinality(Credited(i))' = Cardinality(Credited(i)')
  OBVIOUS
<1>. QED  BY <1>2, <1>3, <1>4 DEF RowOf, KnowledgeRow

\* The rows after a copy was stored.
RowsOK(rows) ==
    /\ rows \in [Items -> KnowledgeRow]
    /\ \A i \in Items : RowOf(i, rows[i]) /\ StageReached(rows[i])

LEMMA StoredRow ==
    ASSUME RowsOK(uk), NEW i \in Items, NEW row, RowOf(i, row), Refresh(i, row)
    PROVE  RowsOK(uk')
<1>1. PICK confident \in BOOLEAN : uk' = [uk EXCEPT ![i] = Advanced(row, confident)]
  BY DEF Refresh
<1>. DEFINE new == Advanced(row, confident)
<1>2. row \in KnowledgeRow
  BY DEF RowOf
<1>3. /\ new \in KnowledgeRow /\ new.correct = row.correct /\ new.total = row.total
      /\ StageReached(new)
  BY <1>2, AdvancedRow
<1>4. uk' = [uk EXCEPT ![i] = new]
  BY <1>1
<1>. HIDE DEF new
<1>5. RowOf(i, new)
  BY <1>3 DEF RowOf
<1>. QED  BY <1>3, <1>4, <1>5 DEF RowsOK

\* A job moves; the rows it works on are left alone or stored.
LEMMA RunMoves ==
    ASSUME KnowledgeInv, UNCHANGED <<signal, submission, rating>>, RowsOK(uk'),
           NEW s \in Stories, DOMAIN run' = Stories, \A z \in Stories \ {s} : run'[z] = run[z],
           DOMAIN run'[s] = DOMAIN NoRun, DOMAIN run'[s].rows = Items,
           \A i \in Items : RowOf(i, run'[s].rows[i]),
           run'[s].pc = "not_ready_store" => run'[s].item \in Items /\ RowOf(run'[s].item, run'[s].copy)
    PROVE  KnowledgeInv'
<1>1. \A i : Credited(i)' = Credited(i)
  BY DEF Credited, GradedFor, Graded, Awaits
<1>2. \A i, row : RowOf(i, row)' <=> RowOf(i, row)
  BY <1>1 DEF RowOf
<1>3. WriterTypeOK'
  BY DEF KnowledgeInv, WriterTypeOK, RowsOK
<1>4. \A i \in Items : RowOf(i, uk[i])' /\ StageReached(uk[i])'
  BY <1>2 DEF RowsOK
<1>5. Copies'
  <2>1. \A q \in Signals : signal'[q].pc = "store" => RowOf(signal[q].item, signal[q].copy)'
    BY <1>2 DEF KnowledgeInv, Copies
  <2>2. \A i \in Items : rating'[i].pc = "store" => RowOf(i, rating[i].copy)'
    BY <1>2 DEF KnowledgeInv, Copies
  <2>3. \A z \in Stories : /\ \A i \in Items : RowOf(i, run[z].rows[i])'
                           /\ run'[z].pc = "not_ready_store" => RowOf(run[z].item, run[z].copy)'
    BY <1>2 DEF KnowledgeInv, Copies
  <2>. QED  BY <2>1, <2>2, <2>3 DEF Copies
<1>. QED  BY <1>3, <1>4, <1>5 DEF KnowledgeInv

LEMMA KnowledgeRows ==
    ASSUME KnowledgeInv
    PROVE  /\ RowsOK(uk)
           /\ \A s \in Stories, i \in Items : RowOf(i, run[s].rows[i])
           /\ DOMAIN run = Stories
           /\ \A s \in Stories : DOMAIN run[s] = DOMAIN NoRun /\ DOMAIN run[s].rows = Items
  BY DEF KnowledgeInv, WriterTypeOK, Copies, RowsOK

\* The shape of a job that has just begun or just ended.
LEMMA NoRunRows ==
    /\ DOMAIN NoRun.rows = Items /\ NoRun.pc = "idle"
    /\ \A i \in Items : RowOf(i, NoRun.rows[i])
<1>1. NoRun.rows = [i \in Items |-> ZeroRow]
  BY DEF NoRun
<1>2. \A i \in Items : RowOf(i, ZeroRow)
  BY ZeroIsRow, TaskAssumption
<1>. QED  BY <1>1, <1>2 DEF NoRun

LEMMA SignalStepKeeps ==
    ASSUME KnowledgeInv, UNCHANGED <<signal, submission>>, NEW s \in Stories,
           SignalStep(s) \/ FailSignals(s)
    PROVE  KnowledgeInv'
<1>0. RowsOK(uk) /\ DOMAIN run = Stories /\ UNCHANGED rating
  BY KnowledgeRows DEF SignalStep, FailSignals, StartSignals, DeriveEvent, NotReadyStore, NotReadyDone,
     MarkProcessed, EndSignals, LoadExposed, NotReadyLoad, FlushRow
<1>1. CASE StartSignals(s)
  <2>1. CASE UNCHANGED run
    BY <1>0, <1>1, <2>1, RunMoves, KnowledgeRows DEF StartSignals, KnowledgeInv, Copies, WriterTypeOK
  <2>2. CASE run' = [run EXCEPT ![s] = [NoRun EXCEPT !.pc = "load",
                 !.load = IF FirstRead(s) THEN {i \in Items : Words[s][i] > 0} ELSE {},
                 !.left = PendingOf(s), !.ids = PendingOf(s)]]
    <3>1. DOMAIN run'[s] = DOMAIN NoRun /\ run'[s].rows = NoRun.rows /\ run'[s].pc = "load"
      BY <1>0, <2>2 DEF NoRun
    <3>2. DOMAIN run' = Stories /\ \A z \in Stories \ {s} : run'[z] = run[z]
      BY <1>0, <2>2
    <3>3. uk' = uk
      BY <1>1 DEF StartSignals
    <3>. QED  BY <1>0, <3>1, <3>2, <3>3, NoRunRows, RunMoves
  <2>. QED  BY <1>1, <2>1, <2>2 DEF StartSignals
<1>2. CASE DeriveEvent(s)
  <2>. DEFINE i == EventOf[Earliest(run[s].left)].item
              row == IF EventOf[Earliest(run[s].left)].kind = "lookup"
                     THEN [CopyOf(s, i) EXCEPT !.lookups = @ + 1] ELSE CopyOf(s, i)
  <2>1. /\ DOMAIN run' = Stories /\ \A z \in Stories \ {s} : run'[z] = run[z]
        /\ DOMAIN run'[s] = DOMAIN NoRun /\ run'[s].pc \in {"load", "not_ready"}
        /\ run'[s].rows = run[s].rows \/ run'[s].rows = [run[s].rows EXCEPT ![i] = row]
        /\ uk' = uk
    <3>. DEFINE e == Earliest(run[s].left)  taken == [run[s] EXCEPT !.left = @ \ {e}]
    <3>1. /\ uk' = uk
          /\ \/ run' = [run EXCEPT ![s] = [taken EXCEPT !.pc = "not_ready", !.targets = SessionTargets[s]]]
             \/ run' = [run EXCEPT ![s] = taken] /\ run[s].pc = "load"
             \/ /\ run' = [run EXCEPT ![s] = [taken EXCEPT !.items = @ \cup {i}, !.rows[i] = row]]
                /\ run[s].pc = "load"
      BY <1>2 DEF DeriveEvent
    <3>2. DOMAIN run[s] = DOMAIN NoRun
      BY KnowledgeRows
    <3>3. PICK run0, left : run0 = run[s] /\ left = run0.left \ {e}
      OBVIOUS
    <3>4. taken = [run0 EXCEPT !.left = left]
      BY <3>3
    <3>. HIDE DEF i, row, e, taken
    <3>5. DOMAIN taken = DOMAIN NoRun /\ taken.pc = run[s].pc /\ taken.rows = run[s].rows
      BY <3>2, <3>3, <3>4 DEF NoRun
    <3>6. DOMAIN run' = Stories /\ \A z \in Stories \ {s} : run'[z] = run[z]
      BY <1>0, <3>1
    <3>7. CASE run'[s] = [taken EXCEPT !.pc = "not_ready", !.targets = SessionTargets[s]]
      BY <3>1, <3>5, <3>6, <3>7 DEF NoRun
    <3>8. CASE run'[s] = taken /\ run[s].pc = "load"
      BY <3>1, <3>5, <3>6, <3>8
    <3>9. CASE run'[s] = [taken EXCEPT !.items = @ \cup {i}, !.rows[i] = row] /\ run[s].pc = "load"
      <4>1. PICK items, rows : items = taken.items \cup {i} /\ rows = [taken.rows EXCEPT ![i] = row]
        OBVIOUS
      <4>2. run'[s] = [taken EXCEPT !.items = items, !.rows = rows]
        BY <3>9, <4>1
      <4>. QED  BY <3>1, <3>5, <3>6, <3>9, <4>1, <4>2 DEF NoRun
    <3>. QED  BY <1>0, <3>1, <3>7, <3>8, <3>9
  <2>2. i \in Items => RowOf(i, row)
    <3>1. i \in Items => RowOf(i, CopyOf(s, i))
      BY KnowledgeRows DEF CopyOf, RowsOK
    <3>. QED  BY <3>1 DEF RowOf, KnowledgeRow
  <2>. HIDE DEF i, row
  <2>3. DOMAIN run'[s].rows = Items /\ \A k \in Items : RowOf(k, run'[s].rows[k])
    BY <2>1, <2>2, KnowledgeRows
  <2>. QED  BY <1>0, <2>1, <2>3, RunMoves
<1>3. CASE NotReadyStore(s)
  <2>. DEFINE row == [run[s].copy EXCEPT !.exposure = @ + 1]
  <2>1. /\ DOMAIN run' = Stories /\ \A z \in Stories \ {s} : run'[z] = run[z]
        /\ DOMAIN run'[s] = DOMAIN NoRun /\ run'[s].rows = run[s].rows /\ run'[s].pc = "not_ready"
    BY <1>0, <1>3, KnowledgeRows DEF NotReadyStore, NoRun
  <2>2. run[s].item \in Items /\ RowOf(run[s].item, run[s].copy) /\ Refresh(run[s].item, row)
    BY <1>3 DEF NotReadyStore, KnowledgeInv, WriterTypeOK, Copies
  <2>3. RowOf(run[s].item, row)
    BY <2>2 DEF RowOf, KnowledgeRow
  <2>. HIDE DEF row
  <2>4. RowsOK(uk')
    BY <1>0, <2>2, <2>3, StoredRow
  <2>. QED  BY <1>0, <2>1, <2>4, KnowledgeRows, RunMoves
<1>4. CASE NotReadyDone(s)
  <2>1. /\ DOMAIN run' = Stories /\ \A z \in Stories \ {s} : run'[z] = run[z]
        /\ DOMAIN run'[s] = DOMAIN NoRun /\ run'[s].rows = run[s].rows /\ run'[s].pc = "load"
        /\ uk' = uk
    BY <1>0, <1>4, KnowledgeRows DEF NotReadyDone, NoRun
  <2>. QED  BY <1>0, <2>1, KnowledgeRows, RunMoves
<1>5. CASE MarkProcessed(s)
  <2>1. /\ DOMAIN run' = Stories /\ \A z \in Stories \ {s} : run'[z] = run[z]
        /\ DOMAIN run'[s] = DOMAIN NoRun /\ run'[s].rows = run[s].rows /\ run'[s].pc = "load"
        /\ uk' = uk
    BY <1>0, <1>5, KnowledgeRows DEF MarkProcessed, NoRun
  <2>. QED  BY <1>0, <2>1, KnowledgeRows, RunMoves
<1>6. CASE EndSignals(s) \/ FailSignals(s)
  <2>1. /\ DOMAIN run' = Stories /\ \A z \in Stories \ {s} : run'[z] = run[z]
        /\ run'[s] = NoRun /\ uk' = uk
    BY <1>0, <1>6 DEF EndSignals, FailSignals
  <2>. QED  BY <1>0, <2>1, NoRunRows, RunMoves
<1>7. ASSUME NEW i \in Items, LoadExposed(s, i) PROVE KnowledgeInv'
  <2>. DEFINE row == WithExposure(uk[i], Words[s][i])
  <2>1. /\ DOMAIN run' = Stories /\ \A z \in Stories \ {s} : run'[z] = run[z]
        /\ DOMAIN run'[s] = DOMAIN NoRun /\ run'[s].pc = "load"
        /\ run'[s].rows = [run[s].rows EXCEPT ![i] = row]
        /\ uk' = uk
    BY <1>0, <1>7, KnowledgeRows DEF LoadExposed, NoRun
  <2>2. RowOf(i, row)
    <3>1. RowOf(i, uk[i]) /\ Words[s][i] \in Nat
      BY <1>0, WordAssumption DEF RowsOK
    <3>2. PICK old \in KnowledgeRow, n \in Nat : old = uk[i] /\ n = Words[s][i]
      BY <3>1 DEF RowOf
    <3>0. row = WithExposure(old, n)
      BY <3>2
    <3>. HIDE DEF row
    <3>3. PICK exposure, variety \in Nat : row = [old EXCEPT !.exposure = exposure, !.variety = variety]
      <4>1. old.exposure + n \in Nat /\ old.variety + 1 \in Nat
        BY DEF KnowledgeRow
      <4>. QED  BY <3>0, <4>1 DEF WithExposure
    <3>4. row \in KnowledgeRow /\ row.correct = old.correct /\ row.total = old.total
      BY <3>3 DEF KnowledgeRow
    <3>. QED  BY <3>1, <3>2, <3>4 DEF RowOf
  <2>. HIDE DEF row
  <2>3. DOMAIN run'[s].rows = Items /\ \A k \in Items : RowOf(k, run'[s].rows[k])
    BY <2>1, <2>2, KnowledgeRows
  <2>. QED  BY <1>0, <2>1, <2>3, RunMoves
<1>8. ASSUME NEW i \in Items, NotReadyLoad(s, i) PROVE KnowledgeInv'
  <2>1. /\ DOMAIN run' = Stories /\ \A z \in Stories \ {s} : run'[z] = run[z]
        /\ DOMAIN run'[s] = DOMAIN NoRun /\ run'[s].rows = run[s].rows
        /\ run'[s].item = i /\ run'[s].copy = uk[i]
        /\ uk' = uk
    BY <1>0, <1>8, KnowledgeRows DEF NotReadyLoad, NoRun
  <2>2. RowOf(i, uk[i])
    BY <1>0 DEF RowsOK
  <2>. QED  BY <1>0, <2>1, <2>2, KnowledgeRows, RunMoves
<1>9. ASSUME NEW i \in Items, FlushRow(s, i) PROVE KnowledgeInv'
  <2>1. /\ DOMAIN run' = Stories /\ \A z \in Stories \ {s} : run'[z] = run[z]
        /\ DOMAIN run'[s] = DOMAIN NoRun /\ run'[s].pc = "load"
        /\ run'[s].rows = [run[s].rows EXCEPT ![i] = ZeroRow]
    BY <1>0, <1>9, KnowledgeRows DEF FlushRow, NoRun
  <2>2. RowsOK(uk')
    BY <1>0, <1>9, KnowledgeRows, StoredRow DEF FlushRow
  <2>3. RowOf(i, ZeroRow)
    BY ZeroIsRow, TaskAssumption
  <2>4. DOMAIN run'[s].rows = Items /\ \A k \in Items : RowOf(k, run'[s].rows[k])
    BY <2>1, <2>3, KnowledgeRows
  <2>. QED  BY <1>0, <2>1, <2>2, <2>4, RunMoves
<1>. QED  BY <1>1, <1>2, <1>3, <1>4, <1>5, <1>6, <1>7, <1>8, <1>9 DEF SignalStep

\* Ratings, and the steps of the reader that touch no row and no copy.
LEMMA ReaderKeeps ==
    ASSUME KnowledgeInv, UNCHANGED <<signal, submission>>, ReaderNext
    PROVE  KnowledgeInv'
<1>0. /\ \A i : Credited(i)' = Credited(i)
      /\ \A i, row : RowOf(i, row)' <=> RowOf(i, row)
  <2>1. \A i : Credited(i)' = Credited(i)
    BY DEF Credited, GradedFor, Graded, Awaits
  <2>. QED  BY <2>1 DEF RowOf
<1>1. CASE \E s \in Stories : SignalStep(s) \/ FailSignals(s)
  BY <1>1, SignalStepKeeps
<1>2. CASE UNCHANGED <<uk, run, rating>>
  BY <1>0, <1>2 DEF KnowledgeInv, WriterTypeOK, Copies
<1>3. ASSUME NEW i \in Items, LoadForLevel(i) \/ StoreLevel(i) PROVE KnowledgeInv'
  <2>1. /\ UNCHANGED run /\ DOMAIN rating' = Items
        /\ \A k \in Items \ {i} : rating'[k] = rating[k]
        /\ DOMAIN rating'[i] = DOMAIN NoRating
        /\ rating'[i].given \in Nat
        /\ rating'[i].pc = "store" => rating'[i].copy = uk[i]
    BY <1>3 DEF LoadForLevel, StoreLevel, KnowledgeInv, WriterTypeOK, NoRating
  <2>2. RowsOK(uk')
    <3>1. CASE LoadForLevel(i)
      BY <3>1, KnowledgeRows DEF LoadForLevel
    <3>2. CASE StoreLevel(i)
      <4>. DEFINE row == [rating[i].copy EXCEPT !.level = rating[i].given]
      <4>1. RowOf(i, rating[i].copy) /\ rating[i].given \in Nat /\ Refresh(i, row)
        BY <3>2 DEF StoreLevel, KnowledgeInv, WriterTypeOK, Copies
      <4>2. RowOf(i, row)
        BY <4>1 DEF RowOf, KnowledgeRow
      <4>. HIDE DEF row
      <4>. QED  BY <4>1, <4>2, KnowledgeRows, StoredRow
    <3>. QED  BY <1>3, <3>1, <3>2
  <2>3. WriterTypeOK'
    BY <2>1, <2>2 DEF KnowledgeInv, WriterTypeOK, RowsOK
  <2>4. \A k \in Items : RowOf(k, uk[k])' /\ StageReached(uk[k])'
    BY <1>0, <2>2 DEF RowsOK
  <2>5. Copies'
    BY <1>0, <2>1, KnowledgeRows DEF KnowledgeInv, Copies, RowsOK
  <2>. QED  BY <2>3, <2>4, <2>5 DEF KnowledgeInv
<1>. QED  BY <1>1, <1>2, <1>3 DEF ReaderNext, Flush, SetSurfaceLevel

-----------------------------------------------------------------------------
\* A submission changes its own place and its own signal, and is not taken out of those
\* that have been credited.
SubmissionTurn(q) ==
    /\ UNCHANGED <<run, rating>>
    /\ DOMAIN signal' = Signals
    /\ \A p \in Signals \ {q} : submission'[p] = submission[p] /\ signal'[p] = signal[p]
    /\ DOMAIN signal'[q] = DOMAIN NoSignal
    /\ signal'[q].left \subseteq Items
    /\ signal'[q].pc = "store" => signal'[q].item \in Items /\ RowOf(signal'[q].item, signal'[q].copy)
    /\ submission[q].pc \in {"signal", "xp", "done", "dead"} =>
          /\ submission'[q].pc \in {"signal", "xp", "done", "dead"}
          /\ submission'[q].task = submission[q].task
    /\ \A i \in Items : submission[q].pc \in {"signal", "xp", "done", "dead"} /\ Awaits(q, i)' => Awaits(q, i)

LEMMA CreditsStay ==
    ASSUME NEW q \in Signals, SubmissionTurn(q)
    PROVE  /\ \A i \in Items : Credited(i) \subseteq Credited(i)'
           /\ \A t \in Tasks : GradedOf(t) \subseteq GradedOf(t)'
<1>1. ASSUME NEW p \in Graded PROVE p \in Graded' /\ submission'[p].task = submission[p].task
  BY <1>1 DEF SubmissionTurn, Graded
<1>2. ASSUME NEW p \in Graded, NEW i \in Items, Awaits(p, i)' PROVE Awaits(p, i)
  BY <1>2 DEF SubmissionTurn, Graded, Awaits
<1>. QED  BY <1>1, <1>2 DEF Credited, GradedFor, GradedOf

\* Its turn leaves the rows and every copy as good as they were.
LEMMA SubmissionKeepsRows ==
    ASSUME KnowledgeInv, NEW q \in Signals, SubmissionTurn(q),
           (\A i \in Items : RowOf(i, uk[i]) /\ StageReached(uk[i]))', uk' \in [Items -> KnowledgeRow]
    PROVE  KnowledgeInv'
<1>1. \A i \in Items : \A row : RowOf(i, row) => RowOf(i, row)'
  BY CreditsStay, RowStays
<1>2. WriterTypeOK'
  BY DEF KnowledgeInv, WriterTypeOK, SubmissionTurn
<1>3. \A p \in Signals : signal'[p].pc = "store" => RowOf(signal[p].item, signal[p].copy)'
  BY <1>1 DEF KnowledgeInv, WriterTypeOK, Copies, SubmissionTurn
<1>4. \A s \in Stories : /\ \A i \in Items : RowOf(i, run[s].rows[i])'
                         /\ run'[s].pc = "not_ready_store" => RowOf(run[s].item, run[s].copy)'
  BY <1>1 DEF KnowledgeInv, WriterTypeOK, Copies, SubmissionTurn
<1>5. \A i \in Items : rating'[i].pc = "store" => RowOf(i, rating[i].copy)'
  BY <1>1 DEF KnowledgeInv, Copies, SubmissionTurn
<1>. QED  BY <1>2, <1>3, <1>4, <1>5 DEF KnowledgeInv, Copies

LEMMA SameRows ==
    ASSUME KnowledgeInv, NEW q \in Signals, SubmissionTurn(q), uk' = uk
    PROVE  KnowledgeInv'
<1>1. \A i \in Items : \A row : RowOf(i, row) => RowOf(i, row)'
  BY CreditsStay, RowStays
<1>2. \A i \in Items : RowOf(i, uk[i])' /\ StageReached(uk[i])'
  BY <1>1 DEF KnowledgeInv
<1>3. uk' \in [Items -> KnowledgeRow]
  BY DEF KnowledgeInv, WriterTypeOK
<1>. QED  BY <1>2, <1>3, SubmissionKeepsRows

\* The grades a task got.
LEMMA CountsOfGrades ==
    ASSUME NEW t
    PROVE  /\ IsFiniteSet(GradedOf(t)) /\ Cardinality(GradedOf(t)) \in Nat
           /\ Cardinality(GradedOf(t)) >= 1 <=> GradedOf(t) # {}
<1>1. IsFiniteSet(GradedOf(t))
  BY TaskAssumption, FS_Subset DEF GradedOf, Graded
<1>2. Cardinality(GradedOf(t)) \in Nat
  BY <1>1, FS_CardinalityType
<1>3. Cardinality(GradedOf(t)) = 0 <=> GradedOf(t) = {}
  BY <1>1, FS_EmptySet
<1>. QED  BY <1>1, <1>2, <1>3

\* A step that leaves the attempts alone, or starts them anew.
LEMMA AttemptsStay ==
    ASSUME TaskInv, AttemptInv, \A t \in Tasks : GradedOf(t) \subseteq GradedOf(t)',
           \A t \in Tasks : task'[t].graded => task[t].graded,
           \A t \in Tasks : task'[t].attempts = task[t].attempts \/ task'[t].attempts = 1,
           \A q \in Signals : submission'[q].again => GradedOf(submission'[q].task) # {},
           \A q \in Signals : submission'[q].task \in Tasks
    PROVE  AttemptInv'
<1>1. ASSUME NEW t \in Tasks PROVE (task[t].attempts <= AtLeast(Cardinality(GradedOf(t)), 1))'
  <2>1. PICK m, n \in Nat : m = Cardinality(GradedOf(t)) /\ n = Cardinality(GradedOf(t)')
    BY CountsOfGrades, TaskAssumption, FS_Subset, FS_CardinalityType DEF GradedOf, Graded
  <2>2. m <= n
    <3>1. IsFiniteSet(GradedOf(t)') /\ GradedOf(t) \subseteq GradedOf(t)'
      BY <1>1, TaskAssumption, FS_Subset DEF GradedOf, Graded
    <3>. QED  BY <2>1, <3>1, FS_Subset
  <2>3. task[t].attempts <= AtLeast(m, 1) /\ task[t].attempts \in Nat
    BY <1>1, <2>1 DEF AttemptInv, TaskInv, TaskTypeOK, TaskRow
  <2>4. task'[t].attempts <= AtLeast(n, 1)
    BY <1>1, <2>2, <2>3 DEF AtLeast
  <2>. QED  BY <2>1, <2>4
<1>2. \A t \in Tasks : GradedOf(t) # {} => GradedOf(t)' # {}
  OBVIOUS
<1>3. \A q \in Signals : (submission[q].again => GradedOf(submission[q].task) # {})'
  <2>. SUFFICES ASSUME NEW q \in Signals, submission'[q].again PROVE GradedOf(submission[q].task)' # {}
    OBVIOUS
  <2>1. PICK t \in Tasks : t = submission'[q].task
    OBVIOUS
  <2>2. GradedOf(t)' # {}
    BY <1>2, <2>1
  <2>. QED  BY <2>1, <2>2 DEF GradedOf
<1>. QED  BY <1>1, <1>2, <1>3 DEF AttemptInv

-----------------------------------------------------------------------------
SignalRowOf(q) ==
    submission[q].pc = "signal" =>
        /\ signal[q].pc \in {"load", "store", "done"}
        /\ signal[q].left \subseteq TargetsOf[submission[q].task]
        /\ signal[q].pc = "store" => signal[q].item \in TargetsOf[submission[q].task] \ signal[q].left
        /\ signal[q].pc = "done" => signal[q].left = {}

LEMMA OneSignalMoves ==
    ASSUME SignalInv, NEW q \in Signals, SubmissionTurn(q), SignalRowOf(q)'
    PROVE  SignalInv'
  BY DEF SignalInv, SignalRowOf, SubmissionTurn

\* The steps of a submission that apply no signal.
LEMMA QuietTurn ==
    ASSUME LearningInv, TaskInv', NEW q \in Signals, UNCHANGED <<readerVars, acquireVars>>,
           (\E t \in Tasks : Submit(q, t)) \/ Grade(q) \/ LearnSkills(q) \/ SubmissionDies(q)
    PROVE  KnowledgeInv' /\ SignalInv' /\ AttemptInv'
<1>. DEFINE row == submission[q]  new == submission'[q]
<1>1. /\ task' = task
      /\ \A p \in Signals \ {q} : submission'[p] = submission[p]
      /\ \/ row.pc = "idle" /\ new.pc = "grade" /\ new.task \in Tasks /\ new.again = task[new.task].graded
         \/ new.task = row.task /\ new.again = row.again /\ row.pc = "grade" /\ new.pc \in {"record", "done"}
         \/ new.task = row.task /\ new.again = row.again /\ row.pc = "xp" /\ new.pc \in {"xp", "done"}
         \/ new.task = row.task /\ new.again = row.again /\ row.pc # "idle" /\ new.pc = "dead"
  <2>1. submission \in [Signals -> SubmissionRow]
    BY DEF LearningInv, TaskInv, TaskTypeOK
  <2>2. CASE \E t \in Tasks : Submit(q, t)
    <3>. PICK t \in Tasks : Submit(q, t)
      BY <2>2
    <3>1. /\ task' = task /\ row.pc = "idle"
          /\ submission' = [submission EXCEPT ![q] = [NoSubmission EXCEPT
                     !.pc = "grade", !.task = t, !.content = task[t].content,
                     !.again = task[t].graded, !.before = task[t].graded /\ task[t].correct]]
      BY DEF Submit
    <3>2. new.pc = "grade" /\ new.task = t /\ new.again = task[t].graded
      BY <2>1, <3>1 DEF NoSubmission
    <3>. QED  BY <2>1, <3>1, <3>2
  <2>3. CASE Grade(q)
    <3>1. CASE submission' = [submission EXCEPT ![q].pc = "done"]
      BY <2>1, <2>3, <3>1 DEF Grade, SubmissionRow
    <3>2. CASE \E g \in GradesOf(row.task) :
              submission' = [submission EXCEPT ![q].pc = "record", ![q].correct = g[1], ![q].shown = g[2]]
      <4>1. PICK verdict, shown : submission' = [submission EXCEPT ![q].pc = "record", ![q].correct = verdict,
                                                                  ![q].shown = shown]
        BY <3>2
      <4>2. /\ \A p \in Signals \ {q} : submission'[p] = submission[p]
            /\ new = [row EXCEPT !.pc = "record", !.correct = verdict, !.shown = shown]
        BY <2>1, <4>1
      <4>3. row \in SubmissionRow
        BY <2>1
      <4>4. new.pc = "record" /\ new.task = row.task /\ new.again = row.again
        BY <4>2, <4>3 DEF SubmissionRow
      <4>. QED  BY <2>3, <4>2, <4>4 DEF Grade
    <3>. QED  BY <2>3, <3>1, <3>2 DEF Grade
  <2>4. CASE LearnSkills(q)
    BY <2>1, <2>4 DEF LearnSkills, SubmissionRow
  <2>5. CASE SubmissionDies(q)
    BY <2>1, <2>5 DEF SubmissionDies, SubmissionRow
  <2>. QED  BY <2>2, <2>3, <2>4, <2>5
<1>2. /\ uk' = uk /\ signal' = signal /\ UNCHANGED <<run, rating>>
  BY DEF acquireVars, readerVars
<1>3. SubmissionTurn(q)
  BY <1>1, <1>2 DEF SubmissionTurn, LearningInv, KnowledgeInv, WriterTypeOK, Copies, Awaits
<1>4. KnowledgeInv'
  BY <1>2, <1>3, SameRows DEF LearningInv
<1>5. SignalInv'
  BY <1>1, <1>2, <1>3, OneSignalMoves DEF LearningInv, SignalRowOf
<1>6. AttemptInv'
  <2>1. \A t \in Tasks : GradedOf(t) \subseteq GradedOf(t)'
    BY <1>3, CreditsStay
  <2>2. \A p \in Signals : submission'[p].again => GradedOf(submission'[p].task) # {}
    BY <1>1 DEF LearningInv, AttemptInv
  <2>3. \A p \in Signals : submission'[p].task \in Tasks
    BY DEF TaskInv, TaskTypeOK, SubmissionRow
  <2>. QED  BY <1>1, <2>1, <2>2, <2>3, AttemptsStay DEF LearningInv
<1>. QED  BY <1>4, <1>5, <1>6

\* Every target of the task has been stored.
LEMMA BeginXPKeeps ==
    ASSUME LearningInv, TaskInv', NEW q \in Signals, UNCHANGED readerVars, BeginXP(q)
    PROVE  KnowledgeInv' /\ SignalInv' /\ AttemptInv'
<1>1. submission \in [Signals -> SubmissionRow] /\ DOMAIN signal = Signals
  BY DEF LearningInv, TaskInv, TaskTypeOK, KnowledgeInv, WriterTypeOK
<1>2. /\ UNCHANGED <<uk, run, rating, task>>
      /\ \A p \in Signals \ {q} : submission'[p] = submission[p] /\ signal'[p] = signal[p]
      /\ submission[q].pc = "signal" /\ submission'[q] = [submission[q] EXCEPT !.pc = "xp"]
      /\ DOMAIN signal' = Signals /\ signal'[q] = NoSignal
  BY <1>1 DEF BeginXP, readerVars
<1>3. /\ submission'[q].pc = "xp" /\ submission'[q].task = submission[q].task
      /\ submission'[q].again = submission[q].again
  BY <1>1, <1>2 DEF SubmissionRow
<1>4. SubmissionTurn(q)
  BY <1>2, <1>3 DEF SubmissionTurn, NoSignal, Awaits
<1>5. KnowledgeInv'
  BY <1>2, <1>4, SameRows DEF LearningInv
<1>6. SignalInv'
  BY <1>3, <1>4, OneSignalMoves DEF LearningInv, SignalRowOf
<1>7. AttemptInv'
  <2>1. \A t \in Tasks : GradedOf(t) \subseteq GradedOf(t)'
    BY <1>4, CreditsStay
  <2>2. \A p \in Signals : submission'[p].again => GradedOf(submission'[p].task) # {}
    <3>1. \A p \in Signals : submission'[p].again = submission[p].again /\ submission'[p].task = submission[p].task
      BY <1>2, <1>3
    <3>. QED  BY <3>1 DEF LearningInv, AttemptInv
  <2>3. \A p \in Signals : submission'[p].task \in Tasks
    BY DEF TaskInv, TaskTypeOK, SubmissionRow
  <2>. QED  BY <1>2, <2>1, <2>2, <2>3, AttemptsStay DEF LearningInv
<1>. QED  BY <1>5, <1>6, <1>7

\* The grade: the submission is now one of those of its task.
LEMMA RecordKeeps ==
    ASSUME LearningInv, TaskInv', NEW q \in Signals, UNCHANGED readerVars, RecordTaskGrade(q)
    PROVE  KnowledgeInv' /\ SignalInv' /\ AttemptInv'
<1>0. PICK t \in Tasks : t = submission[q].task
  BY DEF LearningInv, TaskInv, TaskTypeOK, SubmissionRow
<1>1. /\ submission \in [Signals -> SubmissionRow] /\ DOMAIN signal = Signals
      /\ task \in [Tasks -> TaskRow] /\ t \in Tasks /\ t = submission[q].task
  BY <1>0 DEF LearningInv, TaskInv, TaskTypeOK, KnowledgeInv, WriterTypeOK
<1>2. /\ UNCHANGED <<uk, run, rating>>
      /\ \A p \in Signals \ {q} : submission'[p] = submission[p] /\ signal'[p] = signal[p]
      /\ submission[q].pc = "record"
      /\ submission'[q].pc \in {"signal", "done"}
      /\ submission'[q].task = t /\ submission'[q].again = submission[q].again
      /\ DOMAIN signal' = Signals
  BY <1>1 DEF RecordTaskGrade, SubmissionRow, BeginSignal, acquireVars, readerVars
<1>3. \/ submission'[q].pc = "done" /\ signal'[q] = signal[q]
      \/ /\ DOMAIN signal'[q] = DOMAIN NoSignal
         /\ signal'[q].pc = "load" /\ signal'[q].left = TargetsOf[t]
  <2>1. CASE Improves(submission[q])
    <3>1. signal' = [signal EXCEPT ![q] = [NoSignal EXCEPT !.pc = "load", !.left = TargetsOf[t],
                                                           !.shown = submission[q].shown]]
      BY <1>1, <2>1 DEF RecordTaskGrade, BeginSignal
    <3>. QED  BY <1>1, <3>1 DEF NoSignal
  <2>2. CASE ~Improves(submission[q])
    BY <1>1, <2>2 DEF RecordTaskGrade, acquireVars, SubmissionRow
  <2>. QED  BY <2>1, <2>2
<1>4. /\ \A u \in Tasks \ {t} : task'[u] = task[u]
      /\ task'[t].attempts = task[t].attempts + IF submission[q].again THEN 1 ELSE 0
  BY <1>1 DEF RecordTaskGrade, TaskRow
<1>5. SubmissionTurn(q)
  BY <1>1, <1>2, <1>3, TaskAssumption DEF SubmissionTurn, LearningInv, KnowledgeInv, WriterTypeOK, Copies
<1>6. KnowledgeInv'
  BY <1>2, <1>5, SameRows DEF LearningInv
<1>7. SignalInv'
  BY <1>2, <1>3, <1>5, OneSignalMoves DEF LearningInv, SignalRowOf
<1>8. AttemptInv'
  <2>1. \A u \in Tasks : GradedOf(u) \subseteq GradedOf(u)'
    BY <1>5, CreditsStay
  <2>2. q \in GradedOf(t)' /\ q \notin GradedOf(t)
    BY <1>2 DEF GradedOf, Graded
  <2>3. \A u \in Tasks \ {t} : GradedOf(u)' = GradedOf(u)
    BY <1>1, <1>2 DEF GradedOf, Graded
  <2>4. IsFiniteSet(GradedOf(t)') /\ IsFiniteSet(GradedOf(t))
    BY TaskAssumption, FS_Subset DEF GradedOf, Graded
  <2>5. PICK m, n \in Nat : m = Cardinality(GradedOf(t)) /\ n = Cardinality(GradedOf(t)')
    BY <2>4, FS_CardinalityType
  <2>6. m + 1 <= n
    <3>1. IsFiniteSet(GradedOf(t) \cup {q}) /\ Cardinality(GradedOf(t) \cup {q}) = m + 1
      BY <2>2, <2>4, <2>5, FS_AddElement
    <3>2. GradedOf(t) \cup {q} \subseteq GradedOf(t)'
      BY <1>1, <2>1, <2>2
    <3>3. Cardinality(GradedOf(t) \cup {q}) <= n
      BY <2>4, <2>5, <3>2, FS_Subset
    <3>. QED  BY <3>1, <3>3
  <2>7. (task[t].attempts <= AtLeast(Cardinality(GradedOf(t)), 1))'
    <3>1. task[t].attempts \in Nat /\ task[t].attempts <= AtLeast(m, 1)
      BY <1>1, <2>5 DEF LearningInv, AttemptInv, TaskRow
    <3>2. submission[q].again => m >= 1
      BY <1>1, <2>5, CountsOfGrades DEF LearningInv, AttemptInv
    <3>3. task'[t].attempts <= AtLeast(n, 1)
      BY <1>4, <2>6, <3>1, <3>2 DEF AtLeast
    <3>. QED  BY <2>5, <3>3
  <2>8. \A u \in Tasks \ {t} : (task[u].attempts <= AtLeast(Cardinality(GradedOf(u)), 1))'
    <3>. SUFFICES ASSUME NEW u \in Tasks \ {t}
                  PROVE  task'[u].attempts <= AtLeast(Cardinality(GradedOf(u)'), 1)
      OBVIOUS
    <3>. QED  BY <1>4, <2>3 DEF LearningInv, AttemptInv
  <2>9. \A u \in Tasks : task'[u].graded => GradedOf(u)' # {}
    BY <1>4, <2>2, <2>3 DEF LearningInv, AttemptInv
  <2>10. \A p \in Signals : (submission[p].again => GradedOf(submission[p].task) # {})'
    <3>. SUFFICES ASSUME NEW p \in Signals, submission'[p].again PROVE GradedOf(submission[p].task)' # {}
      OBVIOUS
    <3>1. submission[p].again /\ submission'[p].task = submission[p].task
      BY <1>1, <1>2
    <3>2. PICK u \in Tasks : u = submission[p].task
      BY <1>1 DEF SubmissionRow
    <3>3. GradedOf(u)' # {}
      BY <2>1, <3>1, <3>2 DEF LearningInv, AttemptInv
    <3>. QED  BY <3>1, <3>2, <3>3 DEF GradedOf
  <2>. QED  BY <2>7, <2>8, <2>9, <2>10 DEF AttemptInv
<1>. QED  BY <1>6, <1>7, <1>8

\* What a signal leaves alone.
LEMMA AttemptsUntouched ==
    ASSUME LearningInv, UNCHANGED <<task, submission>>
    PROVE  AttemptInv'
  BY DEF LearningInv, AttemptInv, GradedOf, Graded

LEMMA LoadForSignalKeeps ==
    ASSUME LearningInv, NEW q \in Signals, NEW i \in Items, UNCHANGED <<readerVars, taskVars>>,
           submission[q].pc = "signal", LoadForSignal(q, i)
    PROVE  KnowledgeInv' /\ SignalInv' /\ AttemptInv'
<1>1. /\ DOMAIN signal = Signals /\ DOMAIN signal[q] = DOMAIN NoSignal /\ signal[q].left \subseteq Items
      /\ RowOf(i, uk[i])
  BY DEF LearningInv, KnowledgeInv, WriterTypeOK
<1>2. /\ uk' = uk /\ submission' = submission /\ task' = task /\ UNCHANGED <<run, rating>>
      /\ i \in signal[q].left /\ signal[q].pc = "load"
      /\ \A p \in Signals \ {q} : signal'[p] = signal[p]
      /\ DOMAIN signal' = Signals /\ DOMAIN signal'[q] = DOMAIN NoSignal
      /\ signal'[q].pc = "store" /\ signal'[q].left = signal[q].left \ {i}
      /\ signal'[q].item = i /\ signal'[q].copy = uk[i]
  BY <1>1 DEF LoadForSignal, readerVars, taskVars, NoSignal
<1>3. SubmissionTurn(q)
  BY <1>1, <1>2 DEF SubmissionTurn, Awaits
<1>4. KnowledgeInv'
  BY <1>2, <1>3, SameRows DEF LearningInv
<1>5. SignalInv'
  BY <1>2, <1>3, OneSignalMoves DEF LearningInv, SignalInv, SignalRowOf
<1>6. AttemptInv'
  BY <1>2, AttemptsUntouched
<1>. QED  BY <1>4, <1>5, <1>6

\* The store adds one to the copy, and the submission to those that are credited.
LEMMA StoreForSignalKeeps ==
    ASSUME LearningInv, NEW q \in Signals, UNCHANGED <<readerVars, taskVars>>,
           submission[q].pc = "signal", StoreForSignal(q)
    PROVE  KnowledgeInv' /\ SignalInv' /\ AttemptInv'
<1>1. /\ DOMAIN signal = Signals /\ DOMAIN signal[q] = DOMAIN NoSignal /\ signal[q].left \subseteq Items
      /\ signal[q].pc = "store" /\ signal[q].item \in Items
      /\ signal[q].item \in TargetsOf[submission[q].task] \ signal[q].left
      /\ RowOf(signal[q].item, signal[q].copy)
      /\ uk \in [Items -> KnowledgeRow]
  BY DEF LearningInv, KnowledgeInv, WriterTypeOK, Copies, SignalInv, StoreForSignal
<1>2. PICK i \in Items : i = signal[q].item
  BY <1>1
<1>3. /\ submission' = submission /\ task' = task /\ UNCHANGED <<run, rating>>
      /\ \A p \in Signals \ {q} : signal'[p] = signal[p]
      /\ DOMAIN signal' = Signals /\ DOMAIN signal'[q] = DOMAIN NoSignal
      /\ signal'[q].pc \in {"done", "load"} /\ (signal'[q].pc = "done" <=> signal[q].left = {})
      /\ signal'[q].left = signal[q].left
  BY <1>1 DEF StoreForSignal, readerVars, taskVars, NoSignal
<1>4. SubmissionTurn(q)
  BY <1>1, <1>3 DEF SubmissionTurn, Awaits
<1>. DEFINE row == WithGrade(signal[q].copy, i \in signal[q].shown)
<1>5. PICK confident \in BOOLEAN : uk' = [uk EXCEPT ![i] = Advanced(row, confident)]
  BY <1>2 DEF StoreForSignal, Refresh
<1>. DEFINE new == Advanced(row, confident)
<1>6. PICK copy \in KnowledgeRow : copy = signal[q].copy
  BY <1>1 DEF RowOf
<1>7. /\ row \in KnowledgeRow /\ row.total = copy.total + 1
      /\ row.correct <= row.total
  <2>1. copy.correct <= copy.total /\ copy.correct \in Nat /\ copy.total \in Nat
    BY <1>1, <1>6 DEF RowOf, KnowledgeRow
  <2>2. PICK total, correct \in Nat :
           /\ total = copy.total + 1 /\ correct <= total
           /\ correct = copy.correct + IF i \in signal[q].shown THEN 1 ELSE 0
    <3>1. CASE i \in signal[q].shown
      BY <2>1, <3>1
    <3>2. CASE i \notin signal[q].shown
      BY <2>1, <3>2
    <3>. QED  BY <3>1, <3>2
  <2>3. row = [copy EXCEPT !.total = total, !.correct = correct]
    BY <1>6, <2>2 DEF WithGrade
  <2>. HIDE DEF row
  <2>. QED  BY <2>2, <2>3 DEF KnowledgeRow
<1>. HIDE DEF row
<1>8. /\ new \in KnowledgeRow /\ new.total = copy.total + 1 /\ new.correct <= new.total
      /\ StageReached(new)
  BY <1>7, AdvancedRow
<1>. HIDE DEF new
<1>9. copy.total + 1 <= Cardinality(Credited(i)')
  <2>1. q \notin Credited(i)
    BY <1>1, <1>2 DEF Credited, Awaits
  <2>2. q \in Credited(i)'
    <3>1. q \in Graded /\ i \in TargetsOf[submission[q].task]
      BY <1>1, <1>2 DEF Graded
    <3>2. ~Awaits(q, i)'
      BY <1>1, <1>2, <1>3 DEF Awaits
    <3>3. Graded' = Graded
      BY <1>3 DEF Graded
    <3>. QED  BY <1>3, <3>1, <3>2, <3>3 DEF Credited, GradedFor
  <2>3. IsFiniteSet(Credited(i)) /\ IsFiniteSet(Credited(i)')
    BY TaskAssumption, FS_Subset DEF Credited, GradedFor, Graded
  <2>4. PICK m, n \in Nat : m = Cardinality(Credited(i)) /\ n = Cardinality(Credited(i)')
    BY <2>3, FS_CardinalityType
  <2>5. IsFiniteSet(Credited(i) \cup {q}) /\ Cardinality(Credited(i) \cup {q}) = m + 1
    BY <2>1, <2>3, <2>4, FS_AddElement
  <2>6. Credited(i) \cup {q} \subseteq Credited(i)'
    BY <1>4, <2>2, CreditsStay
  <2>7. m + 1 <= n
    BY <2>3, <2>4, <2>5, <2>6, FS_Subset
  <2>8. copy.total <= m /\ copy.total \in Nat
    BY <1>1, <1>2, <1>6, <2>4 DEF RowOf, KnowledgeRow
  <2>. QED  BY <2>4, <2>7, <2>8
<1>10. uk' = [uk EXCEPT ![i] = new]
  BY <1>5 DEF new
<1>11. uk' \in [Items -> KnowledgeRow]
  BY <1>1, <1>8, <1>10
<1>12. \A k \in Items : RowOf(k, uk[k])' /\ StageReached(uk[k])'
  <2>. SUFFICES ASSUME NEW k \in Items PROVE RowOf(k, uk[k])' /\ StageReached(uk'[k])
    BY DEF StageReached
  <2>1. CASE k = i
    <3>1. uk'[k] = new
      BY <1>1, <1>10, <2>1
    <3>. QED  BY <1>8, <1>9, <2>1, <3>1 DEF RowOf
  <2>2. CASE k # i
    <3>1. uk'[k] = uk[k] /\ RowOf(k, uk[k]) /\ StageReached(uk[k])
      BY <1>1, <1>10, <2>2 DEF LearningInv, KnowledgeInv
    <3>2. \A old : RowOf(k, old) => RowOf(k, old)'
      BY <1>4, CreditsStay, RowStays
    <3>. QED  BY <3>1, <3>2
  <2>. QED  BY <2>1, <2>2
<1>13. KnowledgeInv'
  BY <1>4, <1>11, <1>12, SubmissionKeepsRows DEF LearningInv
<1>14. SignalInv'
  BY <1>1, <1>3, <1>4, OneSignalMoves DEF LearningInv, SignalInv, SignalRowOf
<1>15. AttemptInv'
  BY <1>3, AttemptsUntouched
<1>. QED  BY <1>13, <1>14, <1>15

-----------------------------------------------------------------------------
\* Verifications, reports and their jobs read no row and change no submission.
LEMMA OtherTaskStepsKeep ==
    ASSUME LearningInv, TaskInv', UNCHANGED readerVars,
           \/ \E k \in Skills : VerifyStep(k)
           \/ \E r \in Reports : \/ ReportTask(r) \/ ReportStep(r) \/ EnqueueRegenerationFails(r) \/ ReportDies(r)
                                 \/ RegenStep(r) \/ RegenDies(r)
    PROVE  KnowledgeInv' /\ SignalInv' /\ AttemptInv'
<1>1. UNCHANGED <<submission, uk, signal, run, rating>>
  BY DEF VerifyStep, ReportTask, ReportStep, CreateReport, EnqueueRegeneration, RecordUnavailable,
         EnqueueRegenerationFails, ReportDies, RegenStep, RegenDies, RegenLoad, RegenWritesOutcome,
         RegenGenerate, ReplaceTaskContent, RegenFails, FailTaskRegeneration, RegenFinish,
         taskVars, acquireVars, readerVars
<1>2. /\ \A t \in Tasks : task'[t].graded = task[t].graded
      /\ \A t \in Tasks : task'[t].attempts = task[t].attempts \/ task'[t].attempts = 1
  <2>1. CASE task' = task
    BY <2>1
  <2>2. CASE \E r \in Reports : ReplaceTaskContent(r)
    BY <2>2 DEF ReplaceTaskContent, LearningInv, TaskInv, TaskTypeOK, TaskRow
  <2>. QED
    BY <2>1, <2>2
       DEF VerifyStep, ReportTask, ReportStep, CreateReport, EnqueueRegeneration, RecordUnavailable,
         EnqueueRegenerationFails, ReportDies, RegenStep, RegenDies, RegenLoad, RegenWritesOutcome,
         RegenGenerate, RegenFails, FailTaskRegeneration, RegenFinish, taskVars
<1>3. KnowledgeInv' /\ SignalInv'
  <2>1. \A i : Credited(i)' = Credited(i)
    BY <1>1 DEF Credited, GradedFor, Graded, Awaits
  <2>2. \A i, row : RowOf(i, row)' <=> RowOf(i, row)
    BY <2>1 DEF RowOf
  <2>3. KnowledgeInv'
    BY <1>1, <2>2 DEF LearningInv, KnowledgeInv, WriterTypeOK, Copies
  <2>. QED  BY <1>1, <2>3 DEF LearningInv, SignalInv
<1>4. AttemptInv'
  <2>1. \A t \in Tasks : GradedOf(t) \subseteq GradedOf(t)'
    BY <1>1 DEF GradedOf, Graded
  <2>2. \A p \in Signals : submission'[p].again => GradedOf(submission'[p].task) # {}
    BY <1>1 DEF LearningInv, AttemptInv
  <2>3. \A p \in Signals : submission'[p].task \in Tasks
    BY DEF TaskInv, TaskTypeOK, SubmissionRow
  <2>. QED  BY <1>2, <2>1, <2>2, <2>3, AttemptsStay DEF LearningInv
<1>. QED  BY <1>3, <1>4

LEMMA TasksKeep ==
    ASSUME LearningInv, TaskInv', TaskNext, UNCHANGED readerVars
    PROVE  KnowledgeInv' /\ SignalInv' /\ AttemptInv'
<1>1. ASSUME NEW q \in Signals, SubmitStep(q) \/ SubmissionDies(q) \/ \E t \in Tasks : Submit(q, t)
      PROVE  KnowledgeInv' /\ SignalInv' /\ AttemptInv'
  <2>1. CASE (\E t \in Tasks : Submit(q, t)) \/ Grade(q) \/ LearnSkills(q) \/ SubmissionDies(q)
    <3>1. UNCHANGED acquireVars
      BY <2>1 DEF Submit, Grade, LearnSkills, SubmissionDies
    <3>. QED  BY <2>1, <3>1, QuietTurn
  <2>2. CASE RecordTaskGrade(q)
    BY <2>2, RecordKeeps
  <2>3. CASE LearnItems(q)
    BY <2>3, LoadForSignalKeeps, StoreForSignalKeeps DEF LearnItems, ApplyTaskSignal
  <2>4. CASE BeginXP(q)
    BY <2>4, BeginXPKeeps
  <2>. QED  BY <1>1, <2>1, <2>2, <2>3, <2>4 DEF SubmitStep
<1>. QED  BY <1>1, OtherTaskStepsKeep DEF TaskNext

LEMMA InitialLearning == LearningInit => LearningInv
<1>. SUFFICES ASSUME LearningInit PROVE LearningInv
  OBVIOUS
<1>1. TaskInv
  BY InitialTasks DEF LearningInit
<1>2. /\ uk = [i \in Items |-> ZeroRow] /\ signal = [q \in Signals |-> NoSignal]
      /\ run = [s \in Stories |-> NoRun] /\ rating = [i \in Items |-> NoRating]
      /\ submission = [q \in Signals |-> NoSubmission]
      /\ task = [t \in Tasks |-> [graded |-> FALSE, correct |-> FALSE, content |-> 1, attempts |-> 1]]
  BY DEF LearningInit, AcquireInit, ReaderInit, TaskInit
<1>3. ZeroRow \in KnowledgeRow
  BY DEF ZeroRow, KnowledgeRow, Stages
<1>4. \A i \in Items : RowOf(i, ZeroRow)
  BY ZeroIsRow, TaskAssumption
<1>5. StageReached(ZeroRow)
  <2>. DEFINE reached == Stage(ZeroRow, FALSE)
  <2>1. reached = "unseen" /\ ZeroRow.stage = "unseen"
    BY DEF Stage, ZeroRow
  <2>. HIDE DEF reached
  <2>2. StageOrder(reached) <= StageOrder(ZeroRow.stage)
    BY <2>1, StageNames
  <2>. QED  BY <2>2 DEF StageReached, reached
<1>6. KnowledgeInv
  <2>1. WriterTypeOK
    BY <1>2, <1>3 DEF WriterTypeOK, NoSignal, NoRun, NoRating
  <2>2. Copies
    BY <1>2, <1>4 DEF Copies, NoSignal, NoRun, NoRating
  <2>. QED  BY <1>2, <1>4, <1>5, <2>1, <2>2 DEF KnowledgeInv
<1>7. SignalInv
  BY <1>2 DEF SignalInv, NoSubmission
<1>8. AttemptInv
  <2>1. \A t \in Tasks : task[t].attempts = 1 /\ ~task[t].graded
    BY <1>2
  <2>2. \A t \in Tasks : 1 <= AtLeast(Cardinality(GradedOf(t)), 1)
    BY CountsOfGrades DEF AtLeast
  <2>3. \A q \in Signals : ~submission[q].again
    BY <1>2 DEF NoSubmission
  <2>. QED  BY <2>1, <2>2, <2>3 DEF AttemptInv
<1>. QED  BY <1>1, <1>6, <1>7, <1>8 DEF LearningInv

LEMMA LearningStep == LearningInv /\ [LearningNext]_learningVars => LearningInv'
<1>. SUFFICES ASSUME LearningInv, [LearningNext]_learningVars PROVE LearningInv'
  OBVIOUS
<1>1. CASE ReaderNext /\ UNCHANGED <<signal, taskVars, skillVars>>
  <2>1. UNCHANGED taskVars /\ UNCHANGED <<signal, submission, task>>
    BY <1>1 DEF taskVars
  <2>2. TaskInv'
    BY <2>1, TaskStep DEF LearningInv
  <2>3. KnowledgeInv'
    BY <1>1, <2>1, ReaderKeeps DEF LearningInv
  <2>4. SignalInv' /\ AttemptInv'
    BY <2>1 DEF LearningInv, SignalInv, AttemptInv, GradedOf, Graded
  <2>. QED  BY <2>2, <2>3, <2>4 DEF LearningInv
<1>2. CASE TaskNext /\ UNCHANGED readerVars
  <2>1. TaskInv'
    BY <1>2, TaskStep DEF LearningInv
  <2>. QED  BY <1>2, <2>1, TasksKeep DEF LearningInv
<1>3. CASE UNCHANGED learningVars
  <2>1. UNCHANGED <<taskVars, acquireVars, readerVars>>
    BY <1>3 DEF learningVars
  <2>2. UNCHANGED <<uk, signal, submission, task, run, rating>>
    BY <2>1 DEF taskVars, acquireVars, readerVars
  <2>3. TaskInv'
    BY <2>1, TaskStep DEF LearningInv
  <2>4. \A i, row : RowOf(i, row)' <=> RowOf(i, row)
    BY <2>2 DEF RowOf, Credited, GradedFor, Graded, Awaits
  <2>5. KnowledgeInv'
    BY <2>2, <2>4 DEF LearningInv, KnowledgeInv, WriterTypeOK, Copies
  <2>6. SignalInv' /\ AttemptInv'
    BY <2>2 DEF LearningInv, SignalInv, AttemptInv, GradedOf, Graded
  <2>. QED  BY <2>3, <2>5, <2>6 DEF LearningInv
<1>. QED  BY <1>1, <1>2, <1>3 DEF LearningNext

THEOREM LearningInvariant == LearningSpec => []LearningInv
  BY InitialLearning, LearningStep, PTL DEF LearningSpec

\* Whatever the order in which jobs, ratings and grades read a row and store their copies
\* of it, the stored row counts no more correct answers than answers, and its stage is one
\* its own counters reached (acquire.go, Refresh).
THEOREM KnowledgeIsCoherent == LearningSpec => []RowsAreCoherent
<1>1. LearningInv => RowsAreCoherent
  BY DEF LearningInv, KnowledgeInv, RowOf, StageReached, RowsAreCoherent
<1>. QED  BY <1>1, LearningInvariant, PTL

\* However submissions, jobs and ratings overlap, an item is credited with no more answers,
\* and a task with no more attempts, than submissions were graded (handler/tasks.go).
THEOREM CreditsAreEarned == LearningSpec => []CreditsAreGrades
<1>1. LearningInv => CreditsAreGrades
  <2>. SUFFICES ASSUME LearningInv PROVE CreditsAreGrades
    OBVIOUS
  <2>. DEFINE graded == {q \in Signals : submission[q].pc \in {"signal", "xp", "done", "dead"}}
  <2>0. graded = Graded
    BY DEF Graded
  <2>1. ASSUME NEW i \in Items
        PROVE  uk[i].total <= Cardinality({q \in graded : i \in TargetsOf[submission[q].task]})
    <3>1. IsFiniteSet(GradedFor(i)) /\ Credited(i) \subseteq GradedFor(i)
      BY TaskAssumption, FS_Subset DEF Credited, GradedFor, Graded
    <3>2. PICK m, n \in Nat : m = Cardinality(Credited(i)) /\ n = Cardinality(GradedFor(i))
      BY <3>1, FS_Subset, FS_CardinalityType
    <3>3. m <= n
      BY <3>1, <3>2, FS_Subset
    <3>4. uk[i].total <= m /\ uk[i].total \in Nat
      BY <2>1, <3>2 DEF LearningInv, KnowledgeInv, RowOf, KnowledgeRow
    <3>5. {q \in graded : i \in TargetsOf[submission[q].task]} = GradedFor(i)
      BY <2>0 DEF GradedFor
    <3>6. Cardinality({q \in graded : i \in TargetsOf[submission[q].task]}) = n
      BY <3>2, <3>5
    <3>7. uk[i].total <= n
      BY <3>2, <3>3, <3>4
    <3>. QED  BY <3>6, <3>7
  <2>2. \A t \in Tasks : task[t].attempts <= AtLeast(Cardinality({q \in graded : submission[q].task = t}), 1)
    BY <2>0 DEF LearningInv, AttemptInv, GradedOf
  <2>. QED  BY <2>1, <2>2 DEF CreditsAreGrades
<1>. QED  BY <1>1, LearningInvariant, PTL

-----------------------------------------------------------------------------
\* A row counts that much more than another one, and no more.
Grown(row, old, lookups, variety, exposure) ==
    /\ row.lookups <= old.lookups + lookups
    /\ row.variety <= old.variety + variety
    /\ row.exposure <= old.exposure + exposure

\* The events a run has begun with so far are those it read and has not left.
Running(s) == run[s].pc # "idle"
Started(s) == run[s].ids \ run[s].left

\* An event that is marked, or that a run has taken up to mark it.
Taken(e) == event[e] = "processed" \/ \E s \in Stories : Running(s) /\ e \in Started(s)

\* The words of a story have been counted for i, or are about to be forgotten.
Exposed(s, i) == ~FirstRead(s) \/ (Running(s) /\ i \notin run[s].load)

\* The event a run has taken last; the run has still to store i for it.
Latest(s, e) == e \in Started(s) /\ \A f \in Started(s) : f <= e
Owes(s, i) ==
    \/ run[s].pc = "not_ready" /\ i \in run[s].targets
    \/ run[s].pc = "not_ready_store" /\ (i = run[s].item \/ i \in run[s].targets)
Settled(e, i) == Taken(e) /\ \A s \in Stories : ~(Owes(s, i) /\ Latest(s, e))

\* What may be counted for an item, and what has been since a run last failed.
Accounts == {"lookup", "variety", "word", "again"}
Due(a, i) ==
    CASE a = "lookup"  -> EventsOn("lookup", i)
      [] a = "variety" -> {s \in StoriesRead : Words[s][i] > 0}
      [] a = "word"    -> UNION {{s} \X (1..Words[s][i]) : s \in StoriesRead}
      [] a = "again"   -> {e \in Events : InLog(e) /\ EventOf[e].kind = "not_ready"
                                          /\ i \in SessionTargets[EventOf[e].story]}
Spent(a, i) ==
    CASE a = "lookup"  -> {e \in Due(a, i) : Taken(e)}
      [] a = "variety" -> {s \in Due(a, i) : Exposed(s, i)}
      [] a = "word"    -> {w \in Due(a, i) : Exposed(w[1], i)}
      [] a = "again"   -> {e \in Due(a, i) : Settled(e, i)}

Account(a, i) == failures * Cardinality(Due(a, i)) + Cardinality(Spent(a, i))

Afforded(i, row) ==
    /\ row.lookups <= Account("lookup", i)
    /\ row.variety <= Account("variety", i)
    /\ row.exposure <= Account("word", i) + Account("again", i)

\* The row of i, and every copy of it.
Held(i) ==
    {uk[i]} \cup {run[s].rows[i] : s \in Stories}
    \cup {run[s].copy : s \in {z \in Stories : run[z].pc = "not_ready_store" /\ run[z].item = i}}
    \cup {signal[q].copy : q \in {p \in Signals : signal[p].pc = "store" /\ signal[p].item = i}}
    \cup {rating[k].copy : k \in {j \in {i} : rating[j].pc = "store"}}

\* A run takes the events it found pending one after the other.
RunShape(s) ==
    /\ DOMAIN job[s] = DOMAIN NoJob
    /\ Running(s) => job[s].status = "running"
    /\ Running(s) =>
          /\ run[s].pc \in {"load", "not_ready", "not_ready_store"}
          /\ run[s].ids \subseteq PendingOf(s) /\ run[s].left \subseteq run[s].ids
          /\ \A e \in Started(s), f \in run[s].left : e < f
          /\ run[s].ids = {} => ~FirstRead(s)
          /\ run[s].load # {} => FirstRead(s) /\ run[s].pc = "load"
          /\ \A i \in run[s].load : i \in Items /\ Words[s][i] > 0
          /\ run[s].pc # "load" =>
                /\ \E e \in Events : Latest(s, e) /\ EventOf[e].kind = "not_ready"
                /\ run[s].targets \subseteq SessionTargets[s]
          /\ run[s].pc = "not_ready_store" => run[s].item \in SessionTargets[s] \ run[s].targets

\* What is held of an item has been paid for.
CountInv ==
    /\ failures \in Nat
    /\ DOMAIN event = Events /\ DOMAIN job = Stories
    /\ \A s \in Stories : RunShape(s)
    /\ \A i \in Items : \A row \in Held(i) : Afforded(i, row)

-----------------------------------------------------------------------------
LEMMA AccountsAre == \A a \in Accounts : a = "lookup" \/ a = "variety" \/ a = "word" \/ a = "again"
  BY DEF Accounts

LEMMA WordsFinite ==
    ASSUME NEW stories \in SUBSET Stories, NEW i \in Items
    PROVE  IsFiniteSet(UNION {{s} \X (1..Words[s][i]) : s \in stories})
<1>. DEFINE F == [s \in stories |-> {s} \X (1..Words[s][i])]
            T == {{s} \X (1..Words[s][i]) : s \in stories}
<1>1. IsFiniteSet(stories)
  BY EventAssumption, FS_Subset
<1>2. F \in Surjection(stories, T)
  BY DEF Surjection
<1>3. \A s \in stories : IsFiniteSet({s} \X (1..Words[s][i]))
  <2>. SUFFICES ASSUME NEW s \in stories PROVE IsFiniteSet({s} \X (1..Words[s][i]))
    OBVIOUS
  <2>1. Words[s][i] \in Nat
    BY WordAssumption
  <2>2. PICK n \in Nat : n = Words[s][i]
    BY <2>1
  <2>3. IsFiniteSet(1..n) /\ IsFiniteSet({s})
    <3>1. IsFiniteSet(1..n)
      BY FS_Interval
    <3>2. IsFiniteSet({s})
      BY FS_Singleton
    <3>. QED  BY <3>1, <3>2
  <2>4. IsFiniteSet({s} \X (1..n))
    BY <2>3, FS_Product
  <2>. QED  BY <2>2, <2>4
<1>4. \A t \in T : IsFiniteSet(t)
  BY <1>3
<1>. HIDE DEF F, T
<1>5. IsFiniteSet(T)
  BY <1>1, <1>2, FS_Surjection
<1>6. IsFiniteSet(UNION T)
  BY <1>4, <1>5, FS_UNION
<1>. QED  BY <1>6 DEF T

LEMMA EventsFinite == IsFiniteSet(Events)
  BY EventAssumption, FS_Interval DEF Events

LEMMA AccountSets ==
    ASSUME NEW a \in Accounts, NEW i \in Items
    PROVE  /\ IsFiniteSet(Due(a, i)) /\ Spent(a, i) \subseteq Due(a, i)
           /\ IsFiniteSet(Due(a, i)') /\ Spent(a, i)' \subseteq Due(a, i)'
<1>1. Spent(a, i) \subseteq Due(a, i) /\ Spent(a, i)' \subseteq Due(a, i)'
  BY AccountsAre DEF Spent
<1>2. CASE a = "lookup"
  <2>1. Due(a, i) \subseteq Events /\ Due(a, i)' \subseteq Events
    BY <1>2 DEF Due, EventsOn
  <2>. QED  BY <1>1, <2>1, EventsFinite, FS_Subset
<1>3. CASE a = "again"
  <2>1. Due(a, i) \subseteq Events /\ Due(a, i)' \subseteq Events
    BY <1>3 DEF Due
  <2>. QED  BY <1>1, <2>1, EventsFinite, FS_Subset
<1>4. CASE a = "variety"
  <2>1. Due(a, i) \subseteq Stories /\ Due(a, i)' \subseteq Stories
    BY <1>4 DEF Due, StoriesRead
  <2>. QED  BY <1>1, <2>1, EventAssumption, FS_Subset
<1>5. CASE a = "word"
  <2>1. StoriesRead \subseteq Stories /\ StoriesRead' \subseteq Stories
    BY DEF StoriesRead
  <2>2. /\ Due(a, i) = UNION {{s} \X (1..Words[s][i]) : s \in StoriesRead}
        /\ Due(a, i)' = UNION {{s} \X (1..Words[s][i]) : s \in StoriesRead'}
    BY <1>5 DEF Due
  <2>3. IsFiniteSet(Due(a, i))
    BY <2>1, <2>2, WordsFinite
  <2>4. IsFiniteSet(Due(a, i)')
    <3>1. PICK stories \in SUBSET Stories : stories = StoriesRead'
      BY <2>1
    <3>2. IsFiniteSet(UNION {{s} \X (1..Words[s][i]) : s \in stories})
      BY WordsFinite
    <3>3. Due(a, i)' = UNION {{s} \X (1..Words[s][i]) : s \in stories}
      BY <2>2, <3>1
    <3>. QED  BY <3>2, <3>3
  <2>. QED  BY <1>1, <2>3, <2>4
<1>. QED  BY <1>2, <1>3, <1>4, <1>5, AccountsAre

\* The arithmetic of the accounts.
LEMMA Products ==
    ASSUME NEW f \in Nat, NEW a \in Nat, NEW b \in Nat, NEW u \in Nat, NEW v \in Nat, a <= b
    PROVE  /\ f * a + u \in Nat
           /\ u <= v => f * a + u <= f * b + v
           /\ u <= a => f * a + u <= (f + 1) * b + v
<1>1. PICK d \in Nat : b = a + d
  <2>1. b - a \in Nat /\ b = a + (b - a)
    OBVIOUS
  <2>. QED  BY <2>1
<1>2. PICK fa, fd \in Nat : fa = f * a /\ fd = f * d
  <2>1. f * a \in Nat /\ f * d \in Nat
    OBVIOUS
  <2>. QED  BY <2>1
<1>3. f * b = fa + fd
  BY <1>1, <1>2
<1>4. (f + 1) * b = fa + fd + a + d
  BY <1>1, <1>3
<1>. QED  BY <1>2, <1>3, <1>4

\* Nothing is taken off an account, and what is counted for the first time is added to it.
LEMMA AccountGains ==
    ASSUME NEW a \in Accounts, NEW i \in Items, failures \in Nat, failures' = failures,
           Due(a, i) \subseteq Due(a, i)', Spent(a, i) \subseteq Spent(a, i)',
           NEW more, IsFiniteSet(more), more \subseteq Spent(a, i)', more \cap Spent(a, i) = {}
    PROVE  /\ Account(a, i) \in Nat /\ Account(a, i)' \in Nat /\ Cardinality(more) \in Nat
           /\ Account(a, i) + Cardinality(more) <= Account(a, i)'
<1>1. /\ IsFiniteSet(Due(a, i)) /\ IsFiniteSet(Due(a, i)')
      /\ IsFiniteSet(Spent(a, i)) /\ IsFiniteSet(Spent(a, i)')
  BY AccountSets, FS_Subset
<1>2. PICK d, e, u, v, m \in Nat :
         /\ d = Cardinality(Due(a, i)) /\ e = Cardinality(Due(a, i)')
         /\ u = Cardinality(Spent(a, i)) /\ v = Cardinality(Spent(a, i)') /\ m = Cardinality(more)
  BY <1>1, FS_CardinalityType
<1>3. d <= e
  BY <1>1, <1>2, FS_Subset
<1>4. u + m <= v
  <2>1. Cardinality(more \cup Spent(a, i)) = m + u - Cardinality({})
    BY <1>1, <1>2, FS_Union
  <2>2. Cardinality(more \cup Spent(a, i)) = u + m
    BY <2>1, FS_EmptySet
  <2>3. more \cup Spent(a, i) \in SUBSET Spent(a, i)'
    OBVIOUS
  <2>4. Cardinality(more \cup Spent(a, i)) <= v
    BY <1>1, <1>2, <2>3, FS_Subset
  <2>. QED  BY <2>2, <2>4
<1>5. Account(a, i) = failures * d + u /\ Account(a, i)' = failures * e + v
  BY <1>2 DEF Account
<1>6. failures * d + u \in Nat /\ failures * e + v \in Nat
  BY Products
<1>7. failures * d + (u + m) <= failures * e + v
  BY <1>3, <1>4, Products
<1>8. failures * d + (u + m) = (failures * d + u) + m
  OBVIOUS
<1>. QED  BY <1>2, <1>5, <1>6, <1>7, <1>8

LEMMA AccountKeeps ==
    ASSUME NEW a \in Accounts, NEW i \in Items, failures \in Nat, failures' = failures,
           Due(a, i) \subseteq Due(a, i)', Spent(a, i) \subseteq Spent(a, i)'
    PROVE  Account(a, i) \in Nat /\ Account(a, i)' \in Nat /\ Account(a, i) <= Account(a, i)'
<1>1. IsFiniteSet({}) /\ Cardinality({}) = 0
  BY FS_EmptySet
<1>2. Account(a, i) \in Nat /\ Account(a, i)' \in Nat /\ Account(a, i) + Cardinality({}) <= Account(a, i)'
  BY <1>1, AccountGains
<1>. QED  BY <1>1, <1>2

\* A failed run may be repeated: everything may be counted once more.
LEMMA AccountAfterFailure ==
    ASSUME NEW a \in Accounts, NEW i \in Items, failures \in Nat, failures' = failures + 1,
           Due(a, i)' = Due(a, i)
    PROVE  Account(a, i) \in Nat /\ Account(a, i)' \in Nat /\ Account(a, i) <= Account(a, i)'
<1>1. IsFiniteSet(Due(a, i)) /\ IsFiniteSet(Spent(a, i)) /\ IsFiniteSet(Spent(a, i)')
  BY AccountSets, FS_Subset
<1>2. PICK d, u, v \in Nat : d = Cardinality(Due(a, i)) /\ u = Cardinality(Spent(a, i))
                             /\ v = Cardinality(Spent(a, i)')
  BY <1>1, FS_CardinalityType
<1>3. u <= d
  BY <1>1, <1>2, AccountSets, FS_Subset
<1>4. Account(a, i) = failures * d + u /\ Account(a, i)' = (failures + 1) * d + v
  BY <1>2 DEF Account
<1>5. failures * d + u <= (failures + 1) * d + v /\ failures * d + u \in Nat
  BY <1>3, Products
<1>6. (failures + 1) * d + v \in Nat
  BY Products
<1>. QED  BY <1>4, <1>5, <1>6

\* A copy is covered after a step that added no more to it than to the accounts.
LEMMA StaysAfforded ==
    ASSUME NEW i \in Items, NEW row, NEW old, Afforded(i, old),
           NEW lookups \in Nat, NEW variety \in Nat, NEW exposure \in Nat,
           Grown(row, old, lookups, variety, exposure),
           row.lookups \in Nat, row.variety \in Nat, row.exposure \in Nat,
           old.lookups \in Nat, old.variety \in Nat, old.exposure \in Nat,
           \A a \in Accounts : Account(a, i) \in Nat /\ Account(a, i)' \in Nat
                               /\ Account(a, i) <= Account(a, i)',
           Account("lookup", i) + lookups <= Account("lookup", i)',
           Account("variety", i) + variety <= Account("variety", i)',
           Account("word", i) + Account("again", i) + exposure <= Account("word", i)' + Account("again", i)'
    PROVE  Afforded(i, row)'
<1>1. PICK l, v, w, g, l1, v1, w1, g1 \in Nat :
         /\ l = Account("lookup", i) /\ v = Account("variety", i)
         /\ w = Account("word", i) /\ g = Account("again", i)
         /\ l1 = Account("lookup", i)' /\ v1 = Account("variety", i)'
         /\ w1 = Account("word", i)' /\ g1 = Account("again", i)'
  BY DEF Accounts
<1>2. row.lookups <= l1
  BY <1>1 DEF Afforded, Grown
<1>3. row.variety <= v1
  BY <1>1 DEF Afforded, Grown
<1>4. row.exposure <= w1 + g1
  BY <1>1 DEF Afforded, Grown
<1>. QED  BY <1>1, <1>2, <1>3, <1>4 DEF Afforded

-----------------------------------------------------------------------------
\* What a step adds to the accounts of i, and where a row comes from.
Paid(i, lookups, variety, exposure) ==
    /\ Account("lookup", i) + lookups <= Account("lookup", i)'
    /\ Account("variety", i) + variety <= Account("variety", i)'
    /\ Account("word", i) + Account("again", i) + exposure <= Account("word", i)' + Account("again", i)'

Covered(i, row, lookups, variety, exposure) ==
    \E old \in Held(i) : Grown(row, old, lookups, variety, exposure)

Kept(i) == \A a \in Accounts : Account(a, i) \in Nat /\ Account(a, i)' \in Nat /\ Account(a, i) <= Account(a, i)'

LEMMA NothingPaid ==
    ASSUME NEW i \in Items, Kept(i)
    PROVE  Paid(i, 0, 0, 0)
<1>1. PICK l, v, w, g, l1, v1, w1, g1 \in Nat :
         /\ l = Account("lookup", i) /\ v = Account("variety", i)
         /\ w = Account("word", i) /\ g = Account("again", i)
         /\ l1 = Account("lookup", i)' /\ v1 = Account("variety", i)'
         /\ w1 = Account("word", i)' /\ g1 = Account("again", i)'
  BY DEF Kept, Accounts
<1>2. l <= l1 /\ v <= v1 /\ w <= w1 /\ g <= g1
  BY <1>1 DEF Kept, Accounts
<1>. QED  BY <1>1, <1>2 DEF Paid

LEMMA HeldRows ==
    ASSUME KnowledgeInv, NEW i \in Items, NEW row \in Held(i)
    PROVE  row \in KnowledgeRow /\ row.lookups \in Nat /\ row.variety \in Nat /\ row.exposure \in Nat
<1>1. row \in KnowledgeRow
  <2>1. CASE row = uk[i]
    BY <2>1 DEF KnowledgeInv, RowOf
  <2>2. CASE \E s \in Stories : row = run[s].rows[i]
    BY <2>2 DEF KnowledgeInv, Copies, RowOf
  <2>3. CASE \E s \in Stories : row = run[s].copy /\ run[s].pc = "not_ready_store"
    BY <2>3 DEF KnowledgeInv, Copies, RowOf
  <2>4. CASE \E q \in Signals : row = signal[q].copy /\ signal[q].pc = "store"
    BY <2>4 DEF KnowledgeInv, Copies, RowOf
  <2>5. CASE row = rating[i].copy /\ rating[i].pc = "store"
    BY <2>5 DEF KnowledgeInv, Copies, RowOf
  <2>. QED  BY <2>1, <2>2, <2>3, <2>4, <2>5 DEF Held
<1>. QED  BY <1>1 DEF KnowledgeRow

LEMMA HeldRowsAfter ==
    ASSUME KnowledgeInv', NEW i \in Items, NEW row \in Held(i)'
    PROVE  row.lookups \in Nat /\ row.variety \in Nat /\ row.exposure \in Nat
<1>1. row \in KnowledgeRow
  <2>1. CASE row = uk'[i]
    BY <2>1 DEF KnowledgeInv, RowOf
  <2>2. CASE \E s \in Stories : row = run'[s].rows[i]
    BY <2>2 DEF KnowledgeInv, Copies, RowOf
  <2>3. CASE \E s \in Stories : row = run'[s].copy /\ run'[s].pc = "not_ready_store"
    BY <2>3 DEF KnowledgeInv, Copies, RowOf
  <2>4. CASE \E q \in Signals : row = signal'[q].copy /\ signal'[q].pc = "store"
    BY <2>4 DEF KnowledgeInv, Copies, RowOf
  <2>5. CASE row = rating'[i].copy /\ rating'[i].pc = "store"
    BY <2>5 DEF KnowledgeInv, Copies, RowOf
  <2>. QED  BY <2>1, <2>2, <2>3, <2>4, <2>5 DEF Held
<1>. QED  BY <1>1 DEF KnowledgeRow

\* A row that counts what a held one counts, or nothing.
LEMMA AlikeIsCovered ==
    ASSUME KnowledgeInv, NEW i \in Items, NEW old \in Held(i), NEW row,
           NEW lookups \in Nat, NEW variety \in Nat, NEW exposure \in Nat,
           Alike(row, old) \/ row = ZeroRow
    PROVE  Covered(i, row, lookups, variety, exposure)
<1>1. old.lookups \in Nat /\ old.variety \in Nat /\ old.exposure \in Nat
  BY HeldRows
<1>2. row = ZeroRow => row.lookups = 0 /\ row.variety = 0 /\ row.exposure = 0
  BY DEF ZeroRow
<1>3. Grown(row, old, lookups, variety, exposure)
  BY <1>1, <1>2 DEF Grown, Alike
<1>. QED  BY <1>3 DEF Covered

LEMMA WhatIsHeld ==
    ASSUME NEW i \in Items
    PROVE  /\ uk[i] \in Held(i)
           /\ \A s \in Stories : run[s].rows[i] \in Held(i)
           /\ \A s \in Stories : run[s].pc = "not_ready_store" /\ run[s].item = i => run[s].copy \in Held(i)
           /\ \A q \in Signals : signal[q].pc = "store" /\ signal[q].item = i => signal[q].copy \in Held(i)
           /\ rating[i].pc = "store" => rating[i].copy \in Held(i)
  BY DEF Held

LEMMA RefreshedRow ==
    ASSUME DOMAIN uk = Items, NEW k \in Items, NEW row \in KnowledgeRow, Refresh(k, row)
    PROVE  Alike(uk'[k], row) /\ \A i \in Items \ {k} : uk'[i] = uk[i]
<1>1. PICK confident \in BOOLEAN : uk' = [uk EXCEPT ![k] = Advanced(row, confident)]
  BY DEF Refresh
<1>2. Alike(Advanced(row, confident), row)
  BY AdvancedRow
<1>. QED  BY <1>1, <1>2

\* The rows of i are covered after a step if each of them is.
LEMMA ItemAfter ==
    ASSUME KnowledgeInv, KnowledgeInv', CountInv, NEW i \in Items, Kept(i),
           NEW lookups \in Nat, NEW variety \in Nat, NEW exposure \in Nat,
           Paid(i, lookups, variety, exposure),
           \A row \in Held(i)' : Covered(i, row, lookups, variety, exposure)
    PROVE  \A row \in Held(i)' : Afforded(i, row)'
<1>. SUFFICES ASSUME NEW row \in Held(i)' PROVE Afforded(i, row)'
  OBVIOUS
<1>1. PICK old \in Held(i) : Grown(row, old, lookups, variety, exposure)
  BY DEF Covered
<1>2. Afforded(i, old)
  BY DEF CountInv
<1>3. old.lookups \in Nat /\ old.variety \in Nat /\ old.exposure \in Nat
  BY HeldRows
<1>4. row.lookups \in Nat /\ row.variety \in Nat /\ row.exposure \in Nat
  BY HeldRowsAfter
<1>5. \A a \in Accounts : Account(a, i) \in Nat /\ Account(a, i)' \in Nat /\ Account(a, i) <= Account(a, i)'
  BY DEF Kept
<1>6. /\ Account("lookup", i) + lookups <= Account("lookup", i)'
      /\ Account("variety", i) + variety <= Account("variety", i)'
      /\ Account("word", i) + Account("again", i) + exposure <= Account("word", i)' + Account("again", i)'
  BY DEF Paid
<1>. QED  BY <1>1, <1>2, <1>3, <1>4, <1>5, <1>6, StaysAfforded

-----------------------------------------------------------------------------
\* Nothing leaves the log, and nobody forgets what has been taken.
Remembers ==
    /\ \A e \in Events : InLog(e) => InLog(e)'
    /\ \A e \in Events : Taken(e) => Taken(e)'
    /\ \A s \in Stories, i \in Items : Exposed(s, i) => Exposed(s, i)'
    /\ \A e \in Events, i \in Items : Settled(e, i) => Settled(e, i)'

LEMMA AccountsGrow ==
    ASSUME Remembers, NEW a \in Accounts, NEW i \in Items
    PROVE  Due(a, i) \subseteq Due(a, i)' /\ Spent(a, i) \subseteq Spent(a, i)'
<1>0. StoriesRead \subseteq StoriesRead'
  BY DEF StoriesRead, StoryEvents, Remembers
<1>1. CASE a = "lookup"
  BY <1>1 DEF Due, Spent, EventsOn, Remembers
<1>2. CASE a = "variety"
  <2>1. StoriesRead \subseteq Stories
    BY DEF StoriesRead
  <2>. QED  BY <1>0, <1>2, <2>1 DEF Due, Spent, Remembers
<1>3. CASE a = "word"
  <2>1. Due(a, i) \subseteq Due(a, i)'
    BY <1>0, <1>3 DEF Due
  <2>2. \A w \in Due(a, i) : w[1] \in Stories
    BY <1>3 DEF Due, StoriesRead
  <2>3. Spent(a, i) = {w \in Due(a, i) : Exposed(w[1], i)} /\ Spent(a, i)' = {w \in Due(a, i)' : Exposed(w[1], i)'}
    BY <1>3 DEF Spent
  <2>. QED  BY <2>1, <2>2, <2>3 DEF Remembers
<1>4. CASE a = "again"
  BY <1>4 DEF Due, Spent, Remembers
<1>. QED  BY <1>1, <1>2, <1>3, <1>4, AccountsAre

LEMMA AccountsKept ==
    ASSUME Remembers, failures \in Nat, failures' = failures, NEW i \in Items
    PROVE  Kept(i)
  BY AccountsGrow, AccountKeeps DEF Kept

\* The step of one run, in the terms of that run alone.
LEMMA RunRemembers ==
    ASSUME CountInv, NEW s \in Stories, \A z \in Stories \ {s} : run'[z] = run[z],
           \A e \in Events : InLog(e) => InLog(e)',
           \A e \in Events : event[e] = "processed" => event'[e] = "processed",
           Running(s) => \A e \in Started(s) : event'[e] = "processed" \/ (Running(s)' /\ e \in Started(s)'),
           \A i \in Items : Exposed(s, i) => Exposed(s, i)',
           \A i \in Items, e \in Events : Taken(e) /\ Owes(s, i)' /\ Latest(s, e)' => Owes(s, i) /\ Latest(s, e)
    PROVE  Remembers
<1>1. \A e \in Events : Taken(e) => Taken(e)'
  BY DEF Taken, Running, Started
<1>2. \A z \in Stories, i \in Items : Exposed(z, i) => Exposed(z, i)'
  BY DEF Exposed, Running, FirstRead, StoryEvents
<1>3. ASSUME NEW e \in Events, NEW i \in Items, Settled(e, i) PROVE Settled(e, i)'
  <2>1. Taken(e) /\ Taken(e)'
    BY <1>1, <1>3 DEF Settled
  <2>2. ASSUME NEW z \in Stories PROVE ~(Owes(z, i)' /\ Latest(z, e)')
    <3>1. ~(Owes(z, i) /\ Latest(z, e))
      BY <1>3 DEF Settled
    <3>2. CASE z = s
      BY <2>1, <3>1, <3>2
    <3>3. CASE z # s
      BY <3>1, <3>3 DEF Owes, Latest, Started
    <3>. QED  BY <3>2, <3>3
  <2>. QED  BY <2>1, <2>2 DEF Settled
<1>. QED  BY <1>1, <1>2, <1>3 DEF Remembers

\* A run of another story keeps its shape.
LEMMA OtherShape ==
    ASSUME NEW z \in Stories, RunShape(z), run'[z] = run[z], job'[z] = job[z],
           \A e \in StoryEvents(z) : event'[e] = event[e]
    PROVE  RunShape(z)'
<1>1. PendingOf(z)' = PendingOf(z) /\ FirstRead(z)' = FirstRead(z)
  BY DEF PendingOf, FirstRead, StoryEvents
<1>. QED  BY <1>1 DEF RunShape, Running, Started, Latest

\* The rows of i after a step of a run are covered if those it wrote are.
LEMMA RunCovers ==
    ASSUME KnowledgeInv, NEW s \in Stories, NEW i \in Items, UNCHANGED <<signal, rating>>,
           \A z \in Stories \ {s} : run'[z] = run[z],
           NEW lookups \in Nat, NEW variety \in Nat, NEW exposure \in Nat,
           Covered(i, uk'[i], lookups, variety, exposure),
           Covered(i, run'[s].rows[i], lookups, variety, exposure),
           run'[s].pc = "not_ready_store" /\ run'[s].item = i
               => Covered(i, run'[s].copy, lookups, variety, exposure)
    PROVE  \A row \in Held(i)' : Covered(i, row, lookups, variety, exposure)
<1>0. \A old \in Held(i) : Covered(i, old, lookups, variety, exposure)
  BY AlikeIsCovered DEF Alike
<1>. SUFFICES ASSUME NEW row \in Held(i)' PROVE Covered(i, row, lookups, variety, exposure)
  OBVIOUS
<1>1. CASE row = uk'[i]
  BY <1>1
<1>2. CASE \E z \in Stories : row = run'[z].rows[i]
  BY <1>0, <1>2, WhatIsHeld
<1>3. CASE \E z \in Stories : row = run'[z].copy /\ run'[z].pc = "not_ready_store" /\ run'[z].item = i
  BY <1>0, <1>3, WhatIsHeld
<1>4. CASE \E q \in Signals : row = signal[q].copy /\ signal[q].pc = "store" /\ signal[q].item = i
  BY <1>0, <1>4, WhatIsHeld
<1>5. CASE row = rating[i].copy /\ rating[i].pc = "store"
  BY <1>0, <1>5, WhatIsHeld
<1>. QED  BY <1>1, <1>2, <1>3, <1>4, <1>5 DEF Held

LEMMA RunKeepsCounts ==
    ASSUME KnowledgeInv, KnowledgeInv', CountInv, NEW s \in Stories, UNCHANGED <<signal, rating>>,
           failures' \in Nat, DOMAIN event' = Events, DOMAIN job' = Stories,
           \A z \in Stories \ {s} : run'[z] = run[z] /\ job'[z] = job[z],
           \A z \in Stories \ {s} : \A e \in StoryEvents(z) : event'[e] = event[e],
           RunShape(s)', \A i \in Items : Kept(i),
           \A i \in Items : \E lookups, variety, exposure \in Nat :
               /\ Paid(i, lookups, variety, exposure)
               /\ Covered(i, uk'[i], lookups, variety, exposure)
               /\ Covered(i, run'[s].rows[i], lookups, variety, exposure)
               /\ run'[s].pc = "not_ready_store" /\ run'[s].item = i
                      => Covered(i, run'[s].copy, lookups, variety, exposure)
    PROVE  CountInv'
<1>1. \A z \in Stories : RunShape(z)'
  BY OtherShape DEF CountInv
<1>2. ASSUME NEW i \in Items PROVE \A row \in Held(i)' : Afforded(i, row)'
  <2>1. PICK lookups, variety, exposure \in Nat :
               /\ Paid(i, lookups, variety, exposure)
               /\ Covered(i, uk'[i], lookups, variety, exposure)
               /\ Covered(i, run'[s].rows[i], lookups, variety, exposure)
               /\ run'[s].pc = "not_ready_store" /\ run'[s].item = i
                      => Covered(i, run'[s].copy, lookups, variety, exposure)
    OBVIOUS
  <2>2. \A row \in Held(i)' : Covered(i, row, lookups, variety, exposure)
    BY <2>1, RunCovers
  <2>. QED  BY <2>1, <2>2, ItemAfter
<1>. QED  BY <1>1, <1>2 DEF CountInv

-----------------------------------------------------------------------------
LEMMA LeastNumber ==
    ASSUME NEW T \in SUBSET Nat, T # {}
    PROVE  \E m \in T : \A n \in T : m <= n
<1>. DEFINE Below == {0..n : n \in T}
<1>1. Below \subseteq FiniteSubsetsOf(Nat)
  <2>1. \A n \in T : 0..n \in SUBSET Nat /\ IsFiniteSet(0..n)
    BY FS_Interval
  <2>. QED  BY <2>1 DEF FiniteSubsetsOf
<1>2. PICK b \in Below : \A c \in Below : ~ (<<c, b>> \in StrictSubsetOrdering(Nat))
  <2>1. Below # {}
    OBVIOUS
  <2>. HIDE DEF Below
  <2>2. IsWellFoundedOn(StrictSubsetOrdering(Nat), FiniteSubsetsOf(Nat))
    BY FS_StrictSubsetOrderingWellFounded
  <2>. QED  BY <1>1, <2>1, <2>2, WFMin, Zenon
<1>3. PICK m \in T : b = 0..m
  OBVIOUS
<1>4. ASSUME NEW n \in T, n < m PROVE FALSE
  <2>1. 0..n \in Below /\ 0..n \subseteq 0..m /\ m \in 0..m /\ m \notin 0..n
    BY <1>4
  <2>2. <<0..n, b>> \in StrictSubsetOrdering(Nat)
    BY <2>1, <1>3 DEF StrictSubsetOrdering
  <2>. QED  BY <1>2, <2>1, <2>2
<1>. QED  BY <1>4

LEMMA EarliestIsFirst ==
    ASSUME NEW es \in SUBSET Events, es # {}
    PROVE  Earliest(es) \in es /\ \A f \in es : Earliest(es) <= f
<1>1. es \subseteq Nat
  BY EventAssumption DEF Events
<1>2. \E e \in es : \A f \in es : e <= f
  BY <1>1, LeastNumber
<1>. QED  BY <1>2 DEF Earliest

\* What is known of a run and its copies.
LEMMA RunFacts ==
    ASSUME KnowledgeInv, CountInv, NEW s \in Stories
    PROVE  /\ DOMAIN uk = Items /\ DOMAIN run = Stories /\ DOMAIN job = Stories /\ DOMAIN event = Events
           /\ DOMAIN run[s] = DOMAIN NoRun /\ DOMAIN run[s].rows = Items /\ DOMAIN job[s] = DOMAIN NoJob
           /\ RunShape(s) /\ failures \in Nat
           /\ run[s].pc = "not_ready_store" => run[s].item \in Items /\ run[s].copy \in KnowledgeRow
           /\ \A i \in Items : uk[i] \in KnowledgeRow /\ run[s].rows[i] \in KnowledgeRow
<1>1. \A i \in Items : uk[i] \in KnowledgeRow /\ run[s].rows[i] \in KnowledgeRow
  BY HeldRows, WhatIsHeld
<1>2. run[s].pc = "not_ready_store" => run[s].item \in Items /\ run[s].copy \in KnowledgeRow
  BY DEF KnowledgeInv, WriterTypeOK, Copies, RowOf
<1>. QED  BY <1>1, <1>2 DEF KnowledgeInv, WriterTypeOK, CountInv, RunShape

\* A step that only moves the run on: what it writes was there before or is empty.
LEMMA QuietRun ==
    ASSUME KnowledgeInv, KnowledgeInv', CountInv, NEW s \in Stories, UNCHANGED <<signal, rating>>,
           failures' \in Nat, DOMAIN event' = Events, DOMAIN job' = Stories,
           \A z \in Stories \ {s} : run'[z] = run[z] /\ job'[z] = job[z],
           \A z \in Stories \ {s} : \A e \in StoryEvents(z) : event'[e] = event[e],
           RunShape(s)', \A i \in Items : Kept(i),
           \A i \in Items :
               /\ \E old \in Held(i) : Alike(uk'[i], old)
               /\ run'[s].rows[i] = ZeroRow \/ \E old \in Held(i) : Alike(run'[s].rows[i], old)
               /\ run'[s].pc = "not_ready_store" /\ run'[s].item = i => run'[s].copy \in Held(i)
    PROVE  CountInv'
<1>1. ASSUME NEW i \in Items
      PROVE  \E lookups, variety, exposure \in Nat :
               /\ Paid(i, lookups, variety, exposure)
               /\ Covered(i, uk'[i], lookups, variety, exposure)
               /\ Covered(i, run'[s].rows[i], lookups, variety, exposure)
               /\ run'[s].pc = "not_ready_store" /\ run'[s].item = i
                      => Covered(i, run'[s].copy, lookups, variety, exposure)
  <2>1. Paid(i, 0, 0, 0)
    BY NothingPaid
  <2>2. Covered(i, uk'[i], 0, 0, 0)
    BY AlikeIsCovered
  <2>3. Covered(i, run'[s].rows[i], 0, 0, 0)
    BY AlikeIsCovered, WhatIsHeld
  <2>4. run'[s].pc = "not_ready_store" /\ run'[s].item = i => Covered(i, run'[s].copy, 0, 0, 0)
    BY AlikeIsCovered DEF Alike
  <2>. QED  BY <2>1, <2>2, <2>3, <2>4
<1>. QED  BY <1>1, RunKeepsCounts

LEMMA StartCounts ==
    ASSUME KnowledgeInv, KnowledgeInv', CountInv, NEW s \in Stories, UNCHANGED signal, StartSignals(s)
    PROVE  CountInv'
<1>1. /\ UNCHANGED <<event, surface, rating, failures, uk>> /\ job[s].status = "queued"
      /\ DOMAIN job' = Stories /\ DOMAIN job'[s] = DOMAIN NoJob
      /\ \A z \in Stories \ {s} : run'[z] = run[z] /\ job'[z] = job[z]
      /\ \/ run'[s] = run[s]
         \/ /\ PendingOf(s) # {} /\ job'[s].status = "running" /\ DOMAIN run'[s] = DOMAIN NoRun
            /\ run'[s].pc = "load" /\ run'[s].ids = PendingOf(s) /\ run'[s].left = PendingOf(s)
            /\ run'[s].load = IF FirstRead(s) THEN {i \in Items : Words[s][i] > 0} ELSE {}
            /\ run'[s].rows = NoRun.rows
  <2>0. /\ DOMAIN run = Stories /\ DOMAIN job = Stories /\ DOMAIN job[s] = DOMAIN NoJob
        /\ DOMAIN run[s] = DOMAIN NoRun
    BY RunFacts
  <2>1. CASE PendingOf(s) = {}
    BY <2>0, <2>1 DEF StartSignals
  <2>2. CASE PendingOf(s) # {}
    <3>1. /\ job' = [job EXCEPT ![s] = [status |-> "running", attempt |-> @.attempt + 1]]
          /\ run' = [run EXCEPT ![s] = [NoRun EXCEPT
                     !.pc = "load",
                     !.load = IF FirstRead(s) THEN {i \in Items : Words[s][i] > 0} ELSE {},
                     !.left = PendingOf(s), !.ids = PendingOf(s)]]
      BY <2>2 DEF StartSignals
    <3>2. job'[s].status = "running" /\ DOMAIN job'[s] = DOMAIN NoJob
      BY <2>0, <3>1 DEF NoJob
    <3>3. PICK load : load = IF FirstRead(s) THEN {i \in Items : Words[s][i] > 0} ELSE {}
      OBVIOUS
    <3>4. run'[s] = [NoRun EXCEPT !.pc = "load", !.load = load, !.left = PendingOf(s), !.ids = PendingOf(s)]
      BY <2>0, <3>1, <3>3
    <3>5. /\ DOMAIN run'[s] = DOMAIN NoRun /\ run'[s].pc = "load" /\ run'[s].ids = PendingOf(s)
          /\ run'[s].left = PendingOf(s) /\ run'[s].load = load /\ run'[s].rows = NoRun.rows
      BY <3>4 DEF NoRun
    <3>. QED  BY <2>0, <2>2, <3>1, <3>2, <3>3, <3>5 DEF StartSignals
  <2>. QED  BY <2>1, <2>2
<1>2. ~Running(s) /\ FirstRead(s)' = FirstRead(s) /\ PendingOf(s)' = PendingOf(s)
  BY <1>1, RunFacts DEF RunShape, FirstRead, PendingOf
<1>3. RunShape(s)'
  <2>1. CASE run'[s] = run[s]
    BY <1>1, <1>2, <2>1 DEF RunShape, Running
  <2>2. CASE run'[s] # run[s]
    <3>1. Started(s)' = {}
      BY <1>1, <2>2 DEF Started
    <3>. QED  BY <1>1, <1>2, <2>2, <3>1 DEF RunShape, Running
  <2>. QED  BY <2>1, <2>2
<1>4. Remembers
  <2>1. \A i \in Items : Exposed(s, i) => Exposed(s, i)'
    BY <1>2 DEF Exposed
  <2>2. \A i \in Items : ~Owes(s, i)'
    BY <1>1, <1>2 DEF Owes, Running
  <2>. QED  BY <1>1, <1>2, <2>1, <2>2, RunRemembers DEF InLog
<1>5. \A i \in Items : Kept(i)
  BY <1>1, <1>4, AccountsKept, RunFacts
<1>6. \A i \in Items : /\ \E old \in Held(i) : Alike(uk'[i], old)
                       /\ run'[s].rows[i] = ZeroRow \/ \E old \in Held(i) : Alike(run'[s].rows[i], old)
                       /\ run'[s].pc = "not_ready_store" /\ run'[s].item = i => run'[s].copy \in Held(i)
  <2>1. \A i \in Items : NoRun.rows[i] = ZeroRow
    BY DEF NoRun
  <2>. QED  BY <1>1, <1>2, <2>1, WhatIsHeld DEF Alike, Running
<1>7. failures' \in Nat /\ DOMAIN event' = Events
  BY <1>1, RunFacts
<1>. QED  BY <1>1, <1>3, <1>5, <1>6, <1>7, QuietRun

\* The step that counts a story's words for i.
LEMMA ExposeCounts ==
    ASSUME KnowledgeInv, KnowledgeInv', CountInv, NEW s \in Stories, NEW i \in Items, UNCHANGED signal,
           LoadExposed(s, i)
    PROVE  CountInv'
<1>0. PICK n \in Nat : n = Words[s][i]
  BY WordAssumption
<1>1. /\ UNCHANGED <<event, job, surface, rating, failures, uk>>
      /\ run[s].pc = "load" /\ i \in run[s].load
      /\ \A z \in Stories \ {s} : run'[z] = run[z]
      /\ run'[s].pc = "load" /\ run'[s].ids = run[s].ids /\ run'[s].left = run[s].left
      /\ run'[s].load = run[s].load \ {i}
      /\ run'[s].rows = [run[s].rows EXCEPT ![i] = WithExposure(uk[i], n)]
  BY <1>0, RunFacts DEF LoadExposed, NoRun
<1>2. /\ Running(s) /\ Running(s)' /\ Started(s)' = Started(s)
      /\ FirstRead(s)' = FirstRead(s) /\ PendingOf(s)' = PendingOf(s)
  BY <1>1 DEF Running, Started, FirstRead, PendingOf
<1>3. RunShape(s)'
  BY <1>1, <1>2, RunFacts DEF RunShape
<1>4. Remembers
  <2>1. \A k \in Items : Exposed(s, k) => Exposed(s, k)'
    BY <1>1, <1>2 DEF Exposed
  <2>2. \A k \in Items : ~Owes(s, k)'
    BY <1>1 DEF Owes
  <2>. QED  BY <1>1, <1>2, <2>1, <2>2, RunRemembers DEF InLog
<1>5. \A k \in Items : Kept(k)
  BY <1>1, <1>4, AccountsKept, RunFacts
<1>6. s \in StoriesRead /\ n > 0 /\ ~Exposed(s, i) /\ Exposed(s, i)' /\ StoriesRead' = StoriesRead
  <2>1. FirstRead(s) /\ run[s].ids # {} /\ n > 0
    BY <1>0, <1>1, <1>2, RunFacts DEF RunShape
  <2>2. s \in StoriesRead
    BY <1>2, <2>1, RunFacts DEF RunShape, PendingOf, StoriesRead, InLog
  <2>3. StoriesRead' = StoriesRead
    BY <1>1 DEF StoriesRead, InLog
  <2>. QED  BY <1>1, <1>2, <2>1, <2>2, <2>3 DEF Exposed
<1>7. Paid(i, 0, 1, n)
  <2>1. Account("variety", i) + 1 <= Account("variety", i)'
    <3>1. IsFiniteSet({s}) /\ Cardinality({s}) = 1
      BY FS_Singleton
    <3>2. {s} \subseteq Spent("variety", i)' /\ {s} \cap Spent("variety", i) = {}
      BY <1>0, <1>6 DEF Spent, Due
    <3>3. "variety" \in Accounts
      BY DEF Accounts
    <3>4. Account("variety", i) + Cardinality({s}) <= Account("variety", i)'
      BY <1>1, <1>4, <3>1, <3>2, <3>3, AccountsGrow, AccountGains, RunFacts
    <3>. QED  BY <3>1, <3>4
  <2>2. Account("word", i) + n <= Account("word", i)'
    <3>. DEFINE more == {s} \X (1..n)
    <3>1. IsFiniteSet(more) /\ Cardinality(more) = n
      <4>1. IsFiniteSet({s}) /\ Cardinality({s}) = 1
        BY FS_Singleton
      <4>2. IsFiniteSet(1..n) /\ Cardinality(1..n) = n
        BY FS_Interval
      <4>3. \A S, T : IsFiniteSet(S) /\ IsFiniteSet(T)
                => IsFiniteSet(S \X T) /\ Cardinality(S \X T) = Cardinality(S) * Cardinality(T)
        BY FS_Product
      <4>4. IsFiniteSet(more) /\ Cardinality(more) = Cardinality({s}) * Cardinality(1..n)
        BY <4>1, <4>2, <4>3
      <4>. QED  BY <4>1, <4>2, <4>4
    <3>2. more \subseteq Spent("word", i)' /\ more \cap Spent("word", i) = {}
      <4>1. more \in {{z} \X (1..Words[z][i]) : z \in StoriesRead}
        BY <1>0, <1>6
      <4>2. more \subseteq Due("word", i)'
        BY <1>6, <4>1 DEF Due
      <4>3. \A w \in more : w[1] = s
        OBVIOUS
      <4>. QED  BY <1>6, <4>2, <4>3 DEF Spent
    <3>3. "word" \in Accounts
      BY DEF Accounts
    <3>. HIDE DEF more
    <3>4. Account("word", i) + Cardinality(more) <= Account("word", i)'
      BY <1>1, <1>4, <3>1, <3>2, <3>3, AccountsGrow, AccountGains, RunFacts
    <3>. QED  BY <3>1, <3>4
  <2>3. PICK l, g, w, l1, g1, w1 \in Nat :
           /\ l = Account("lookup", i) /\ g = Account("again", i) /\ w = Account("word", i)
           /\ l1 = Account("lookup", i)' /\ g1 = Account("again", i)' /\ w1 = Account("word", i)'
           /\ l <= l1 /\ g <= g1
    BY <1>5 DEF Kept, Accounts
  <2>. QED  BY <2>1, <2>2, <2>3 DEF Paid
<1>8. Covered(i, run'[s].rows[i], 0, 1, n)
  <2>1. PICK old \in KnowledgeRow : old = uk[i]
    BY RunFacts
  <2>2. run'[s].rows[i] = WithExposure(old, n)
    BY <1>1, <2>1, RunFacts
  <2>3. Grown(WithExposure(old, n), old, 0, 1, n)
    BY DEF WithExposure, KnowledgeRow, Grown
  <2>. QED  BY <2>1, <2>2, <2>3, WhatIsHeld DEF Covered
<1>9. ASSUME NEW k \in Items
      PROVE  \E lookups, variety, exposure \in Nat :
               /\ Paid(k, lookups, variety, exposure)
               /\ Covered(k, uk'[k], lookups, variety, exposure)
               /\ Covered(k, run'[s].rows[k], lookups, variety, exposure)
               /\ run'[s].pc = "not_ready_store" /\ run'[s].item = k
                      => Covered(k, run'[s].copy, lookups, variety, exposure)
  <2>1. CASE k = i
    <3>1. Covered(i, uk'[i], 0, 1, n)
      BY <1>1, AlikeIsCovered, WhatIsHeld DEF Alike
    <3>. QED  BY <1>1, <1>7, <1>8, <2>1, <3>1
  <2>2. CASE k # i
    <3>1. Paid(k, 0, 0, 0)
      BY <1>5, NothingPaid
    <3>2. run'[s].rows[k] = run[s].rows[k]
      BY <1>1, <2>2, RunFacts
    <3>3. Covered(k, uk'[k], 0, 0, 0) /\ Covered(k, run'[s].rows[k], 0, 0, 0)
      BY <1>1, <3>2, AlikeIsCovered, WhatIsHeld DEF Alike
    <3>. QED  BY <1>1, <3>1, <3>3
  <2>. QED  BY <2>1, <2>2
<1>10. failures' \in Nat /\ DOMAIN event' = Events /\ DOMAIN job' = Stories
  BY <1>1, RunFacts
<1>. QED  BY <1>1, <1>3, <1>5, <1>9, <1>10, RunKeepsCounts

-----------------------------------------------------------------------------
\* What a run has still to take has been taken by nobody.
LEMMA LeftIsUntaken ==
    ASSUME CountInv, NEW s \in Stories, Running(s), NEW e \in run[s].left
    PROVE  e \in StoryEvents(s) /\ event[e] = "pending" /\ ~Taken(e)
<1>1. e \in StoryEvents(s) /\ event[e] = "pending"
  BY DEF CountInv, RunShape, PendingOf
<1>2. ASSUME NEW z \in Stories, Running(z), e \in Started(z) PROVE FALSE
  <2>1. e \in StoryEvents(z)
    BY <1>2 DEF CountInv, RunShape, PendingOf, Started
  <2>2. z = s
    BY <1>1, <2>1 DEF StoryEvents
  <2>. QED  BY <1>2, <2>2 DEF Started
<1>. QED  BY <1>1, <1>2 DEF Taken

LEMMA DeriveCounts ==
    ASSUME KnowledgeInv, KnowledgeInv', CountInv, NEW s \in Stories, UNCHANGED signal, DeriveEvent(s)
    PROVE  CountInv'
<1>a. PICK e : e = Earliest(run[s].left)
  OBVIOUS
<1>b. PICK i : i = EventOf[e].item
  OBVIOUS
<1>0. /\ run[s].pc = "load" /\ run[s].load = {} /\ run[s].left # {} /\ Running(s)
      /\ UNCHANGED <<event, job, rating, failures, uk>>
  BY DEF DeriveEvent, Running
<1>1. PICK row, items, rows, targets, surfaces :
         /\ row = IF EventOf[e].kind = "lookup" THEN [CopyOf(s, i) EXCEPT !.lookups = @ + 1] ELSE CopyOf(s, i)
         /\ items = run[s].items \cup {i} /\ rows = [run[s].rows EXCEPT ![i] = row]
         /\ targets = SessionTargets[s] /\ surfaces = surface'
  OBVIOUS
<1>2. run[s].left \subseteq run[s].ids /\ run[s].ids \subseteq PendingOf(s) /\ run[s].left \subseteq Events
  BY <1>0, RunFacts DEF RunShape, PendingOf, StoryEvents
<1>3. e \in run[s].left /\ \A f \in run[s].left : e <= f
  BY <1>0, <1>2, <1>a, EarliestIsFirst
<1>4. e \in StoryEvents(s) /\ event[e] = "pending" /\ ~Taken(e)
  BY <1>0, <1>3, LeftIsUntaken
<1>5. /\ \A z \in Stories \ {s} : run'[z] = run[z]
      /\ run'[s].ids = run[s].ids /\ run'[s].left = run[s].left \ {e} /\ run'[s].load = {}
      /\ \/ /\ run'[s].pc = "not_ready" /\ EventOf[e].kind = "not_ready" /\ run'[s].targets = SessionTargets[s]
            /\ run'[s].rows = run[s].rows
         \/ run'[s].pc = "load" /\ run'[s].rows = run[s].rows
         \/ /\ run'[s].pc = "load" /\ run'[s].rows = [run[s].rows EXCEPT ![i] = row]
            /\ EventOf[e].kind \in {"lookup", "rate", "navigate"}
  <2>. DEFINE taken == [run[s] EXCEPT !.left = @ \ {e}]
  <2>1. \/ run' = [run EXCEPT ![s] = [taken EXCEPT !.pc = "not_ready", !.targets = SessionTargets[s]]]
              /\ EventOf[e].kind = "not_ready"
        \/ run' = [run EXCEPT ![s] = taken]
        \/ run' = [run EXCEPT ![s] = [taken EXCEPT !.items = @ \cup {i}, !.rows[i] = row]]
              /\ EventOf[e].kind \in {"lookup", "rate", "navigate"}
    BY <1>1, <1>a, <1>b DEF DeriveEvent
  <2>2. DOMAIN run[s] = DOMAIN NoRun /\ DOMAIN run = Stories
    BY RunFacts
  <2>3. PICK old : old = run[s]
    OBVIOUS
  <2>4. PICK left : left = old.left \ {e}
    OBVIOUS
  <2>5. /\ DOMAIN taken = DOMAIN NoRun /\ taken.left = left /\ taken.ids = run[s].ids /\ taken.load = {}
        /\ taken.rows = run[s].rows /\ taken.pc = "load"
    BY <1>0, <2>2, <2>3, <2>4 DEF NoRun
  <2>. HIDE DEF taken
  <2>6. \A z \in Stories \ {s} : run'[z] = run[z]
    BY <2>1, <2>2
  <2>7. CASE run'[s] = taken
    BY <2>3, <2>4, <2>5, <2>6, <2>7
  <2>8. CASE run'[s] = [taken EXCEPT !.pc = "not_ready", !.targets = SessionTargets[s]]
             /\ EventOf[e].kind = "not_ready"
    BY <2>3, <2>4, <2>5, <2>6, <2>8 DEF NoRun
  <2>9. CASE run'[s] = [taken EXCEPT !.items = @ \cup {i}, !.rows[i] = row]
             /\ EventOf[e].kind \in {"lookup", "rate", "navigate"}
    <3>1. PICK more, stored : more = taken.items \cup {i} /\ stored = [taken.rows EXCEPT ![i] = row]
      OBVIOUS
    <3>2. run'[s] = [taken EXCEPT !.items = more, !.rows = stored]
      BY <2>9, <3>1
    <3>. QED  BY <2>3, <2>4, <2>5, <2>6, <2>9, <3>1, <3>2 DEF NoRun
  <2>. QED  BY <2>1, <2>2, <2>7, <2>8, <2>9
<1>6. /\ Running(s)' /\ Started(s)' = Started(s) \cup {e}
      /\ FirstRead(s)' = FirstRead(s) /\ PendingOf(s)' = PendingOf(s)
  <2>1. Running(s)' /\ FirstRead(s)' = FirstRead(s) /\ PendingOf(s)' = PendingOf(s)
    BY <1>0, <1>5 DEF Running, FirstRead, PendingOf
  <2>. QED  BY <1>2, <1>3, <1>5, <2>1 DEF Started
<1>7. \A f \in Started(s) : f < e
  BY <1>0, <1>3, RunFacts DEF RunShape
<1>8. Events \subseteq Nat /\ Started(s) \subseteq Events /\ e \in Events
  <2>1. Events \subseteq Nat
    BY EventAssumption DEF Events
  <2>2. PendingOf(s) \subseteq Events
    BY DEF PendingOf, StoryEvents
  <2>. QED  BY <1>2, <1>3, <2>1, <2>2 DEF Started
<1>9. \A x : Latest(s, x)' <=> x = e
  <2>1. \A x : Latest(s, x)' <=> x \in Started(s)' /\ \A f \in Started(s)' : f <= x
    BY DEF Latest
  <2>2. ASSUME NEW f \in Started(s) PROVE f <= e /\ ~(e <= f)
    <3>1. f \in Nat /\ e \in Nat /\ f < e
      BY <1>7, <1>8
    <3>. QED  BY <3>1
  <2>3. e <= e
    BY <1>8
  <2>. QED  BY <1>6, <2>1, <2>2, <2>3
<1>10. RunShape(s)'
  <2>1. \A x \in Started(s)', f \in run'[s].left : x < f
    <3>. SUFFICES ASSUME NEW x \in Started(s)', NEW f \in run'[s].left PROVE x < f
      OBVIOUS
    <3>1. f \in run[s].left /\ f # e /\ f \in Nat /\ e \in Nat
      BY <1>2, <1>5, <1>8
    <3>2. CASE x = e
      BY <1>3, <3>1, <3>2
    <3>3. CASE x \in Started(s)
      BY <1>0, <3>1, <3>3, RunFacts DEF RunShape
    <3>. QED  BY <1>6, <3>2, <3>3
  <2>2. run'[s].pc # "load" => /\ \E x \in Events : Latest(s, x)' /\ EventOf[x].kind = "not_ready"
                               /\ run'[s].targets \subseteq SessionTargets[s]
    BY <1>5, <1>8, <1>9
  <2>3. job'[s] = job[s] /\ RunShape(s)
    BY <1>0, RunFacts
  <2>. QED  BY <1>0, <1>2, <1>5, <1>6, <2>1, <2>2, <2>3 DEF RunShape
<1>11. Remembers
  <2>1. \A k \in Items : Exposed(s, k) => Exposed(s, k)'
    BY <1>0, <1>5, <1>6 DEF Exposed
  <2>2. \A k \in Items, x \in Events : Taken(x) /\ Owes(s, k)' /\ Latest(s, x)' => Owes(s, k) /\ Latest(s, x)
    BY <1>4, <1>9
  <2>. QED  BY <1>0, <1>5, <1>6, <2>1, <2>2, RunRemembers DEF InLog
<1>12. \A k \in Items : Kept(k)
  BY <1>0, <1>11, AccountsKept, RunFacts
<1>13. run'[s].pc # "not_ready_store" /\ failures' \in Nat /\ DOMAIN event' = Events /\ DOMAIN job' = Stories
  BY <1>0, <1>5, RunFacts
<1>14. CASE \A k \in Items : run'[s].rows[k] = run[s].rows[k]
  <2>1. \A k \in Items : /\ \E old \in Held(k) : Alike(uk'[k], old)
                         /\ \E old \in Held(k) : Alike(run'[s].rows[k], old)
    BY <1>0, <1>14, WhatIsHeld DEF Alike
  <2>. QED  BY <1>0, <1>5, <1>10, <1>12, <1>13, <2>1, QuietRun
<1>15. CASE run'[s].rows = [run[s].rows EXCEPT ![i] = row] /\ i \in Items
  <2>1. CopyOf(s, i) \in Held(i) /\ CopyOf(s, i) \in KnowledgeRow
    BY <1>15, WhatIsHeld, HeldRows DEF CopyOf
  <2>2. PICK copy \in KnowledgeRow : copy = CopyOf(s, i)
    BY <2>1
  <2>3. run'[s].rows[i] = row /\ \A k \in Items \ {i} : run'[s].rows[k] = run[s].rows[k]
    BY <1>15, RunFacts
  <2>4. CASE EventOf[e].kind = "lookup"
    <3>1. Paid(i, 1, 0, 0)
      <4>1. IsFiniteSet({e}) /\ Cardinality({e}) = 1
        BY FS_Singleton
      <4>2. e \in Due("lookup", i)' /\ Taken(e)' /\ e \notin Spent("lookup", i)
        <5>1. InLog(e)'
          BY <1>0, <1>4 DEF InLog
        <5>2. e \in EventsOn("lookup", i)'
          BY <1>8, <1>b, <2>4, <5>1 DEF EventsOn
        <5>3. Taken(e)'
          BY <1>6 DEF Taken
        <5>4. e \notin Spent("lookup", i)
          BY <1>4 DEF Spent
        <5>. QED  BY <5>2, <5>3, <5>4 DEF Due
      <4>3. {e} \subseteq Spent("lookup", i)' /\ {e} \cap Spent("lookup", i) = {}
        BY <4>2 DEF Spent
      <4>4. "lookup" \in Accounts
        BY DEF Accounts
      <4>5. Account("lookup", i) + Cardinality({e}) <= Account("lookup", i)'
        BY <1>0, <1>11, <1>15, <4>1, <4>3, <4>4, AccountsGrow, AccountGains, RunFacts
      <4>6. PICK v, g, w, v1, g1, w1 \in Nat :
               /\ v = Account("variety", i) /\ g = Account("again", i) /\ w = Account("word", i)
               /\ v1 = Account("variety", i)' /\ g1 = Account("again", i)' /\ w1 = Account("word", i)'
               /\ v <= v1 /\ g <= g1 /\ w <= w1
        BY <1>12, <1>15 DEF Kept, Accounts
      <4>. QED  BY <4>1, <4>5, <4>6 DEF Paid
    <3>2. Covered(i, run'[s].rows[i], 1, 0, 0)
      <4>1. row = [copy EXCEPT !.lookups = @ + 1]
        BY <1>1, <2>2, <2>4
      <4>2. Grown(row, copy, 1, 0, 0)
        BY <4>1 DEF KnowledgeRow, Grown
      <4>. QED  BY <2>1, <2>2, <2>3, <4>2 DEF Covered
    <3>3. ASSUME NEW k \in Items
          PROVE  \E lookups, variety, exposure \in Nat :
                   /\ Paid(k, lookups, variety, exposure)
                   /\ Covered(k, uk'[k], lookups, variety, exposure)
                   /\ Covered(k, run'[s].rows[k], lookups, variety, exposure)
                   /\ run'[s].pc = "not_ready_store" /\ run'[s].item = k
                          => Covered(k, run'[s].copy, lookups, variety, exposure)
      <4>1. CASE k = i
        <5>1. Covered(k, uk'[k], 1, 0, 0)
          BY <1>0, AlikeIsCovered, WhatIsHeld DEF Alike
        <5>. QED  BY <1>13, <3>1, <3>2, <4>1, <5>1
      <4>2. CASE k # i
        <5>1. Paid(k, 0, 0, 0)
          BY <1>12, NothingPaid
        <5>2. Covered(k, uk'[k], 0, 0, 0) /\ Covered(k, run'[s].rows[k], 0, 0, 0)
          BY <1>0, <2>3, <4>2, AlikeIsCovered, WhatIsHeld DEF Alike
        <5>. QED  BY <1>13, <5>1, <5>2
      <4>. QED  BY <4>1, <4>2
    <3>. QED  BY <1>0, <1>5, <1>10, <1>12, <1>13, <3>3, RunKeepsCounts
  <2>5. CASE EventOf[e].kind # "lookup"
    <3>1. row = CopyOf(s, i)
      BY <1>1, <2>5
    <3>2. \A k \in Items : /\ \E old \in Held(k) : Alike(uk'[k], old)
                           /\ \E old \in Held(k) : Alike(run'[s].rows[k], old)
      BY <1>0, <2>1, <2>3, <3>1, WhatIsHeld DEF Alike
    <3>. QED  BY <1>0, <1>5, <1>10, <1>12, <1>13, <3>2, QuietRun
  <2>. QED  BY <2>4, <2>5
<1>16. CASE run'[s].rows = [run[s].rows EXCEPT ![i] = row] /\ i \notin Items
  BY <1>14, <1>16, RunFacts
<1>. QED  BY <1>5, <1>14, <1>15, <1>16

-----------------------------------------------------------------------------
\* The steps of a run that count nothing and store nothing.
LEMMA PassingCounts ==
    ASSUME KnowledgeInv, KnowledgeInv', CountInv, NEW s \in Stories, UNCHANGED signal,
           \/ NotReadyDone(s) \/ MarkProcessed(s) \/ EndSignals(s) \/ \E i \in Items : NotReadyLoad(s, i)
    PROVE  CountInv'
<1>0. UNCHANGED <<failures, rating, uk>> /\ Running(s) /\ RunShape(s)
  BY RunFacts DEF NotReadyDone, MarkProcessed, EndSignals, NotReadyLoad, Running
<1>1. CASE NotReadyDone(s)
  <2>1. /\ UNCHANGED <<event, job>>
        /\ run[s].pc = "not_ready" /\ run'[s].pc = "load"
        /\ \A z \in Stories \ {s} : run'[z] = run[z]
        /\ run'[s].ids = run[s].ids /\ run'[s].left = run[s].left /\ run'[s].load = run[s].load
        /\ run'[s].rows = run[s].rows
    BY <1>1, RunFacts DEF NotReadyDone, NoRun
  <2>2. /\ Running(s)' /\ Started(s)' = Started(s)
        /\ FirstRead(s)' = FirstRead(s) /\ PendingOf(s)' = PendingOf(s)
    BY <2>1 DEF Running, Started, FirstRead, PendingOf
  <2>3. RunShape(s)'
    BY <1>0, <2>1, <2>2 DEF RunShape
  <2>4. Remembers
    <3>1. \A k \in Items : (Exposed(s, k) => Exposed(s, k)') /\ ~Owes(s, k)'
      BY <1>0, <2>1, <2>2 DEF Exposed, Owes
    <3>. QED  BY <2>1, <2>2, <3>1, RunRemembers DEF InLog
  <2>5. \A k \in Items : /\ \E old \in Held(k) : Alike(uk'[k], old)
                         /\ \E old \in Held(k) : Alike(run'[s].rows[k], old)
    BY <1>0, <2>1, WhatIsHeld DEF Alike
  <2>6. \A k \in Items : Kept(k)
    BY <1>0, <2>4, AccountsKept, RunFacts
  <2>7. failures' \in Nat /\ DOMAIN event' = Events /\ DOMAIN job' = Stories
    BY <1>0, <2>1, RunFacts
  <2>. QED  BY <1>0, <2>1, <2>3, <2>5, <2>6, <2>7, QuietRun
<1>2. ASSUME NEW i \in Items, NotReadyLoad(s, i) PROVE CountInv'
  <2>1. /\ UNCHANGED <<event, job>>
        /\ run[s].pc = "not_ready" /\ run'[s].pc = "not_ready_store" /\ i \in run[s].targets
        /\ \A z \in Stories \ {s} : run'[z] = run[z]
        /\ run'[s].ids = run[s].ids /\ run'[s].left = run[s].left /\ run'[s].load = run[s].load
        /\ run'[s].rows = run[s].rows /\ run'[s].targets = run[s].targets \ {i}
        /\ run'[s].item = i /\ run'[s].copy = uk[i]
    <3>1. PICK old, row, targets : old = run[s] /\ row = uk[i] /\ targets = old.targets \ {i}
      OBVIOUS
    <3>2. /\ UNCHANGED <<event, job>> /\ run[s].pc = "not_ready" /\ i \in run[s].targets
          /\ run' = [run EXCEPT ![s].pc = "not_ready_store", ![s].targets = targets, ![s].item = i, ![s].copy = row]
      BY <1>2, <3>1 DEF NotReadyLoad
    <3>3. /\ \A z \in Stories \ {s} : run'[z] = run[z]
          /\ run'[s] = [old EXCEPT !.pc = "not_ready_store", !.targets = targets, !.item = i, !.copy = row]
      BY <3>1, <3>2, RunFacts
    <3>4. DOMAIN old = DOMAIN NoRun
      BY <3>1, RunFacts
    <3>5. /\ run'[s].ids = old.ids /\ run'[s].left = old.left /\ run'[s].load = old.load
          /\ run'[s].rows = old.rows
      BY <3>3, <3>4 DEF NoRun
    <3>6. run'[s].pc = "not_ready_store" /\ run'[s].targets = targets
      BY <3>3, <3>4 DEF NoRun
    <3>7. run'[s].item = i /\ run'[s].copy = row
      BY <3>3, <3>4 DEF NoRun
    <3>. QED  BY <3>1, <3>2, <3>3, <3>5, <3>6, <3>7
  <2>2. /\ Running(s)' /\ Started(s)' = Started(s)
        /\ FirstRead(s)' = FirstRead(s) /\ PendingOf(s)' = PendingOf(s)
        /\ \A x : Latest(s, x)' <=> Latest(s, x)
    BY <2>1 DEF Running, Started, FirstRead, PendingOf, Latest
  <2>3. RunShape(s)'
    BY <1>0, <2>1, <2>2 DEF RunShape
  <2>4. Remembers
    <3>1. \A k \in Items : (Exposed(s, k) => Exposed(s, k)') /\ (Owes(s, k)' => Owes(s, k))
      BY <1>0, <2>1, <2>2 DEF Exposed, Owes
    <3>. QED  BY <2>1, <2>2, <3>1, RunRemembers DEF InLog
  <2>5. \A k \in Items : /\ \E old \in Held(k) : Alike(uk'[k], old)
                         /\ \E old \in Held(k) : Alike(run'[s].rows[k], old)
                         /\ run'[s].item = k => run'[s].copy \in Held(k)
    BY <1>0, <2>1, WhatIsHeld DEF Alike
  <2>6. \A k \in Items : Kept(k)
    BY <1>0, <2>4, AccountsKept, RunFacts
  <2>7. failures' \in Nat /\ DOMAIN event' = Events /\ DOMAIN job' = Stories
    BY <1>0, <2>1, RunFacts
  <2>. QED  BY <1>0, <2>1, <2>3, <2>5, <2>6, <2>7, QuietRun
<1>3. CASE MarkProcessed(s)
  <2>. DEFINE first == Earliest(run[s].ids)
  <2>0. PICK e : e = first
    OBVIOUS
  <2>1. /\ UNCHANGED job
        /\ run[s].pc = "load" /\ run'[s].pc = "load" /\ run[s].load = {} /\ run[s].left = {} /\ run[s].ids # {}
        /\ \A z \in Stories \ {s} : run'[z] = run[z]
        /\ event' = [event EXCEPT ![e] = "processed"]
        /\ run'[s].ids = run[s].ids \ {e} /\ run'[s].left = {} /\ run'[s].load = {}
        /\ run'[s].rows = run[s].rows
    BY <1>3, <2>0, RunFacts DEF MarkProcessed, NoRun
  <2>. HIDE DEF first
  <2>2. run[s].ids \subseteq PendingOf(s) /\ PendingOf(s) \subseteq Events
    BY <1>0 DEF RunShape, PendingOf, StoryEvents
  <2>3. e \in run[s].ids /\ e \in StoryEvents(s) /\ e \in Events
    <3>1. e \in run[s].ids
      BY <2>0, <2>1, <2>2, EarliestIsFirst DEF first
    <3>. QED  BY <2>2, <3>1 DEF PendingOf
  <2>4. event'[e] = "processed" /\ \A x \in Events \ {e} : event'[x] = event[x]
    BY <2>1, <2>3, RunFacts
  <2>5. /\ Running(s)' /\ Started(s)' = Started(s) \ {e} /\ ~FirstRead(s)'
        /\ PendingOf(s)' = PendingOf(s) \ {e}
    <3>1. Running(s)' /\ Started(s)' = Started(s) \ {e}
      BY <2>1 DEF Running, Started
    <3>2. ~FirstRead(s)'
      BY <2>3, <2>4 DEF FirstRead
    <3>3. PendingOf(s)' = PendingOf(s) \ {e}
      BY <2>3, <2>4 DEF PendingOf, StoryEvents
    <3>. QED  BY <3>1, <3>2, <3>3
  <2>6. RunShape(s)'
    BY <1>0, <2>1, <2>2, <2>5 DEF RunShape
  <2>7. Remembers
    <3>1. \A k \in Items : Exposed(s, k)' /\ ~Owes(s, k)'
      BY <2>1, <2>5 DEF Exposed, Owes
    <3>2. \A x \in Started(s) : event'[x] = "processed" \/ (Running(s)' /\ x \in Started(s)')
      BY <2>4, <2>5
    <3>3. \A x \in Events : (InLog(x) => InLog(x)') /\ (event[x] = "processed" => event'[x] = "processed")
      BY <2>4 DEF InLog
    <3>. QED  BY <2>1, <3>1, <3>2, <3>3, RunRemembers
  <2>8. \A k \in Items : /\ \E old \in Held(k) : Alike(uk'[k], old)
                         /\ \E old \in Held(k) : Alike(run'[s].rows[k], old)
    BY <1>0, <2>1, WhatIsHeld DEF Alike
  <2>9. \A k \in Items : Kept(k)
    BY <1>0, <2>7, AccountsKept, RunFacts
  <2>10. failures' \in Nat /\ DOMAIN event' = Events /\ DOMAIN job' = Stories
    BY <1>0, <2>1, RunFacts
  <2>11. \A z \in Stories \ {s} : \A x \in StoryEvents(z) : event'[x] = event[x]
    BY <2>3, <2>4 DEF StoryEvents
  <2>. QED  BY <1>0, <2>1, <2>6, <2>8, <2>9, <2>10, <2>11, QuietRun
<1>4. CASE EndSignals(s)
  <2>1. /\ UNCHANGED event
        /\ run[s].pc = "load" /\ run[s].load = {} /\ run[s].left = {} /\ run[s].ids = {}
        /\ run'[s] = NoRun /\ job'[s] = NoJob
        /\ DOMAIN job' = Stories /\ \A z \in Stories \ {s} : run'[z] = run[z] /\ job'[z] = job[z]
    BY <1>4, RunFacts DEF EndSignals
  <2>2. /\ ~Running(s)' /\ Started(s) = {} /\ FirstRead(s)' = FirstRead(s) /\ ~FirstRead(s)
    BY <1>0, <2>1 DEF Running, Started, FirstRead, RunShape, NoRun
  <2>3. RunShape(s)'
    BY <2>1, <2>2 DEF RunShape
  <2>4. Remembers
    <3>1. \A k \in Items : Exposed(s, k)' /\ ~Owes(s, k)'
      BY <2>1, <2>2 DEF Exposed, Owes, NoRun
    <3>. QED  BY <2>1, <2>2, <3>1, RunRemembers DEF InLog
  <2>5. \A k \in Items : /\ \E old \in Held(k) : Alike(uk'[k], old)
                         /\ run'[s].rows[k] = ZeroRow
    BY <1>0, <2>1, WhatIsHeld DEF Alike, NoRun
  <2>6. \A k \in Items : Kept(k)
    BY <1>0, <2>4, AccountsKept, RunFacts
  <2>7. failures' \in Nat /\ DOMAIN event' = Events /\ run'[s].pc # "not_ready_store"
    BY <1>0, <2>1, RunFacts DEF NoRun
  <2>. QED  BY <1>0, <2>1, <2>3, <2>5, <2>6, <2>7, QuietRun
<1>. QED  BY <1>1, <1>2, <1>3, <1>4

\* A row is stored: an accumulated one, which counts what its copy counts.
LEMMA FlushCounts ==
    ASSUME KnowledgeInv, KnowledgeInv', CountInv, NEW s \in Stories, NEW i \in Items, UNCHANGED signal,
           FlushRow(s, i)
    PROVE  CountInv'
<1>1. /\ UNCHANGED <<event, job, rating, failures>>
      /\ run[s].pc = "load" /\ run'[s].pc = "load"
      /\ \A z \in Stories \ {s} : run'[z] = run[z]
      /\ run'[s].ids = run[s].ids /\ run'[s].left = run[s].left /\ run'[s].load = run[s].load
      /\ run'[s].rows = [run[s].rows EXCEPT ![i] = ZeroRow]
  BY RunFacts DEF FlushRow, NoRun
<1>2. /\ Running(s)' /\ Running(s) /\ Started(s)' = Started(s)
      /\ FirstRead(s)' = FirstRead(s) /\ PendingOf(s)' = PendingOf(s)
  BY <1>1 DEF Running, Started, FirstRead, PendingOf
<1>3. RunShape(s)'
  BY <1>1, <1>2, RunFacts DEF RunShape
<1>4. Remembers
  <2>1. \A k \in Items : (Exposed(s, k) => Exposed(s, k)') /\ ~Owes(s, k)'
    BY <1>1, <1>2 DEF Exposed, Owes
  <2>. QED  BY <1>1, <1>2, <2>1, RunRemembers DEF InLog
<1>5. \A k \in Items : Kept(k)
  BY <1>1, <1>4, AccountsKept, RunFacts
<1>6. Alike(uk'[i], run[s].rows[i]) /\ \A k \in Items \ {i} : uk'[k] = uk[k]
  BY RunFacts, RefreshedRow DEF FlushRow
<1>7. \A k \in Items : /\ \E old \in Held(k) : Alike(uk'[k], old)
                       /\ run'[s].rows[k] = ZeroRow \/ \E old \in Held(k) : Alike(run'[s].rows[k], old)
  BY <1>1, <1>6, RunFacts, WhatIsHeld DEF Alike
<1>8. failures' \in Nat /\ DOMAIN event' = Events /\ DOMAIN job' = Stories
  BY <1>1, RunFacts
<1>. QED  BY <1>1, <1>3, <1>5, <1>7, <1>8, QuietRun

\* A failed run forgets what it took; everything may be counted again.
LEMMA FailureCounts ==
    ASSUME KnowledgeInv, KnowledgeInv', CountInv, NEW s \in Stories, UNCHANGED <<signal, uk>>, FailSignals(s)
    PROVE  CountInv'
<1>1. /\ UNCHANGED <<event, rating>> /\ failures' = failures + 1
      /\ run'[s] = NoRun /\ DOMAIN job' = Stories /\ DOMAIN job'[s] = DOMAIN NoJob
      /\ \A z \in Stories \ {s} : run'[z] = run[z] /\ job'[z] = job[z]
  BY RunFacts DEF FailSignals, NoJob
<1>2. ~Running(s)'
  BY <1>1 DEF Running, NoRun
<1>3. RunShape(s)'
  BY <1>1, <1>2 DEF RunShape
<1>4. ASSUME NEW a \in Accounts, NEW k \in Items PROVE Due(a, k)' = Due(a, k)
  <2>1. StoriesRead' = StoriesRead /\ \A e : InLog(e)' = InLog(e)
    BY <1>1 DEF StoriesRead, InLog
  <2>. QED  BY <2>1, AccountsAre DEF Due, EventsOn
<1>5. \A k \in Items : Kept(k)
  BY <1>1, <1>4, AccountAfterFailure, RunFacts DEF Kept
<1>6. \A k \in Items : /\ \E old \in Held(k) : Alike(uk'[k], old)
                       /\ run'[s].rows[k] = ZeroRow
  BY <1>1, WhatIsHeld DEF Alike, NoRun
<1>7. failures' \in Nat /\ DOMAIN event' = Events /\ run'[s].pc # "not_ready_store"
  BY <1>1, RunFacts DEF NoRun
<1>. QED  BY <1>1, <1>3, <1>5, <1>6, <1>7, QuietRun

\* The step that counts a second reading for a target of the session.
LEMMA NotReadyStoreCounts ==
    ASSUME KnowledgeInv, KnowledgeInv', CountInv, NEW s \in Stories, UNCHANGED signal, NotReadyStore(s)
    PROVE  CountInv'
<1>0. /\ UNCHANGED <<event, job, rating, failures>> /\ run[s].pc = "not_ready_store" /\ Running(s)
      /\ \A z \in Stories \ {s} : run'[z] = run[z]
      /\ run'[s] = [run[s] EXCEPT !.pc = "not_ready"]
  BY RunFacts DEF NotReadyStore, Running
<1>a. PICK i \in Items : i = run[s].item
  BY <1>0, RunFacts
<1>b. PICK copy \in KnowledgeRow : copy = run[s].copy
  BY <1>0, RunFacts
<1>1. /\ run'[s].pc = "not_ready" /\ run'[s].ids = run[s].ids /\ run'[s].left = run[s].left
      /\ run'[s].load = run[s].load /\ run'[s].rows = run[s].rows /\ run'[s].targets = run[s].targets
  BY <1>0, RunFacts DEF NoRun
<1>2. /\ Running(s)' /\ Started(s)' = Started(s)
      /\ FirstRead(s)' = FirstRead(s) /\ PendingOf(s)' = PendingOf(s)
      /\ \A x : Latest(s, x)' <=> Latest(s, x)
  BY <1>0, <1>1 DEF Running, Started, FirstRead, PendingOf, Latest
<1>3. RunShape(s)'
  BY <1>0, <1>1, <1>2, RunFacts DEF RunShape
<1>4. Remembers
  <2>1. \A k \in Items : (Exposed(s, k) => Exposed(s, k)') /\ (Owes(s, k)' => Owes(s, k))
    BY <1>0, <1>1, <1>2 DEF Exposed, Owes
  <2>. QED  BY <1>0, <1>2, <2>1, RunRemembers DEF InLog
<1>5. \A k \in Items : Kept(k)
  BY <1>0, <1>4, AccountsKept, RunFacts
<1>6. PICK e \in Events : Latest(s, e) /\ EventOf[e].kind = "not_ready"
  BY <1>0, RunFacts DEF RunShape
<1>7. /\ e \in StoryEvents(s) /\ event[e] = "pending" /\ e \in Started(s)
      /\ i \in SessionTargets[s] /\ i \notin run[s].targets
  BY <1>0, <1>a, <1>6, RunFacts DEF RunShape, Latest, Started, PendingOf
<1>8. Paid(i, 0, 0, 1)
  <2>1. IsFiniteSet({e}) /\ Cardinality({e}) = 1
    BY FS_Singleton
  <2>2. e \in Due("again", i)' /\ Settled(e, i)' /\ e \notin Spent("again", i)
    <3>1. e \in Due("again", i)'
      <4>1. InLog(e)' /\ EventOf[e].story = s
        BY <1>0, <1>7 DEF InLog, StoryEvents
      <4>. QED  BY <1>6, <1>7, <4>1 DEF Due
    <3>2. Taken(e)'
      BY <1>2, <1>7 DEF Taken
    <3>3. ~Owes(s, i)'
      BY <1>1, <1>7 DEF Owes
    <3>4. ASSUME NEW z \in Stories \ {s}, Owes(z, i)', Latest(z, e)' PROVE FALSE
      <4>1. Running(z) /\ e \in Started(z)
        BY <1>0, <3>4 DEF Owes, Latest, Started, Running
      <4>2. e \in StoryEvents(z)
        BY <4>1 DEF CountInv, RunShape, PendingOf, Started
      <4>. QED  BY <1>7, <4>2 DEF StoryEvents
    <3>5. ~Settled(e, i)
      BY <1>0, <1>a, <1>6 DEF Settled, Owes
    <3>6. Settled(e, i)'
      BY <3>2, <3>3, <3>4 DEF Settled
    <3>. QED  BY <3>1, <3>5, <3>6 DEF Spent
  <2>3. {e} \subseteq Spent("again", i)' /\ {e} \cap Spent("again", i) = {}
    BY <2>2 DEF Spent
  <2>4. "again" \in Accounts
    BY DEF Accounts
  <2>5. Account("again", i) + Cardinality({e}) <= Account("again", i)'
    BY <1>0, <1>4, <2>1, <2>3, <2>4, AccountsGrow, AccountGains, RunFacts
  <2>6. PICK l, v, g, w, l1, v1, g1, w1 \in Nat :
           /\ l = Account("lookup", i) /\ v = Account("variety", i)
           /\ g = Account("again", i) /\ w = Account("word", i)
           /\ l1 = Account("lookup", i)' /\ v1 = Account("variety", i)'
           /\ g1 = Account("again", i)' /\ w1 = Account("word", i)'
           /\ l <= l1 /\ v <= v1 /\ w <= w1
    BY <1>5 DEF Kept, Accounts
  <2>. QED  BY <2>1, <2>5, <2>6 DEF Paid
<1>9. PICK row \in KnowledgeRow : row = [copy EXCEPT !.exposure = @ + 1] /\ Grown(row, copy, 0, 0, 1)
  <2>. DEFINE again == [copy EXCEPT !.exposure = @ + 1]
  <2>1. again \in KnowledgeRow
    BY DEF KnowledgeRow
  <2>2. Grown(again, copy, 0, 0, 1)
    BY DEF KnowledgeRow, Grown
  <2>. QED  BY <2>1, <2>2
<1>10. Alike(uk'[i], row) /\ \A k \in Items \ {i} : uk'[k] = uk[k]
  <2>1. Refresh(i, row)
    BY <1>a, <1>b, <1>9 DEF NotReadyStore
  <2>. QED  BY <2>1, RefreshedRow, RunFacts
<1>11. Covered(i, uk'[i], 0, 0, 1)
  BY <1>0, <1>a, <1>b, <1>9, <1>10, WhatIsHeld DEF Covered, Grown, Alike
<1>12. ASSUME NEW k \in Items
       PROVE  \E lookups, variety, exposure \in Nat :
                /\ Paid(k, lookups, variety, exposure)
                /\ Covered(k, uk'[k], lookups, variety, exposure)
                /\ Covered(k, run'[s].rows[k], lookups, variety, exposure)
                /\ run'[s].pc = "not_ready_store" /\ run'[s].item = k
                       => Covered(k, run'[s].copy, lookups, variety, exposure)
  <2>1. CASE k = i
    <3>1. Covered(i, run'[s].rows[i], 0, 0, 1)
      BY <1>1, AlikeIsCovered, WhatIsHeld DEF Alike
    <3>. QED  BY <1>1, <1>8, <1>11, <2>1, <3>1
  <2>2. CASE k # i
    <3>1. Paid(k, 0, 0, 0)
      BY <1>5, NothingPaid
    <3>2. Covered(k, uk'[k], 0, 0, 0) /\ Covered(k, run'[s].rows[k], 0, 0, 0)
      BY <1>1, <1>10, <2>2, AlikeIsCovered, WhatIsHeld DEF Alike
    <3>. QED  BY <1>1, <3>1, <3>2
  <2>. QED  BY <2>1, <2>2
<1>13. failures' \in Nat /\ DOMAIN event' = Events /\ DOMAIN job' = Stories
  BY <1>0, RunFacts
<1>. QED  BY <1>0, <1>3, <1>5, <1>12, <1>13, RunKeepsCounts

-----------------------------------------------------------------------------
\* A step of another writer: what it holds and what it stores was there before.
LEMMA OtherWriter ==
    ASSUME KnowledgeInv, KnowledgeInv', CountInv, UNCHANGED <<run, failures>>, Remembers,
           DOMAIN event' = Events, DOMAIN job' = Stories, \A s \in Stories : RunShape(s)',
           \A i \in Items :
               /\ \E old \in Held(i) : Alike(uk'[i], old)
               /\ rating'[i].pc = "store" => \E old \in Held(i) : Alike(rating'[i].copy, old)
               /\ \A q \in Signals : signal'[q].pc = "store" /\ signal'[q].item = i
                      => \E old \in Held(i) : Alike(signal'[q].copy, old)
    PROVE  CountInv'
<1>1. failures \in Nat
  BY DEF CountInv
<1>2. ASSUME NEW i \in Items PROVE \A row \in Held(i)' : Afforded(i, row)'
  <2>1. Kept(i) /\ Paid(i, 0, 0, 0)
    BY <1>1, AccountsKept, NothingPaid
  <2>2. ASSUME NEW row \in Held(i)' PROVE \E old \in Held(i) : Alike(row, old)
    <3>1. CASE row = uk'[i]
      BY <3>1
    <3>2. CASE \E s \in Stories : row = run[s].rows[i]
      BY <3>2, WhatIsHeld DEF Alike
    <3>3. CASE \E s \in Stories : row = run[s].copy /\ run[s].pc = "not_ready_store" /\ run[s].item = i
      BY <3>3, WhatIsHeld DEF Alike
    <3>4. CASE \E q \in Signals : row = signal'[q].copy /\ signal'[q].pc = "store" /\ signal'[q].item = i
      BY <3>4
    <3>5. CASE row = rating'[i].copy /\ rating'[i].pc = "store"
      BY <3>5
    <3>. QED  BY <3>1, <3>2, <3>3, <3>4, <3>5 DEF Held
  <2>3. \A row \in Held(i)' : Covered(i, row, 0, 0, 0)
    BY <2>2, AlikeIsCovered
  <2>. QED  BY <2>1, <2>3, ItemAfter
<1>. QED  BY <1>1, <1>2 DEF CountInv

LEMMA OutsideRuns ==
    ASSUME CountInv, UNCHANGED <<event, job, run, failures>>
    PROVE  /\ Remembers /\ DOMAIN event' = Events /\ DOMAIN job' = Stories
           /\ \A s \in Stories : RunShape(s)'
<1>1. \A s \in Stories : RunShape(s)'
  BY OtherShape DEF CountInv
<1>2. Remembers
  BY DEF Remembers, InLog, Taken, Exposed, Settled, Running, Started, FirstRead, StoryEvents, Owes, Latest
<1>. QED  BY <1>1, <1>2 DEF CountInv

\* Events reach the log.
LEMMA FlushedCounts ==
    ASSUME KnowledgeInv, KnowledgeInv', CountInv, UNCHANGED <<uk, signal>>,
           NEW s \in Stories, NEW last, NEW lost, Flush(s, last, lost)
    PROVE  CountInv'
<1>1. /\ UNCHANGED <<run, rating, failures>> /\ DOMAIN event' = Events
      /\ \A e \in Events : event'[e] = event[e] \/ (event[e] = "unsent" /\ event'[e] = "pending")
      /\ job' = job \/ (job[s].status = "none"
                        /\ job' = [job EXCEPT ![s] = [status |-> "queued", attempt |-> 0]])
  BY DEF Flush
<1>2. DOMAIN job' = Stories /\ \A z \in Stories : DOMAIN job'[z] = DOMAIN NoJob
                /\ (job[z].status = "running" => job'[z].status = "running")
  BY <1>1 DEF CountInv, RunShape, NoJob
<1>3. ASSUME NEW z \in Stories
      PROVE  FirstRead(z)' = FirstRead(z) /\ PendingOf(z) \subseteq PendingOf(z)'
  <2>1. \A e \in StoryEvents(z) : event'[e] = event[e] \/ (event[e] = "unsent" /\ event'[e] = "pending")
    BY <1>1 DEF StoryEvents
  <2>. QED  BY <2>1 DEF FirstRead, PendingOf
<1>4. \A z : /\ Running(z)' = Running(z) /\ Started(z)' = Started(z)
             /\ \A i : Owes(z, i)' = Owes(z, i)
             /\ \A e : Latest(z, e)' = Latest(z, e)
  BY <1>1 DEF Running, Started, Owes, Latest
<1>5. \A z \in Stories : RunShape(z)'
  <2>. SUFFICES ASSUME NEW z \in Stories PROVE RunShape(z)'
    OBVIOUS
  <2>1. RunShape(z) /\ run'[z] = run[z]
    BY <1>1 DEF CountInv
  <2>2. Running(z) => run[z].ids \subseteq PendingOf(z)'
    BY <1>3, <2>1 DEF RunShape
  <2>. QED  BY <1>2, <1>3, <1>4, <2>1, <2>2 DEF RunShape
<1>6. Remembers
  <2>1. \A e \in Events : (InLog(e) => InLog(e)') /\ (Taken(e) <=> Taken(e)')
    BY <1>1, <1>4 DEF InLog, Taken
  <2>2. \A z \in Stories, i \in Items : Exposed(z, i) => Exposed(z, i)'
    BY <1>1, <1>3, <1>4 DEF Exposed
  <2>3. \A e \in Events, i \in Items : Settled(e, i) => Settled(e, i)'
    BY <1>4, <2>1 DEF Settled
  <2>. QED  BY <2>1, <2>2, <2>3 DEF Remembers
<1>. QED  BY <1>1, <1>2, <1>5, <1>6, OtherWriter, WhatIsHeld DEF Alike

\* The learner's own ratings.
LEMMA RatingCounts ==
    ASSUME KnowledgeInv, KnowledgeInv', CountInv, UNCHANGED signal, NEW k \in Items,
           LoadForLevel(k) \/ StoreLevel(k)
    PROVE  CountInv'
<1>1. UNCHANGED <<event, job, run, failures>>
  BY DEF LoadForLevel, StoreLevel
<1>2. DOMAIN rating = Items /\ DOMAIN rating[k] = DOMAIN NoRating /\ DOMAIN uk = Items
  BY DEF KnowledgeInv, WriterTypeOK
<1>3. ASSUME LoadForLevel(k)
      PROVE  /\ UNCHANGED uk
             /\ \A i \in Items : rating'[i].pc = "store" =>
                   rating'[i].copy = uk[i] \/ (rating[i].pc = "store" /\ rating'[i].copy = rating[i].copy)
  <2>1. UNCHANGED uk /\ rating' = [rating EXCEPT ![k].pc = "store", ![k].copy = uk[k], ![k].given = @ + 1]
    BY <1>3 DEF LoadForLevel
  <2>2. \A i \in Items \ {k} : rating'[i] = rating[i]
    BY <1>2, <2>1
  <2>3. PICK old, row, given : old = rating[k] /\ row = uk[k] /\ given = old.given + 1
    OBVIOUS
  <2>4. rating'[k] = [old EXCEPT !.pc = "store", !.copy = row, !.given = given]
    BY <1>2, <2>1, <2>3
  <2>5. rating'[k].copy = row
    BY <1>2, <2>3, <2>4 DEF NoRating
  <2>. QED  BY <2>1, <2>2, <2>3, <2>5
<1>4. ASSUME StoreLevel(k)
      PROVE  /\ rating[k].pc = "store" /\ Alike(uk'[k], rating[k].copy)
             /\ \A i \in Items \ {k} : uk'[i] = uk[i] /\ rating'[i] = rating[i]
             /\ rating'[k].pc = "idle"
  <2>1. PICK old, copy, given : old = rating[k] /\ copy = old.copy /\ given = old.given
    OBVIOUS
  <2>2. /\ old.pc = "store" /\ Refresh(k, [copy EXCEPT !.level = given])
        /\ rating' = [rating EXCEPT ![k].pc = "idle", ![k].copy = ZeroRow, ![k].level = given]
    BY <1>4, <2>1 DEF StoreLevel
  <2>3. copy \in KnowledgeRow /\ given \in Nat
    BY <2>1, <2>2 DEF KnowledgeInv, WriterTypeOK, Copies, RowOf
  <2>4. PICK row \in KnowledgeRow : row = [copy EXCEPT !.level = given] /\ Alike(row, copy)
    <3>. DEFINE new == [copy EXCEPT !.level = given]
    <3>1. new \in KnowledgeRow
      BY <2>3 DEF KnowledgeRow
    <3>2. Alike(new, copy)
      BY <2>3 DEF KnowledgeRow, Alike
    <3>. QED  BY <3>1, <3>2
  <2>5. Alike(uk'[k], row) /\ \A i \in Items \ {k} : uk'[i] = uk[i]
    BY <1>2, <2>2, <2>4, RefreshedRow
  <2>6. \A i \in Items \ {k} : rating'[i] = rating[i]
    BY <1>2, <2>2
  <2>7. rating'[k] = [old EXCEPT !.pc = "idle", !.copy = ZeroRow, !.level = given]
    BY <1>2, <2>1, <2>2
  <2>8. rating'[k].pc = "idle"
    BY <1>2, <2>1, <2>7 DEF NoRating
  <2>. QED  BY <2>1, <2>2, <2>4, <2>5, <2>6, <2>8 DEF Alike
<1>5. \A i \in Items :
         /\ \E old \in Held(i) : Alike(uk'[i], old)
         /\ rating'[i].pc = "store" => \E old \in Held(i) : Alike(rating'[i].copy, old)
  <2>1. CASE LoadForLevel(k)
    BY <1>3, <2>1, WhatIsHeld DEF Alike
  <2>2. CASE StoreLevel(k)
    BY <1>4, <2>2, WhatIsHeld DEF Alike
  <2>. QED  BY <2>1, <2>2
<1>. QED  BY <1>1, <1>5, OutsideRuns, OtherWriter, WhatIsHeld DEF Alike

\* A grade counts nothing that is read.
LEMMA GradeCounts ==
    ASSUME KnowledgeInv, KnowledgeInv', CountInv, UNCHANGED readerVars, NEW q \in Signals, ApplyTaskSignal(q)
    PROVE  CountInv'
<1>1. UNCHANGED <<event, job, run, rating, failures>>
  BY DEF readerVars
<1>2. DOMAIN signal = Signals /\ DOMAIN signal[q] = DOMAIN NoSignal /\ DOMAIN uk = Items
  BY DEF KnowledgeInv, WriterTypeOK
<1>3. ASSUME NEW i \in Items, LoadForSignal(q, i)
      PROVE  /\ UNCHANGED uk
             /\ \A p \in Signals \ {q} : signal'[p] = signal[p]
             /\ signal'[q].item = i /\ signal'[q].copy = uk[i]
  <2>1. PICK old, row, left : old = signal[q] /\ row = uk[i] /\ left = old.left \ {i}
    OBVIOUS
  <2>2. /\ UNCHANGED uk
        /\ signal' = [signal EXCEPT ![q].pc = "store", ![q].left = left, ![q].item = i, ![q].copy = row]
    BY <1>3, <2>1 DEF LoadForSignal
  <2>3. /\ \A p \in Signals \ {q} : signal'[p] = signal[p]
        /\ signal'[q] = [old EXCEPT !.pc = "store", !.left = left, !.item = i, !.copy = row]
    BY <1>2, <2>1, <2>2
  <2>4. signal'[q].item = i /\ signal'[q].copy = row
    BY <1>2, <2>1, <2>3 DEF NoSignal
  <2>. QED  BY <2>1, <2>2, <2>3, <2>4
<1>4. ASSUME StoreForSignal(q)
      PROVE  /\ signal[q].pc = "store"
             /\ \A p \in Signals \ {q} : signal'[p] = signal[p]
             /\ signal'[q].pc # "store"
             /\ Alike(uk'[signal[q].item], signal[q].copy)
             /\ \A i \in Items \ {signal[q].item} : uk'[i] = uk[i]
  <2>1. PICK old, copy, i, shown : old = signal[q] /\ copy = old.copy /\ i = old.item
                                   /\ shown = IF i \in old.shown THEN 1 ELSE 0
    OBVIOUS
  <2>2. PICK pc : pc = IF old.left = {} THEN "done" ELSE "load"
    OBVIOUS
  <2>3. /\ old.pc = "store" /\ signal' = [signal EXCEPT ![q].pc = pc]
        /\ Refresh(i, [copy EXCEPT !.total = @ + 1, !.correct = @ + shown])
    BY <1>4, <2>1, <2>2 DEF StoreForSignal, WithGrade
  <2>4. copy \in KnowledgeRow /\ i \in Items /\ shown \in Nat
    BY <2>1, <2>3 DEF KnowledgeInv, WriterTypeOK, Copies, RowOf
  <2>5. PICK row \in KnowledgeRow : row = [copy EXCEPT !.total = @ + 1, !.correct = @ + shown] /\ Alike(row, copy)
    <3>. DEFINE new == [copy EXCEPT !.total = @ + 1, !.correct = @ + shown]
    <3>1. PICK total, correct \in Nat : total = copy.total + 1 /\ correct = copy.correct + shown
      BY <2>4 DEF KnowledgeRow
    <3>2. new = [copy EXCEPT !.total = total, !.correct = correct]
      BY <3>1
    <3>. HIDE DEF new
    <3>3. new \in KnowledgeRow
      BY <2>4, <3>2 DEF KnowledgeRow
    <3>4. Alike(new, copy)
      BY <2>4, <3>2 DEF KnowledgeRow, Alike
    <3>. QED  BY <3>3, <3>4 DEF new
  <2>6. Alike(uk'[i], row) /\ \A k \in Items \ {i} : uk'[k] = uk[k]
    BY <1>2, <2>3, <2>4, <2>5, RefreshedRow
  <2>7. (\A p \in Signals \ {q} : signal'[p] = signal[p]) /\ signal'[q] = [old EXCEPT !.pc = pc]
    BY <1>2, <2>1, <2>3
  <2>8. signal'[q].pc # "store"
    BY <1>2, <2>1, <2>2, <2>7 DEF NoSignal
  <2>. QED  BY <2>1, <2>3, <2>5, <2>6, <2>7, <2>8 DEF Alike
<1>5. ASSUME NEW i \in Items
      PROVE  /\ \E old \in Held(i) : Alike(uk'[i], old)
             /\ \A p \in Signals : signal'[p].pc = "store" /\ signal'[p].item = i
                    => \E old \in Held(i) : Alike(signal'[p].copy, old)
  <2>1. CASE \E k \in Items : LoadForSignal(q, k)
    BY <1>3, <2>1, WhatIsHeld DEF Alike
  <2>2. CASE StoreForSignal(q)
    BY <1>4, <2>2, WhatIsHeld DEF Alike
  <2>. QED  BY <2>1, <2>2 DEF ApplyTaskSignal
<1>. QED  BY <1>1, <1>5, OutsideRuns, OtherWriter, WhatIsHeld DEF Alike

LEMMA TasksCount ==
    ASSUME KnowledgeInv, KnowledgeInv', CountInv, UNCHANGED readerVars, TaskNext
    PROVE  CountInv'
<1>1. UNCHANGED <<event, job, run, rating, failures>>
  BY DEF readerVars
<1>2. DOMAIN signal = Signals
  BY DEF KnowledgeInv, WriterTypeOK
<1>3. ASSUME UNCHANGED uk, \A p \in Signals : signal'[p] = signal[p] \/ signal'[p].pc # "store"
      PROVE  CountInv'
  BY <1>1, <1>3, OutsideRuns, OtherWriter, WhatIsHeld DEF Alike
<1>4. ASSUME NEW q \in Signals, LearnItems(q) PROVE CountInv'
  BY <1>4, GradeCounts DEF LearnItems
<1>5. ASSUME NEW q \in Signals, RecordTaskGrade(q) PROVE CountInv'
  <2>1. PICK targets, shown : UNCHANGED uk /\ (UNCHANGED signal \/ BeginSignal(q, targets, shown))
    BY <1>5 DEF RecordTaskGrade, acquireVars
  <2>2. CASE BeginSignal(q, targets, shown)
    <3>1. \A p \in Signals \ {q} : signal'[p] = signal[p]
      BY <1>2, <2>2 DEF BeginSignal
    <3>2. signal'[q] = [NoSignal EXCEPT !.pc = "load", !.left = targets, !.shown = shown]
      BY <1>2, <2>2 DEF BeginSignal
    <3>3. signal'[q].pc = "load"
      BY <3>2 DEF NoSignal
    <3>. QED  BY <1>3, <2>1, <3>1, <3>3
  <2>. QED  BY <1>3, <2>1, <2>2
<1>6. ASSUME NEW q \in Signals, BeginXP(q) PROVE CountInv'
  BY <1>2, <1>3, <1>6 DEF BeginXP, NoSignal
<1>7. CASE UNCHANGED acquireVars
  BY <1>3, <1>7 DEF acquireVars
<1>8. ASSUME NEW q \in Signals, SubmitStep(q) \/ SubmissionDies(q) \/ \E t \in Tasks : Submit(q, t) PROVE CountInv'
  <2>1. CASE (\E t \in Tasks : Submit(q, t)) \/ Grade(q) \/ LearnSkills(q) \/ SubmissionDies(q)
    <3>1. UNCHANGED acquireVars
      <4>1. CASE \E t \in Tasks : Submit(q, t)
        BY <4>1 DEF Submit
      <4>2. CASE Grade(q)
        BY <4>2, Zenon DEF Grade
      <4>3. CASE LearnSkills(q)
        BY <4>3 DEF LearnSkills
      <4>4. CASE SubmissionDies(q)
        BY <4>4 DEF SubmissionDies
      <4>. QED  BY <2>1, <4>1, <4>2, <4>3, <4>4
    <3>. QED  BY <1>7, <3>1
  <2>. QED  BY <1>4, <1>5, <1>6, <1>8, <2>1 DEF SubmitStep
<1>9. CASE \/ \E k \in Skills : VerifyStep(k)
           \/ \E r \in Reports : \/ ReportTask(r) \/ ReportStep(r) \/ EnqueueRegenerationFails(r) \/ ReportDies(r)
                                 \/ RegenStep(r) \/ RegenDies(r)
  BY <1>7, <1>9
     DEF VerifyStep, ReportTask, ReportStep, CreateReport, EnqueueRegeneration, RecordUnavailable,
         EnqueueRegenerationFails, ReportDies, RegenStep, RegenDies, RegenLoad, RegenWritesOutcome,
         RegenGenerate, ReplaceTaskContent, RegenFails, FailTaskRegeneration, RegenFinish
<1>. QED  BY <1>8, <1>9 DEF TaskNext

LEMMA ReadingCounts ==
    ASSUME KnowledgeInv, KnowledgeInv', CountInv, UNCHANGED signal, ReaderNext
    PROVE  CountInv'
<1>1. CASE \E s \in Stories : \E last \in StoryEvents(s), lost \in BOOLEAN : Flush(s, last, lost) /\ UNCHANGED uk
  BY <1>1, FlushedCounts
<1>2. ASSUME NEW s \in Stories, SignalStep(s) PROVE CountInv'
  <2>1. CASE StartSignals(s) \/ DeriveEvent(s) \/ NotReadyStore(s)
    BY <2>1, StartCounts, DeriveCounts, NotReadyStoreCounts
  <2>2. CASE NotReadyDone(s) \/ MarkProcessed(s) \/ EndSignals(s) \/ \E i \in Items : NotReadyLoad(s, i)
    BY <2>2, PassingCounts
  <2>3. CASE \E i \in Items : LoadExposed(s, i) \/ FlushRow(s, i)
    BY <2>3, ExposeCounts, FlushCounts
  <2>. QED  BY <1>2, <2>1, <2>2, <2>3 DEF SignalStep
<1>3. ASSUME NEW s \in Stories, FailSignals(s) PROVE CountInv'
  <2>1. UNCHANGED uk
    BY <1>3 DEF FailSignals
  <2>. QED  BY <1>3, <2>1, FailureCounts
<1>4. CASE \E i \in Items : LoadForLevel(i) \/ StoreLevel(i)
  BY <1>4, RatingCounts
<1>5. CASE \E e \in Events : SetSurfaceLevel(e)
  <2>1. UNCHANGED <<event, job, run, rating, failures, uk>>
    BY <1>5 DEF SetSurfaceLevel
  <2>. QED  BY <2>1, OutsideRuns, OtherWriter, WhatIsHeld DEF Alike
<1>. QED  BY <1>1, <1>2, <1>3, <1>4, <1>5 DEF ReaderNext

LEMMA InitialCounts == LearningInit => CountInv
<1>. SUFFICES ASSUME LearningInit PROVE CountInv
  OBVIOUS
<1>1. /\ uk = [i \in Items |-> ZeroRow] /\ signal = [q \in Signals |-> NoSignal]
      /\ event = [e \in Events |-> "unsent"] /\ job = [s \in Stories |-> NoJob]
      /\ run = [s \in Stories |-> NoRun] /\ rating = [i \in Items |-> NoRating] /\ failures = 0
  BY DEF LearningInit, AcquireInit, ReaderInit
<1>2. \A s \in Stories : RunShape(s)
  BY <1>1 DEF RunShape, Running, NoRun
<1>3. ASSUME NEW i \in Items PROVE \A row \in Held(i) : Afforded(i, row)
  <2>1. ASSUME NEW a \in Accounts PROVE Account(a, i) \in Nat
    <3>1. PICK d, u \in Nat : d = Cardinality(Due(a, i)) /\ u = Cardinality(Spent(a, i))
      BY AccountSets, FS_Subset, FS_CardinalityType
    <3>. QED  BY <1>1, <3>1 DEF Account
  <2>2. PICK l, v, w, g \in Nat : /\ l = Account("lookup", i) /\ v = Account("variety", i)
                                  /\ w = Account("word", i) /\ g = Account("again", i)
    BY <2>1 DEF Accounts
  <2>3. \A row \in Held(i) : row = ZeroRow
    BY <1>1 DEF Held, NoRun, NoSignal, NoRating
  <2>. QED  BY <2>2, <2>3 DEF Afforded, ZeroRow
<1>. QED  BY <1>1, <1>2, <1>3 DEF CountInv

LEMMA CountStep ==
    LearningInv /\ LearningInv' /\ CountInv /\ [LearningNext]_learningVars => CountInv'
<1>. SUFFICES ASSUME LearningInv, LearningInv', CountInv, [LearningNext]_learningVars PROVE CountInv'
  OBVIOUS
<1>1. KnowledgeInv /\ KnowledgeInv'
  BY DEF LearningInv
<1>2. CASE UNCHANGED learningVars
  <2>1. UNCHANGED <<event, job, run, rating, failures, uk, signal>>
    BY <1>2 DEF learningVars, readerVars, acquireVars
  <2>. QED  BY <1>1, <2>1, OutsideRuns, OtherWriter, WhatIsHeld DEF Alike
<1>3. CASE ReaderNext /\ UNCHANGED <<signal, taskVars, skillVars>>
  BY <1>1, <1>3, ReadingCounts
<1>4. CASE TaskNext /\ UNCHANGED readerVars
  BY <1>1, <1>4, TasksCount
<1>. QED  BY <1>2, <1>3, <1>4 DEF LearningNext

\* The learner's rows never run ahead of the accounts, and neither does a copy of a row
\* that a job, a rating or a grade has still to store (jobs/reader_signals.go,
\* acquire.go Refresh).
THEOREM CountInvariant == LearningSpec => [](LearningInv /\ CountInv)
<1>1. LearningInit => LearningInv /\ CountInv
  BY InitialLearning, InitialCounts
<1>2. LearningInv /\ CountInv /\ [LearningNext]_learningVars => (LearningInv /\ CountInv)'
  BY LearningStep, CountStep
<1>. QED  BY <1>1, <1>2, PTL DEF LearningSpec

LEMMA AccountIsBounded ==
    ASSUME NEW a \in Accounts, NEW i \in Items, failures \in Nat
    PROVE  /\ Account(a, i) \in Nat /\ (failures + 1) * Cardinality(Due(a, i)) \in Nat
           /\ Account(a, i) <= (failures + 1) * Cardinality(Due(a, i))
<1>1. IsFiniteSet(Due(a, i)) /\ IsFiniteSet(Spent(a, i))
  BY AccountSets, FS_Subset
<1>2. PICK d, u \in Nat : d = Cardinality(Due(a, i)) /\ u = Cardinality(Spent(a, i))
  BY <1>1, FS_CardinalityType
<1>3. u <= d
  BY <1>1, <1>2, AccountSets, FS_Subset
<1>4. failures * d + u \in Nat /\ failures * d + u <= (failures + 1) * d + 0
  BY <1>3, Products
<1>5. (failures + 1) * d \in Nat
  OBVIOUS
<1>. QED  BY <1>2, <1>4, <1>5 DEF Account

\* Whatever the order in which jobs, ratings and grades read and store the rows, a row
\* counts each event, each first read and each second reading of a target at most once
\* more than runs have failed (service.go:181).
THEOREM NothingIsOvercounted == LearningSpec => []NeverOvercounted
<1>1. LearningInv /\ CountInv => NeverOvercounted
  <2>. SUFFICES ASSUME LearningInv, CountInv, NEW i \in Items
                PROVE  /\ uk[i].lookups <= (failures + 1) * Cardinality(Due("lookup", i))
                       /\ uk[i].variety <= (failures + 1) * Cardinality(Due("variety", i))
                       /\ uk[i].exposure <= (failures + 1) * (Cardinality(Due("word", i)) + Cardinality(Due("again", i)))
    BY DEF NeverOvercounted, OccurrencesIn, Due
  <2>1. Afforded(i, uk[i]) /\ failures \in Nat
    BY WhatIsHeld DEF CountInv
  <2>2. uk[i].lookups \in Nat /\ uk[i].variety \in Nat /\ uk[i].exposure \in Nat
    BY HeldRows, WhatIsHeld DEF LearningInv
  <2>3. \A a \in Accounts : Cardinality(Due(a, i)) \in Nat
    BY AccountSets, FS_CardinalityType
  <2>4. PICK l, v, w, g \in Nat :
           /\ l = Cardinality(Due("lookup", i)) /\ v = Cardinality(Due("variety", i))
           /\ w = Cardinality(Due("word", i)) /\ g = Cardinality(Due("again", i))
    BY <2>3 DEF Accounts
  <2>5. \A a \in Accounts : /\ Account(a, i) \in Nat /\ (failures + 1) * Cardinality(Due(a, i)) \in Nat
                            /\ Account(a, i) <= (failures + 1) * Cardinality(Due(a, i))
    BY <2>1, AccountIsBounded
  <2>6. PICK l1, v1, w1, g1 \in Nat :
           /\ l1 = (failures + 1) * l /\ v1 = (failures + 1) * v
           /\ w1 = (failures + 1) * w /\ g1 = (failures + 1) * g
    BY <2>1, <2>4
  <2>7. (failures + 1) * (w + g) = w1 + g1
    BY <2>1, <2>4, <2>6
  <2>8. /\ Account("lookup", i) <= l1 /\ Account("variety", i) <= v1
        /\ Account("word", i) <= w1 /\ Account("again", i) <= g1
        /\ Account("lookup", i) \in Nat /\ Account("variety", i) \in Nat
        /\ Account("word", i) \in Nat /\ Account("again", i) \in Nat
    BY <2>4, <2>5, <2>6 DEF Accounts
  <2>9. /\ uk[i].lookups <= l1 /\ uk[i].variety <= v1 /\ uk[i].exposure <= w1 + g1
    BY <2>1, <2>2, <2>8 DEF Afforded
  <2>. QED  BY <2>4, <2>6, <2>7, <2>9
<1>. QED  BY <1>1, CountInvariant, PTL
=============================================================================
