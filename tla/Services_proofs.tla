--------------------------- MODULE Services_proofs ---------------------------
(***************************************************************************)
(* What is proved about services that share no state with one another.     *)
(***************************************************************************)
EXTENDS Breakdowns, ModelCalls, Conversation, ReaderSpeech, FiniteSetTheorems, TLAPS

(***************************************************************************)
(* Breakdowns, for any requests, sentences and phrases, and any number of  *)
(* failed stores and restarts.                                             *)
(*                                                                         *)
(* Neither property is inductive.  That a breakdown is paid for once rests *)
(* on its flight having one leader (LeaderInv) and on the leader having    *)
(* looked again (AccountInv: who is about to ask the model has nothing     *)
(* stored or on its way).  That a structure names stored phrases rests on  *)
(* the leader's progress through the phrases of its sentence (PhraseInv).  *)
(***************************************************************************)
Leading == {"recheck", "model", "store", "phrases"}

Requests == [pc : {"idle", "hints", "join", "wait"} \cup Leading,
             of : Breakable \cup {"none"},
             todo : SUBSET UNION {PhrasesOf[b] : b \in Sentences}]

BreakdownTypeOK ==
    /\ request \in [BreakdownReaders -> Requests]
    /\ flight \in [Breakable -> BreakdownReaders \cup {"none"}]
    /\ paid \in [Breakable -> Nat]
    /\ lost \in [Breakable -> Nat]

\* A request that is under way is about a breakdown, and one that leads is the leader
\* its flight knows.
LeaderInv ==
    \A r \in BreakdownReaders :
        /\ request[r].pc # "idle" => request[r].of \in Breakable
        /\ request[r].pc \in Leading => flight[request[r].of] = r

\* An answer was paid for and is still to be stored.
OnItsWay(b) == \E r \in BreakdownReaders : request[r].pc = "store" /\ request[r].of = b

AccountInv ==
    /\ \A b \in Breakable :
          /\ paid[b] <= 1 + lost[b]
          /\ b \notin breakdowns /\ ~OnItsWay(b) => paid[b] <= lost[b]
    /\ \A r \in BreakdownReaders :
          request[r].pc \in {"model", "store"} => request[r].of \notin breakdowns

PhraseInv ==
    /\ structure \subseteq phrases
    /\ \A r \in BreakdownReaders :
          request[r].pc = "phrases" =>
              request[r].of \in Sentences /\ PhrasesOf[request[r].of] \subseteq phrases \cup request[r].todo

BreakdownInv == BreakdownTypeOK /\ LeaderInv /\ AccountInv /\ PhraseInv

-----------------------------------------------------------------------------
\* The empty caches of a new server satisfy the invariant.
LEMMA InitialBreakdowns == BreakdownInit => BreakdownInv
<1>. SUFFICES ASSUME BreakdownInit PROVE BreakdownInv
  OBVIOUS
<1>1. BreakdownTypeOK
  BY DEF BreakdownInit, BreakdownTypeOK, Requests, NoBreakdown, Leading
<1>2. LeaderInv /\ AccountInv /\ PhraseInv
  BY DEF BreakdownInit, LeaderInv, AccountInv, PhraseInv, NoBreakdown, Leading, OnItsWay
<1>. QED  BY <1>1, <1>2 DEF BreakdownInv

\* A request that moves on, with nothing stored and nothing lost.
LEMMA RequestMoves ==
    ASSUME BreakdownInv, NEW r \in BreakdownReaders, NEW row \in Requests,
           request' = [request EXCEPT ![r] = row],
           UNCHANGED <<breakdowns, phrases, structure, flight, paid, lost>>,
           row.pc # "idle" => row.of \in Breakable,
           row.pc \in Leading => flight[row.of] = r,
           row.pc \notin {"store", "phrases"},
           row.pc = "model" => row.of \notin breakdowns,
           request[r].pc # "store"
    PROVE  BreakdownInv'
<1>1. BreakdownTypeOK'
  BY DEF BreakdownInv, BreakdownTypeOK
<1>2. request'[r] = row /\ \A q \in BreakdownReaders \ {r} : request'[q] = request[q]
  BY DEF BreakdownInv, BreakdownTypeOK
<1>3. LeaderInv'
  BY <1>2 DEF BreakdownInv, LeaderInv
<1>4. \A b \in Breakable : OnItsWay(b)' <=> OnItsWay(b)
  BY <1>2 DEF OnItsWay
<1>5. AccountInv'
  BY <1>2, <1>4 DEF BreakdownInv, AccountInv
<1>6. PhraseInv'
  BY <1>2 DEF BreakdownInv, PhraseInv
<1>. QED  BY <1>1, <1>3, <1>5, <1>6 DEF BreakdownInv

\* Asking, reading the hints, joining a flight.
LEMMA BeforeTheFlight ==
    ASSUME BreakdownInv, NEW r \in BreakdownReaders,
           (\E b \in Breakable : AskBreakdown(r, b)) \/ ReadHints(r) \/ JoinBreakdown(r)
    PROVE  BreakdownInv'
<1>0. request[r] \in Requests /\ NoBreakdown \in Requests /\ NoBreakdown.pc = "idle"
  BY DEF BreakdownInv, BreakdownTypeOK, NoBreakdown, Requests
<1>1. CASE \E b \in Breakable : AskBreakdown(r, b)
  <2>. PICK b \in Breakable : AskBreakdown(r, b)
    BY <1>1
  <2>. DEFINE row == [NoBreakdown EXCEPT !.pc = "hints", !.of = b]
  <2>1. row \in Requests /\ row.pc = "hints" /\ row.of = b
    BY DEF NoBreakdown, Requests
  <2>2. /\ request[r].pc = "idle"
        /\ request' = [request EXCEPT ![r] = row]
        /\ UNCHANGED <<breakdowns, phrases, structure, flight, paid, lost>>
    BY DEF AskBreakdown
  <2>. HIDE DEF row
  <2>. QED  BY <2>1, <2>2, RequestMoves DEF Leading
<1>2. CASE ReadHints(r)
  <2>1. request' = [request EXCEPT ![r].pc = "join"] \/ request' = [request EXCEPT ![r] = NoBreakdown]
    BY <1>2 DEF ReadHints
  <2>2. request[r].pc = "hints" /\ UNCHANGED <<breakdowns, phrases, structure, flight, paid, lost>>
    BY <1>2 DEF ReadHints
  <2>3. CASE request' = [request EXCEPT ![r].pc = "join"]
    <3>. DEFINE row == [request[r] EXCEPT !.pc = "join"]
    <3>1. row \in Requests /\ row.pc = "join" /\ row.of = request[r].of /\ row.of \in Breakable
      BY <1>0, <2>2 DEF Requests, BreakdownInv, LeaderInv
    <3>2. request' = [request EXCEPT ![r] = row]
      BY <2>3 DEF BreakdownInv, BreakdownTypeOK
    <3>. HIDE DEF row
    <3>. QED  BY <2>2, <3>1, <3>2, RequestMoves DEF Leading
  <2>4. CASE request' = [request EXCEPT ![r] = NoBreakdown]
    BY <1>0, <2>2, <2>4, RequestMoves DEF Leading
  <2>. QED  BY <2>1, <2>3, <2>4
<1>3. CASE JoinBreakdown(r)
  <2>. DEFINE b == request[r].of
              next == IF flight[b] = "none" THEN "recheck" ELSE "wait"
              row == [request[r] EXCEPT !.pc = next]
  <2>1. b \in Breakable /\ request[r].pc = "join"
    BY <1>3 DEF JoinBreakdown, BreakdownInv, LeaderInv
  <2>2. row \in Requests /\ row.pc = next /\ row.of = b
    BY <1>0 DEF Requests, Leading
  <2>3. request' = [request EXCEPT ![r] = row]
    BY <1>3 DEF JoinBreakdown, BreakdownInv, BreakdownTypeOK
  <2>4. flight' = [flight EXCEPT ![b] = IF flight[b] = "none" THEN r ELSE flight[b]]
    BY <1>3 DEF JoinBreakdown, BreakdownInv, BreakdownTypeOK
  <2>5. request'[r] = row /\ \A q \in BreakdownReaders \ {r} : request'[q] = request[q]
    BY <2>3 DEF BreakdownInv, BreakdownTypeOK
  <2>6. BreakdownTypeOK'
    <3>. HIDE DEF row, b
    <3>1. (request \in [BreakdownReaders -> Requests])'
      BY <2>2, <2>3 DEF BreakdownInv, BreakdownTypeOK
    <3>2. (flight \in [Breakable -> BreakdownReaders \cup {"none"}])'
      BY <2>1, <2>4 DEF BreakdownInv, BreakdownTypeOK
    <3>. QED  BY <1>3, <3>1, <3>2 DEF JoinBreakdown, BreakdownInv, BreakdownTypeOK
  <2>7. LeaderInv'
    <3>. HIDE DEF row, b
    <3>1. ASSUME NEW q \in BreakdownReaders \ {r} , request[q].pc \in Leading
          PROVE  flight'[request[q].of] = q
      <4>1. flight[request[q].of] = q /\ request[q].of \in Breakable /\ q # "none"
        BY <3>1, ReaderAssumption DEF BreakdownInv, LeaderInv, Leading
      <4>. QED  BY <2>1, <2>4, <4>1 DEF BreakdownInv, BreakdownTypeOK
    <3>2. row.pc \in Leading => flight'[b] = r
      BY <2>1, <2>2, <2>4 DEF BreakdownInv, BreakdownTypeOK, Leading
    <3>. QED  BY <2>1, <2>2, <2>5, <3>1, <3>2 DEF BreakdownInv, LeaderInv
  <2>8. row.pc \in {"recheck", "wait"}
    BY <2>2
  <2>. HIDE DEF row
  <2>9. \A c \in Breakable : OnItsWay(c)' <=> OnItsWay(c)
    BY <2>1, <2>5, <2>8 DEF OnItsWay
  <2>10. AccountInv' /\ PhraseInv'
    BY <1>3, <2>1, <2>5, <2>8, <2>9 DEF JoinBreakdown, BreakdownInv, AccountInv, PhraseInv
  <2>. QED  BY <2>6, <2>7, <2>10 DEF BreakdownInv
<1>. QED  BY <1>1, <1>2, <1>3

\* A flight that lands leaves no leader behind; what else is under way stays as it is.
LEMMA Landing ==
    ASSUME BreakdownTypeOK, LeaderInv, NEW r \in BreakdownReaders, request[r].pc \in Leading, Land(r)
    PROVE  /\ (request \in [BreakdownReaders -> Requests])'
           /\ (flight \in [Breakable -> BreakdownReaders \cup {"none"}])'
           /\ LeaderInv'
           /\ request'[r].pc = "idle"
           /\ \A q \in BreakdownReaders : request'[q] = request[q] \/ request'[q].pc = "idle"
           /\ \A q \in BreakdownReaders : request[q].pc = "store" /\ q # r => request'[q] = request[q]
<1>1. request'[r] = NoBreakdown
  BY DEF Land
<1>2. \A q \in BreakdownReaders : request'[q] = request[q] \/ request'[q] = NoBreakdown
  BY DEF Land
<1>3. (request \in [BreakdownReaders -> Requests])'
  BY DEF Land, BreakdownTypeOK, Requests, NoBreakdown, Leading
<1>4. (flight \in [Breakable -> BreakdownReaders \cup {"none"}])'
  BY DEF Land, BreakdownTypeOK
<1>5. LeaderInv'
  <2>. SUFFICES ASSUME NEW q \in BreakdownReaders, request'[q].pc # "idle"
                PROVE  /\ request'[q].of \in Breakable
                       /\ request'[q].pc \in Leading => flight'[request'[q].of] = q
    BY DEF LeaderInv, Leading
  <2>1. q # r /\ request'[q] = request[q]
    BY <1>1, <1>2 DEF NoBreakdown
  <2>2. flight[request[r].of] = r
    BY DEF LeaderInv
  <2>. QED  BY <2>1, <2>2 DEF LeaderInv, Land, BreakdownTypeOK
<1>6. \A q \in BreakdownReaders : request[q].pc = "store" /\ q # r => request'[q] = request[q]
  BY DEF Land
<1>. QED  BY <1>1, <1>2, <1>3, <1>4, <1>5, <1>6 DEF NoBreakdown

\* It keeps the invariant unless an answer was lost with it.
LEMMA LandingKeeps ==
    ASSUME BreakdownInv, NEW r \in BreakdownReaders, request[r].pc \in Leading \ {"store"}, Land(r),
           UNCHANGED <<breakdowns, phrases, structure, paid, lost>>
    PROVE  BreakdownInv'
<1>1. BreakdownTypeOK' /\ LeaderInv'
  BY Landing DEF BreakdownInv, BreakdownTypeOK
<1>2. /\ \A q \in BreakdownReaders : request'[q] = request[q] \/ request'[q].pc = "idle"
      /\ \A q \in BreakdownReaders : request[q].pc = "store" => request'[q] = request[q]
  BY Landing DEF BreakdownInv
<1>3. \A b \in Breakable : OnItsWay(b)' <=> OnItsWay(b)
  BY <1>2 DEF OnItsWay
<1>4. AccountInv' /\ PhraseInv'
  BY <1>2, <1>3 DEF BreakdownInv, AccountInv, PhraseInv
<1>. QED  BY <1>1, <1>4 DEF BreakdownInv

\* The leader looks again, asks the model, and stores what it was told.
LEMMA TheFlight ==
    ASSUME BreakdownInv, NEW r \in BreakdownReaders, Recheck(r) \/ AskModel(r) \/ StoreBreakdown(r)
    PROVE  BreakdownInv'
<1>. DEFINE b == request[r].of
<1>0. /\ request[r] \in Requests
      /\ request[r].pc \in Leading /\ b \in Breakable /\ flight[b] = r
  BY DEF BreakdownInv, BreakdownTypeOK, LeaderInv, Recheck, AskModel, StoreBreakdown, Leading
<1>1. \A q \in BreakdownReaders \ {r} : request[q].pc \in Leading => request[q].of # b
  BY <1>0 DEF BreakdownInv, LeaderInv
<1>2. CASE Recheck(r)
  <2>1. CASE b \in breakdowns
    <3>1. Land(r)
      BY <1>2, <2>1 DEF Recheck
    <3>2. /\ request[r].pc = "recheck"
          /\ UNCHANGED <<breakdowns, phrases, structure, paid, lost>>
      BY <1>2 DEF Recheck
    <3>. QED  BY <1>0, <3>1, <3>2, LandingKeeps
  <2>2. CASE b \notin breakdowns
    <3>. DEFINE row == [request[r] EXCEPT !.pc = "model"]
    <3>1. row \in Requests /\ row.pc = "model" /\ row.of = b
      BY <1>0 DEF Requests, Leading
    <3>2. /\ request[r].pc = "recheck"
          /\ request' = [request EXCEPT ![r] = row]
          /\ UNCHANGED <<breakdowns, phrases, structure, flight, paid, lost>>
      BY <1>2, <2>2 DEF Recheck, BreakdownInv, BreakdownTypeOK
    <3>. HIDE DEF row
    <3>. QED  BY <1>0, <2>2, <3>1, <3>2, RequestMoves
  <2>. QED  BY <2>1, <2>2
<1>3. CASE AskModel(r)
  <2>1. CASE Land(r) /\ UNCHANGED paid
    <3>1. request[r].pc = "model" /\ UNCHANGED <<breakdowns, phrases, structure, paid, lost>>
      BY <1>3, <2>1 DEF AskModel
    <3>. QED  BY <1>0, <2>1, <3>1, LandingKeeps
  <2>2. CASE paid' = [paid EXCEPT ![b] = @ + 1] /\ request' = [request EXCEPT ![r].pc = "store"] /\ UNCHANGED flight
    <3>. DEFINE row == [request[r] EXCEPT !.pc = "store"]
    <3>1. row \in Requests /\ row.pc = "store" /\ row.of = b
      BY <1>0 DEF Requests, Leading
    <3>2. request' = [request EXCEPT ![r] = row]
      BY <2>2 DEF BreakdownInv, BreakdownTypeOK
    <3>3. request'[r] = row /\ \A q \in BreakdownReaders \ {r} : request'[q] = request[q]
      BY <3>2 DEF BreakdownInv, BreakdownTypeOK
    <3>4. /\ request[r].pc = "model"
          /\ UNCHANGED <<breakdowns, phrases, structure, flight, lost>>
      BY <1>3, <2>2 DEF AskModel
    <3>. HIDE DEF row
    <3>5. BreakdownTypeOK'
      <4>1. paid[b] + 1 \in Nat
        BY <1>0 DEF BreakdownInv, BreakdownTypeOK
      <4>2. (request \in [BreakdownReaders -> Requests])'
        BY <3>1, <3>2 DEF BreakdownInv, BreakdownTypeOK
      <4>. QED  BY <2>2, <3>4, <4>1, <4>2 DEF BreakdownInv, BreakdownTypeOK
    <3>6. LeaderInv' /\ PhraseInv'
      BY <1>0, <3>1, <3>3, <3>4 DEF BreakdownInv, LeaderInv, PhraseInv
    <3>7. AccountInv'
      <4>1. b \notin breakdowns /\ ~OnItsWay(b)
        BY <1>1, <3>4 DEF BreakdownInv, AccountInv, OnItsWay, Leading
      <4>2. paid[b] <= lost[b] /\ paid'[b] = paid[b] + 1
        BY <1>0, <2>2, <4>1 DEF BreakdownInv, AccountInv, BreakdownTypeOK
      <4>3. \A c \in Breakable \ {b} : paid'[c] = paid[c]
        BY <2>2 DEF BreakdownInv, BreakdownTypeOK
      <4>4. \A c \in Breakable \ {b} : OnItsWay(c)' <=> OnItsWay(c)
        BY <3>1, <3>3, <3>4 DEF OnItsWay
      <4>6. paid'[b] <= 1 + lost[b]
        BY <1>0, <4>2 DEF BreakdownInv, BreakdownTypeOK
      <4>7. \A c \in Breakable : paid'[c] <= 1 + lost'[c]
                                  /\ (c \notin breakdowns' /\ ~OnItsWay(c)' => paid'[c] <= lost'[c])
        <5>. TAKE c \in Breakable
        <5>1. CASE c = b
          <6>1. OnItsWay(c)'
            BY <3>1, <3>3, <5>1 DEF OnItsWay
          <6>. QED  BY <3>4, <4>6, <5>1, <6>1
        <5>2. CASE c # b
          BY <3>4, <4>3, <4>4, <5>2 DEF BreakdownInv, AccountInv
        <5>. QED  BY <5>1, <5>2
      <4>8. \A q \in BreakdownReaders :
                request'[q].pc \in {"model", "store"} => request'[q].of \notin breakdowns'
        BY <3>1, <3>3, <3>4, <4>1 DEF BreakdownInv, AccountInv
      <4>. QED  BY <4>7, <4>8 DEF AccountInv
    <3>. QED  BY <3>5, <3>6, <3>7 DEF BreakdownInv
  <2>. QED  BY <1>3, <2>1, <2>2 DEF AskModel
<1>4. CASE StoreBreakdown(r)
  <2>1. /\ request[r].pc = "store" /\ b \notin breakdowns
        /\ UNCHANGED <<phrases, structure, paid>>
    BY <1>4 DEF StoreBreakdown, BreakdownInv, AccountInv
  <2>2. /\ breakdowns \subseteq breakdowns' /\ breakdowns' \subseteq breakdowns \cup {b}
        /\ \A c \in Breakable : lost'[c] \in Nat /\ lost'[c] >= lost[c]
        /\ b \in breakdowns' \/ lost'[b] = lost[b] + 1
        /\ lost' \in [Breakable -> Nat]
    <3>1. CASE breakdowns' = breakdowns \cup {b} /\ UNCHANGED lost
      BY <3>1 DEF BreakdownInv, BreakdownTypeOK
    <3>2. CASE lost' = [lost EXCEPT ![b] = @ + 1] /\ UNCHANGED breakdowns
      BY <1>0, <3>2 DEF BreakdownInv, BreakdownTypeOK
    <3>. QED  BY <1>4, <3>1, <3>2 DEF StoreBreakdown
  <2>3. /\ (request \in [BreakdownReaders -> Requests])'
        /\ (flight \in [Breakable -> BreakdownReaders \cup {"none"}])'
        /\ LeaderInv'
        /\ request'[r].pc \in {"idle", "phrases"}
        /\ request'[r].pc = "phrases" => /\ request'[r].of \in Sentences
                                         /\ request'[r].todo = PhrasesOf[request'[r].of]
        /\ \A q \in BreakdownReaders \ {r} : request'[q] = request[q] \/ request'[q].pc = "idle"
        /\ \A q \in BreakdownReaders : request[q].pc = "store" /\ q # r => request'[q] = request[q]
    <3>1. CASE b = Word
      <4>1. Land(r)
        BY <1>4, <3>1 DEF StoreBreakdown
      <4>. QED  BY <1>0, <4>1, Landing DEF BreakdownInv
    <3>2. CASE b # Word
      <4>. DEFINE row == [request[r] EXCEPT !.pc = "phrases", !.todo = PhrasesOf[b]]
      <4>1. b \in Sentences
        BY <1>0, <3>2 DEF Breakable
      <4>2. PhrasesOf[b] \in SUBSET UNION {PhrasesOf[c] : c \in Sentences}
        BY <4>1
      <4>3. row \in Requests /\ row.pc = "phrases" /\ row.of = b /\ row.todo = PhrasesOf[b]
        BY <1>0, <4>2 DEF Requests, Leading
      <4>4. request' = [request EXCEPT ![r] = row] /\ UNCHANGED flight
        BY <1>4, <3>2 DEF StoreBreakdown, BreakdownInv, BreakdownTypeOK
      <4>. HIDE DEF row
      <4>5. request'[r] = row /\ \A q \in BreakdownReaders \ {r} : request'[q] = request[q]
        BY <4>4 DEF BreakdownInv, BreakdownTypeOK
      <4>6. (request \in [BreakdownReaders -> Requests])'
        BY <4>3, <4>4 DEF BreakdownInv, BreakdownTypeOK
      <4>7. LeaderInv'
        BY <1>0, <4>3, <4>4, <4>5 DEF BreakdownInv, LeaderInv
      <4>8. (flight \in [Breakable -> BreakdownReaders \cup {"none"}])'
        BY <4>4 DEF BreakdownInv, BreakdownTypeOK
      <4>. QED  BY <4>1, <4>3, <4>5, <4>6, <4>7, <4>8
    <3>. QED  BY <3>1, <3>2
  <2>4. BreakdownTypeOK'
    BY <2>1, <2>2, <2>3 DEF BreakdownInv, BreakdownTypeOK
  <2>5. PhraseInv'
    BY <2>1, <2>3 DEF BreakdownInv, PhraseInv
  <2>6. AccountInv'
    <3>1. \A c \in Breakable \ {b} : OnItsWay(c)' <=> OnItsWay(c)
      BY <2>1, <2>3 DEF OnItsWay
    <3>2. \A c \in Breakable : paid'[c] <= 1 + lost'[c]
                                /\ (c \notin breakdowns' /\ ~OnItsWay(c)' => paid'[c] <= lost'[c])
      <4>. TAKE c \in Breakable
      <4>0. paid[c] \in Nat /\ lost[c] \in Nat /\ lost'[c] \in Nat /\ paid'[c] = paid[c]
        BY <2>1, <2>2 DEF BreakdownInv, BreakdownTypeOK
      <4>1. paid[c] <= 1 + lost[c]
        BY DEF BreakdownInv, AccountInv
      <4>2. CASE c = b
        BY <2>2, <4>0, <4>1, <4>2
      <4>3. CASE c # b
        <5>1. c \notin breakdowns' /\ ~OnItsWay(c)' => paid[c] <= lost[c]
          BY <2>2, <3>1, <4>3 DEF BreakdownInv, AccountInv
        <5>. QED  BY <2>2, <4>0, <4>1, <5>1
      <4>. QED  BY <4>2, <4>3
    <3>3. \A q \in BreakdownReaders :
              request'[q].pc \in {"model", "store"} => request'[q].of \notin breakdowns'
      BY <1>1, <2>2, <2>3 DEF BreakdownInv, AccountInv, Leading
    <3>. QED  BY <3>2, <3>3 DEF AccountInv
  <2>. QED  BY <2>3, <2>4, <2>5, <2>6 DEF BreakdownInv
<1>. QED  BY <1>2, <1>3, <1>4

\* The phrases of a sentence are stored, and then its structure.
LEMMA AfterTheAnswer ==
    ASSUME BreakdownInv, NEW r \in BreakdownReaders, StorePhrase(r) \/ StoreStructure(r)
    PROVE  BreakdownInv'
<1>. DEFINE b == request[r].of
<1>0. /\ request[r] \in Requests /\ request[r].pc = "phrases"
      /\ request[r].pc \in Leading \ {"store"} /\ b \in Breakable /\ flight[b] = r
      /\ PhrasesOf[b] \subseteq phrases \cup request[r].todo
      /\ UNCHANGED <<breakdowns, paid, lost>>
  BY DEF BreakdownInv, BreakdownTypeOK, LeaderInv, PhraseInv, StorePhrase, StoreStructure, Leading
<1>1. CASE StorePhrase(r)
  <2>. PICK p \in request[r].todo :
          \/ /\ phrases' = phrases \cup {p}
             /\ request' = [request EXCEPT ![r].todo = @ \ {p}]
             /\ UNCHANGED flight
          \/ Land(r) /\ UNCHANGED phrases
    BY <1>1 DEF StorePhrase
  <2>1. CASE Land(r) /\ UNCHANGED phrases
    BY <1>0, <1>1, <2>1, LandingKeeps DEF StorePhrase
  <2>2. CASE /\ phrases' = phrases \cup {p}
             /\ request' = [request EXCEPT ![r].todo = @ \ {p}]
             /\ UNCHANGED flight
    <3>. DEFINE row == [request[r] EXCEPT !.todo = request[r].todo \ {p}]
    <3>1. row \in Requests /\ row.pc = "phrases" /\ row.of = b /\ row.todo = request[r].todo \ {p}
      BY <1>0 DEF Requests
    <3>2. request' = [request EXCEPT ![r] = row] /\ UNCHANGED structure
      BY <1>1, <2>2 DEF StorePhrase, BreakdownInv, BreakdownTypeOK
    <3>. HIDE DEF row
    <3>3. request'[r] = row /\ \A q \in BreakdownReaders \ {r} : request'[q] = request[q]
      BY <3>2 DEF BreakdownInv, BreakdownTypeOK
    <3>4. BreakdownTypeOK'
      BY <1>0, <2>2, <3>1, <3>2 DEF BreakdownInv, BreakdownTypeOK
    <3>5. LeaderInv'
      BY <1>0, <2>2, <3>1, <3>3 DEF BreakdownInv, LeaderInv
    <3>6. AccountInv'
      <4>1. \A c \in Breakable : OnItsWay(c)' <=> OnItsWay(c)
        BY <1>0, <3>1, <3>3 DEF OnItsWay
      <4>. QED  BY <1>0, <3>1, <3>3, <4>1 DEF BreakdownInv, AccountInv
    <3>7. PhraseInv'
      BY <1>0, <2>2, <3>1, <3>2, <3>3 DEF BreakdownInv, PhraseInv
    <3>. QED  BY <3>4, <3>5, <3>6, <3>7 DEF BreakdownInv
  <2>. QED  BY <2>1, <2>2
<1>2. CASE StoreStructure(r)
  <2>1. Land(r) /\ structure' \in {structure, PhrasesOf[b]} /\ UNCHANGED phrases /\ request[r].todo = {}
    BY <1>2 DEF StoreStructure
  <2>2. structure' \subseteq phrases
    BY <1>0, <2>1 DEF BreakdownInv, PhraseInv
  <2>3. BreakdownTypeOK' /\ LeaderInv'
    BY <1>0, <2>1, Landing DEF BreakdownInv, BreakdownTypeOK
  <2>4. /\ \A q \in BreakdownReaders : request'[q] = request[q] \/ request'[q].pc = "idle"
        /\ \A q \in BreakdownReaders : request[q].pc = "store" => request'[q] = request[q]
    BY <1>0, <2>1, Landing DEF BreakdownInv
  <2>5. \A c \in Breakable : OnItsWay(c)' <=> OnItsWay(c)
    BY <2>4 DEF OnItsWay
  <2>6. AccountInv' /\ PhraseInv'
    BY <1>0, <2>1, <2>2, <2>4, <2>5 DEF BreakdownInv, AccountInv, PhraseInv
  <2>. QED  BY <2>3, <2>6 DEF BreakdownInv
<1>. QED  BY <1>1, <1>2

\* After a restart there are no flights; what was not stored is lost.
LEMMA Restarting ==
    ASSUME BreakdownInv, RestartReader
    PROVE  BreakdownInv'
<1>. DEFINE unsaved == {b \in Breakable : OnItsWay(b)}
<1>1. /\ request' = [r \in BreakdownReaders |-> NoBreakdown]
      /\ flight' = [b \in Breakable |-> "none"]
      /\ lost' = [b \in Breakable |-> IF b \in unsaved THEN lost[b] + 1 ELSE lost[b]]
      /\ UNCHANGED <<breakdowns, phrases, structure, paid>>
  BY DEF RestartReader, OnItsWay
<1>2. \A r \in BreakdownReaders : request'[r] = NoBreakdown /\ request'[r].pc = "idle"
  BY <1>1 DEF NoBreakdown
<1>3. BreakdownTypeOK'
  <2>1. NoBreakdown \in Requests
    BY DEF NoBreakdown, Requests
  <2>2. lost' \in [Breakable -> Nat]
    BY <1>1 DEF BreakdownInv, BreakdownTypeOK
  <2>. QED  BY <1>1, <2>1, <2>2 DEF BreakdownInv, BreakdownTypeOK
<1>4. LeaderInv' /\ PhraseInv'
  BY <1>1, <1>2 DEF BreakdownInv, LeaderInv, PhraseInv, Leading
<1>5. AccountInv'
  <2>1. ASSUME NEW c \in Breakable
        PROVE  paid'[c] <= 1 + lost'[c] /\ (c \notin breakdowns' => paid'[c] <= lost'[c])
    <3>0. /\ paid[c] \in Nat /\ lost[c] \in Nat /\ paid'[c] = paid[c]
          /\ lost'[c] = IF c \in unsaved THEN lost[c] + 1 ELSE lost[c]
      BY <1>1 DEF BreakdownInv, BreakdownTypeOK
    <3>1. /\ paid[c] <= 1 + lost[c]
          /\ c \notin breakdowns /\ c \notin unsaved => paid[c] <= lost[c]
      BY DEF BreakdownInv, AccountInv
    <3>. QED  BY <1>1, <3>0, <3>1
  <2>. QED  BY <1>2, <2>1 DEF AccountInv
<1>. QED  BY <1>3, <1>4, <1>5 DEF BreakdownInv

\* Every reachable state has it: each kind of step keeps the invariant.
THEOREM BreakdownInvariant == BreakdownSpec => []BreakdownInv
<1>1. BreakdownInit => BreakdownInv
  BY InitialBreakdowns
<1>2. BreakdownInv /\ [BreakdownNext]_breakdownVars => BreakdownInv'
  <2>. SUFFICES ASSUME BreakdownInv, [BreakdownNext]_breakdownVars PROVE BreakdownInv'
    OBVIOUS
  <2>1. ASSUME NEW r \in BreakdownReaders, BreakdownStep(r) PROVE BreakdownInv'
    BY <2>1, BeforeTheFlight, TheFlight, AfterTheAnswer DEF BreakdownStep
  <2>2. CASE RestartReader
    BY <2>2, Restarting
  <2>3. CASE UNCHANGED breakdownVars
    BY <2>3 DEF breakdownVars, BreakdownInv, BreakdownTypeOK, LeaderInv, AccountInv, PhraseInv, OnItsWay
  <2>. QED  BY <2>1, <2>2, <2>3 DEF BreakdownNext
<1>. QED  BY <1>1, <1>2, PTL DEF BreakdownSpec

\* Readers of one breakdown pay for it once (definitions.go:49 and :453), and again only
\* for an answer that was lost, whatever the number of readers, restarts and failures.
THEOREM PaidOnce == BreakdownSpec => []BreakdownPaidOnce
<1>1. BreakdownInv => BreakdownPaidOnce
  BY DEF BreakdownInv, AccountInv, BreakdownPaidOnce
<1>. QED  BY <1>1, BreakdownInvariant, PTL

\* A stored sentence structure names stored phrases (definitions.go:473), however many
\* readers store phrases of whatever sentences at once.
THEOREM StructuresAreFilled == BreakdownSpec => []StructureNamesPhrases
<1>1. BreakdownInv => StructureNamesPhrases
  BY DEF BreakdownInv, PhraseInv, StructureNamesPhrases
<1>. QED  BY <1>1, BreakdownInvariant, PTL

-----------------------------------------------------------------------------
(***************************************************************************)
(* ModelCalls, for any requests, endpoints, tries, budget, price of a call *)
(* and thresholds of the balancer.                                         *)
(*                                                                         *)
(* The overshoot of the budget rests on an account (BudgetInv) of what is  *)
(* recorded and of what the admitted calls may still record: an admission  *)
(* happens below the budget, and a call is recorded once, however often it *)
(* was tried.                                                              *)
(***************************************************************************)
Call == [pc : {"idle", "pick", "depart", "upstream", "cool", "decide", "record"},
         attempt : Int, try : Int, ep : Endpoints \cup {"none"},
         outcome : {"none", "success", "final", "passes"}, checked : BOOLEAN]

\* What of a row of the balancer the proofs need.
IsBalance(row) == DOMAIN row = {"inFlight", "disabled", "cool", "failures"} /\ row.inFlight \in Int

ModelTypeOK ==
    /\ modelCall \in [ModelRequests -> Call]
    /\ DOMAIN endpoint = Endpoints /\ \A e \in Endpoints : IsBalance(endpoint[e])
    /\ tokens \in [checked : Nat, unchecked : Nat]
    /\ \A c \in ModelRequests :
          modelCall[c].pc \in {"depart", "upstream", "cool"} => modelCall[c].ep \in Endpoints

\* The calls that are with an endpoint, and the ones that were checked and may still cost.
With(e) == {c \in ModelRequests : modelCall[c].pc = "upstream" /\ modelCall[c].ep = e}
Admitted == {c \in ModelRequests : modelCall[c].pc # "idle" /\ modelCall[c].checked}

LoadInv == \A e \in Endpoints : endpoint[e].inFlight = Cardinality(With(e))

BudgetInv ==
    tokens.checked + Cardinality(Admitted) * CallTokens
        <= MaxTokens - 1 + Cardinality(ModelRequests) * CallTokens

ModelInv == ModelTypeOK /\ LoadInv /\ BudgetInv

-----------------------------------------------------------------------------
\* The sets of calls are finite, and the admitted ones no more than the requests.
LEMMA CallsAreFinite ==
    /\ \A S \in SUBSET ModelRequests : IsFiniteSet(S) /\ Cardinality(S) \in Nat
                                       /\ Cardinality(S) <= Cardinality(ModelRequests)
    /\ Cardinality(ModelRequests) \in Nat
  BY FS_Subset, FS_CardinalityType, ModelAssumption

\* One request more, or one less.
LEMMA OneMore ==
    ASSUME NEW S \in SUBSET ModelRequests, NEW c \in ModelRequests, c \notin S
    PROVE  Cardinality(S \cup {c}) = Cardinality(S) + 1
  BY FS_AddElement, CallsAreFinite

LEMMA OneLess ==
    ASSUME NEW S \in SUBSET ModelRequests, NEW c \in S
    PROVE  Cardinality(S \ {c}) = Cardinality(S) - 1
  BY FS_RemoveElement, CallsAreFinite

\* More calls cost more.
LEMMA CostGrows ==
    /\ \A m, n \in Nat : m <= n => m * CallTokens <= n * CallTokens
    /\ \A n \in Nat : (n + 1) * CallTokens = n * CallTokens + CallTokens /\ n * CallTokens \in Nat
  BY ModelAssumption

\* An answer leaves the count of calls alone; giving it back takes one from it.
LEMMA AnswerType ==
    ASSUME NEW row, IsBalance(row), NEW a \in Answers(row)
    PROVE  /\ IsBalance([a.row EXCEPT !.inFlight = @ - 1])
           /\ [a.row EXCEPT !.inFlight = @ - 1].inFlight = row.inFlight - 1
           /\ a.pc \in {"cool", "decide"} /\ a.outcome \in {"success", "final", "passes"}
<1>1. \/ a = [row |-> [row EXCEPT !.failures = 0, !.cool = 0], pc |-> "decide", outcome |-> "success"]
      \/ a = [row |-> [row EXCEPT !.disabled = TRUE], pc |-> "decide", outcome |-> "final"]
      \/ a = [row |-> [row EXCEPT !.cool = CooldownCap], pc |-> "decide", outcome |-> "passes"]
      \/ a = [row |-> [row EXCEPT !.cool = Backoff(row.failures)], pc |-> "decide", outcome |-> "passes"]
      \/ a = [row |-> [row EXCEPT !.failures = IF @ = FailureCeiling THEN @ ELSE @ + 1],
              pc |-> IF row.failures + 1 >= FailureThreshold THEN "cool" ELSE "decide", outcome |-> "passes"]
      \/ a = [row |-> [row EXCEPT !.failures = 0], pc |-> "decide", outcome |-> "final"]
  BY DEF Answers
<1>2. \A r, p, o : LET b == [row |-> r, pc |-> p, outcome |-> o] IN b.row = r /\ b.pc = p /\ b.outcome = o
  OBVIOUS
<1>3. ASSUME NEW x, NEW y
      PROVE  LET one == [row EXCEPT !.failures = x]
                 two == [row EXCEPT !.failures = x, !.cool = y]
                 cooled == [row EXCEPT !.cool = x]
                 off == [row EXCEPT !.disabled = x]
             IN  /\ DOMAIN one = DOMAIN row /\ one.inFlight = row.inFlight
                 /\ DOMAIN two = DOMAIN row /\ two.inFlight = row.inFlight
                 /\ DOMAIN cooled = DOMAIN row /\ cooled.inFlight = row.inFlight
                 /\ DOMAIN off = DOMAIN row /\ off.inFlight = row.inFlight
  BY DEF IsBalance
<1>4. /\ DOMAIN a.row = DOMAIN row /\ a.row.inFlight = row.inFlight
      /\ a.pc \in {"cool", "decide"} /\ a.outcome \in {"success", "final", "passes"}
  <2>1. CASE a = [row |-> [row EXCEPT !.failures = 0, !.cool = 0],
                pc |-> "decide", outcome |-> "success"]
    <3>. DEFINE r == [row EXCEPT !.failures = 0, !.cool = 0]
                p == "decide"
    <3>1. DOMAIN r = DOMAIN row /\ r.inFlight = row.inFlight /\ p \in {"cool", "decide"}
      BY <1>3
    <3>2. a = [row |-> r, pc |-> p, outcome |-> "success"]
      BY <2>1
    <3>. HIDE DEF r, p
    <3>. QED  BY <1>2, <3>1, <3>2
  <2>2. CASE a = [row |-> [row EXCEPT !.disabled = TRUE],
                pc |-> "decide", outcome |-> "final"]
    <3>. DEFINE r == [row EXCEPT !.disabled = TRUE]
                p == "decide"
    <3>1. DOMAIN r = DOMAIN row /\ r.inFlight = row.inFlight /\ p \in {"cool", "decide"}
      BY <1>3
    <3>2. a = [row |-> r, pc |-> p, outcome |-> "final"]
      BY <2>2
    <3>. HIDE DEF r, p
    <3>. QED  BY <1>2, <3>1, <3>2
  <2>3. CASE a = [row |-> [row EXCEPT !.cool = CooldownCap],
                pc |-> "decide", outcome |-> "passes"]
    <3>. DEFINE r == [row EXCEPT !.cool = CooldownCap]
                p == "decide"
    <3>1. DOMAIN r = DOMAIN row /\ r.inFlight = row.inFlight /\ p \in {"cool", "decide"}
      BY <1>3
    <3>2. a = [row |-> r, pc |-> p, outcome |-> "passes"]
      BY <2>3
    <3>. HIDE DEF r, p
    <3>. QED  BY <1>2, <3>1, <3>2
  <2>4. CASE a = [row |-> [row EXCEPT !.cool = Backoff(row.failures)],
                pc |-> "decide", outcome |-> "passes"]
    <3>. DEFINE r == [row EXCEPT !.cool = Backoff(row.failures)]
                p == "decide"
    <3>1. DOMAIN r = DOMAIN row /\ r.inFlight = row.inFlight /\ p \in {"cool", "decide"}
      BY <1>3
    <3>2. a = [row |-> r, pc |-> p, outcome |-> "passes"]
      BY <2>4
    <3>. HIDE DEF r, p
    <3>. QED  BY <1>2, <3>1, <3>2
  <2>5. CASE a = [row |-> [row EXCEPT !.failures = IF @ = FailureCeiling THEN @ ELSE @ + 1],
                pc |-> IF row.failures + 1 >= FailureThreshold THEN "cool" ELSE "decide", outcome |-> "passes"]
    <3>. DEFINE r == [row EXCEPT !.failures = IF @ = FailureCeiling THEN @ ELSE @ + 1]
                p == IF row.failures + 1 >= FailureThreshold THEN "cool" ELSE "decide"
    <3>1. DOMAIN r = DOMAIN row /\ r.inFlight = row.inFlight /\ p \in {"cool", "decide"}
      BY <1>3
    <3>2. a = [row |-> r, pc |-> p, outcome |-> "passes"]
      BY <2>5
    <3>. HIDE DEF r, p
    <3>. QED  BY <1>2, <3>1, <3>2
  <2>6. CASE a = [row |-> [row EXCEPT !.failures = 0],
                pc |-> "decide", outcome |-> "final"]
    <3>. DEFINE r == [row EXCEPT !.failures = 0]
                p == "decide"
    <3>1. DOMAIN r = DOMAIN row /\ r.inFlight = row.inFlight /\ p \in {"cool", "decide"}
      BY <1>3
    <3>2. a = [row |-> r, pc |-> p, outcome |-> "final"]
      BY <2>6
    <3>. HIDE DEF r, p
    <3>. QED  BY <1>2, <3>1, <3>2
  <2>. QED  BY <1>1, <2>1, <2>2, <2>3, <2>4, <2>5, <2>6
<1>. QED
  <2>1. DOMAIN [a.row EXCEPT !.inFlight = @ - 1] = DOMAIN a.row
        /\ [a.row EXCEPT !.inFlight = @ - 1].inFlight = a.row.inFlight - 1
    BY <1>4 DEF IsBalance
  <2>. QED  BY <1>4, <2>1 DEF IsBalance

\* What one request's new place changes of the two sets.
LEMMA PlaceChanged ==
    ASSUME ModelTypeOK, NEW c \in ModelRequests, NEW place \in Call,
           place.pc \in {"depart", "upstream", "cool"} => place.ep \in Endpoints,
           modelCall' = [modelCall EXCEPT ![c] = place]
    PROVE  /\ modelCall' \in [ModelRequests -> Call]
           /\ \A d \in ModelRequests :
                 modelCall'[d].pc \in {"depart", "upstream", "cool"} => modelCall'[d].ep \in Endpoints
           /\ \A e : With(e)' = IF place.pc = "upstream" /\ place.ep = e THEN With(e) \cup {c} ELSE With(e) \ {c}
           /\ Admitted' = IF place.pc # "idle" /\ place.checked THEN Admitted \cup {c} ELSE Admitted \ {c}
<1>1. modelCall' \in [ModelRequests -> Call]
  BY DEF ModelTypeOK
<1>2. \A d \in ModelRequests : modelCall'[d] = IF d = c THEN place ELSE modelCall[d]
  BY DEF ModelTypeOK
<1>. HIDE DEF Call
<1>3. \A d \in ModelRequests :
         modelCall'[d].pc \in {"depart", "upstream", "cool"} => modelCall'[d].ep \in Endpoints
  BY <1>2 DEF ModelTypeOK
<1>4. ASSUME NEW e
      PROVE  With(e)' = IF place.pc = "upstream" /\ place.ep = e THEN With(e) \cup {c} ELSE With(e) \ {c}
  BY <1>2 DEF With
<1>5. Admitted' = IF place.pc # "idle" /\ place.checked THEN Admitted \cup {c} ELSE Admitted \ {c}
  BY <1>2 DEF Admitted
<1>. QED  BY <1>1, <1>3, <1>4, <1>5

\* A step that moves a checked call between places other than upstream, and touches
\* neither the counters of load nor the tokens, keeps the invariant.
LEMMA MovedOn ==
    ASSUME ModelInv, NEW c \in ModelRequests, NEW place \in Call,
           place.pc \notin {"idle", "upstream"}, place.pc \in {"depart", "cool"} => place.ep \in Endpoints,
           place.checked = modelCall[c].checked, modelCall[c].pc \notin {"idle", "upstream"},
           modelCall' = [modelCall EXCEPT ![c] = place],
           DOMAIN endpoint' = Endpoints,
           \A e \in Endpoints : IsBalance(endpoint'[e]) /\ endpoint'[e].inFlight = endpoint[e].inFlight,
           UNCHANGED tokens
    PROVE  ModelInv'
<1>1. ModelTypeOK
  BY DEF ModelInv
<1>2. place.pc \in {"depart", "upstream", "cool"} => place.ep \in Endpoints
  OBVIOUS
<1>3. /\ modelCall' \in [ModelRequests -> Call]
      /\ \A d \in ModelRequests :
            modelCall'[d].pc \in {"depart", "upstream", "cool"} => modelCall'[d].ep \in Endpoints
      /\ \A e : With(e)' = IF place.pc = "upstream" /\ place.ep = e THEN With(e) \cup {c} ELSE With(e) \ {c}
      /\ Admitted' = IF place.pc # "idle" /\ place.checked THEN Admitted \cup {c} ELSE Admitted \ {c}
  BY <1>1, <1>2, PlaceChanged
<1>4. ModelTypeOK'
  BY <1>1, <1>3 DEF ModelTypeOK
<1>5. \A e \in Endpoints : With(e)' = With(e)
  BY <1>3 DEF With
<1>6. LoadInv'
  BY <1>5 DEF LoadInv, ModelInv
<1>7. Admitted' = Admitted
  BY <1>3 DEF Admitted
<1>8. BudgetInv'
  BY <1>7 DEF BudgetInv, ModelInv
<1>. QED  BY <1>4, <1>6, <1>8 DEF ModelInv

-----------------------------------------------------------------------------
LEMMA InitialCalls == ModelInit => ModelInv
<1>. SUFFICES ASSUME ModelInit PROVE ModelInv
  OBVIOUS
<1>1. NoCall \in Call /\ NoCall.pc = "idle"
  BY DEF NoCall, Call
<1>2. \A c \in ModelRequests : modelCall[c] = NoCall
  BY DEF ModelInit
<1>3. ModelTypeOK
  <2>1. modelCall \in [ModelRequests -> Call]
    BY <1>1 DEF ModelInit
  <2>2. DOMAIN endpoint = Endpoints /\ \A e \in Endpoints : IsBalance(endpoint[e])
    BY DEF ModelInit, IsBalance
  <2>3. tokens \in [checked : Nat, unchecked : Nat]
    BY DEF ModelInit
  <2>. QED  BY <1>1, <1>2, <2>1, <2>2, <2>3 DEF ModelTypeOK
<1>4. LoadInv
  <2>1. \A e : With(e) = {}
    BY <1>1, <1>2 DEF With
  <2>2. \A e \in Endpoints : endpoint[e].inFlight = 0
    BY DEF ModelInit
  <2>. QED  BY <2>1, <2>2, FS_EmptySet DEF LoadInv
<1>5. BudgetInv
  <2>1. Admitted = {}
    BY <1>1, <1>2 DEF Admitted
  <2>2. Cardinality(Admitted) = 0 /\ tokens.checked = 0
    BY <2>1, FS_EmptySet DEF ModelInit
  <2>3. Cardinality(Admitted) * CallTokens = 0 /\ Cardinality(ModelRequests) * CallTokens \in Nat
    BY <2>2, CostGrows, CallsAreFinite, ModelAssumption
  <2>. HIDE DEF Admitted
  <2>. QED  BY <2>2, <2>3, ModelAssumption DEF BudgetInv
<1>. QED  BY <1>3, <1>4, <1>5 DEF ModelInv

\* A call begins from a fresh row.
LEMMA BegunCalls ==
    ASSUME NEW call \in Call, NEW checked \in BOOLEAN, NEW attempt \in Int, NEW try \in Int
    PROVE  [call EXCEPT !.pc = "pick", !.attempt = attempt, !.try = try, !.checked = checked] \in Call
  BY DEF Call

\* A checked call is admitted below the budget; a call that was not has no place in the account.
LEMMA CheckBudgetKeeps ==
    ASSUME ModelInv, NEW c \in ModelRequests, CheckBudget(c)
    PROVE  ModelInv'
<1>1. ModelTypeOK /\ modelCall[c].pc = "idle"
  BY DEF ModelInv, CheckBudget
<1>2. PICK checked \in BOOLEAN :
         modelCall' = [modelCall EXCEPT ![c] =
              IF checked /\ tokens.checked + tokens.unchecked >= MaxTokens THEN NoCall
              ELSE [NoCall EXCEPT !.pc = "pick", !.attempt = 1, !.try = 1, !.checked = checked]]
  BY DEF CheckBudget
<1>. DEFINE place == IF checked /\ tokens.checked + tokens.unchecked >= MaxTokens THEN NoCall
                    ELSE [NoCall EXCEPT !.pc = "pick", !.attempt = 1, !.try = 1, !.checked = checked]
<1>3. /\ place \in Call /\ place.pc \in {"idle", "pick"}
      /\ place.pc # "idle" /\ place.checked => tokens.checked + tokens.unchecked < MaxTokens
  <2>1. NoCall \in Call /\ NoCall.pc = "idle"
    BY DEF NoCall, Call
  <2>. DEFINE begun == [NoCall EXCEPT !.pc = "pick", !.attempt = 1, !.try = 1, !.checked = checked]
  <2>2. begun \in Call /\ begun.pc = "pick"
    <3>1. begun \in Call
      <4>1. 1 \in Int
        OBVIOUS
      <4>. QED  BY <2>1, <4>1, BegunCalls, Zenon DEF begun
    <3>2. \A x : [NoCall EXCEPT !.pc = "pick", !.attempt = 1, !.try = 1, !.checked = x].pc = "pick"
      BY <2>1 DEF Call
    <3>. QED  BY <3>1, <3>2
  <2>. HIDE DEF begun
  <2>3. tokens.checked + tokens.unchecked \in Int
    BY <1>1 DEF ModelTypeOK
  <2>4. begun.checked => checked
    <3>1. CASE checked = TRUE
      BY <3>1
    <3>2. CASE checked = FALSE
      BY <2>1, <3>2 DEF Call, begun
    <3>. QED  BY <3>1, <3>2
  <2>5. CASE checked /\ tokens.checked + tokens.unchecked >= MaxTokens
    BY <2>1, <2>5
  <2>6. CASE ~(checked /\ tokens.checked + tokens.unchecked >= MaxTokens)
    <3>1. place = begun
      BY <2>6 DEF begun
    <3>. HIDE DEF place
    <3>. QED  BY <2>2, <2>3, <2>4, <2>6, <3>1, ModelAssumption
  <2>. QED  BY <2>5, <2>6
<1>4. modelCall' = [modelCall EXCEPT ![c] = place]
  BY <1>2
<1>. HIDE DEF place
<1>5. /\ modelCall' \in [ModelRequests -> Call]
      /\ \A d \in ModelRequests :
            modelCall'[d].pc \in {"depart", "upstream", "cool"} => modelCall'[d].ep \in Endpoints
      /\ \A e : With(e)' = IF place.pc = "upstream" /\ place.ep = e THEN With(e) \cup {c} ELSE With(e) \ {c}
      /\ Admitted' = IF place.pc # "idle" /\ place.checked THEN Admitted \cup {c} ELSE Admitted \ {c}
  BY <1>1, <1>3, <1>4, PlaceChanged
<1>6. endpoint' = endpoint /\ tokens' = tokens
  BY DEF CheckBudget
<1>7. ModelTypeOK'
  BY <1>1, <1>5, <1>6 DEF ModelTypeOK
<1>8. \A e : With(e)' = With(e)
  BY <1>1, <1>3, <1>5 DEF With
<1>9. LoadInv'
  BY <1>6, <1>8 DEF LoadInv, ModelInv
<1>10. BudgetInv'
  <2>1. CASE place.pc # "idle" /\ place.checked
    <3>1. tokens.checked <= MaxTokens - 1
      BY <1>1, <1>3, <2>1, ModelAssumption DEF ModelTypeOK
    <3>2. Admitted' \in SUBSET ModelRequests
      BY <1>5 DEF Admitted
    <3>3. Cardinality(Admitted') * CallTokens <= Cardinality(ModelRequests) * CallTokens
      BY <3>2, CallsAreFinite, CostGrows
    <3>4. /\ Cardinality(Admitted') * CallTokens \in Nat /\ Cardinality(ModelRequests) * CallTokens \in Nat
          /\ tokens.checked \in Nat
      BY <1>1, <3>2, CallsAreFinite, CostGrows DEF ModelTypeOK
    <3>. QED  BY <1>6, <3>1, <3>3, <3>4, ModelAssumption DEF BudgetInv
  <2>2. CASE ~(place.pc # "idle" /\ place.checked)
    <3>1. Admitted' = Admitted
      BY <1>1, <1>5, <2>2 DEF Admitted
    <3>. QED  BY <1>6, <3>1 DEF BudgetInv, ModelInv
  <2>. QED  BY <2>1, <2>2
<1>. QED  BY <1>7, <1>9, <1>10 DEF ModelInv

LEMMA PickEndpointKeeps ==
    ASSUME ModelInv, NEW c \in ModelRequests, PickEndpoint(c)
    PROVE  ModelInv'
<1>1. modelCall \in [ModelRequests -> Call] /\ modelCall[c].pc = "pick" /\ endpoint' = endpoint /\ tokens' = tokens
  BY DEF ModelInv, ModelTypeOK, PickEndpoint
<1>2. DOMAIN endpoint' = Endpoints
      /\ \A e \in Endpoints : IsBalance(endpoint'[e]) /\ endpoint'[e].inFlight = endpoint[e].inFlight
  BY <1>1 DEF ModelInv, ModelTypeOK
<1>3. CASE modelCall' = [modelCall EXCEPT ![c].pc = "decide", ![c].outcome = "passes"]
  <2>. DEFINE place == [modelCall[c] EXCEPT !.pc = "decide", !.outcome = "passes"]
  <2>1. place \in Call /\ place.pc = "decide" /\ place.checked = modelCall[c].checked
    BY <1>1 DEF Call
  <2>2. modelCall' = [modelCall EXCEPT ![c] = place]
    BY <1>1, <1>3
  <2>. HIDE DEF place
  <2>. QED  BY <1>1, <1>2, <2>1, <2>2, MovedOn
<1>4. ASSUME NEW e \in Endpoints, modelCall' = [modelCall EXCEPT ![c].pc = "depart", ![c].ep = e]
      PROVE  ModelInv'
  <2>. DEFINE place == [modelCall[c] EXCEPT !.pc = "depart", !.ep = e]
  <2>1. place \in Call /\ place.pc = "depart" /\ place.ep = e /\ place.checked = modelCall[c].checked
    BY <1>1 DEF Call
  <2>2. modelCall' = [modelCall EXCEPT ![c] = place]
    BY <1>1, <1>4
  <2>. HIDE DEF place
  <2>. QED  BY <1>1, <1>2, <2>1, <2>2, MovedOn
<1>. QED  BY <1>3, <1>4 DEF PickEndpoint, Eligible

\* The call joins those that are with its endpoint, and the counter goes up by it.
LEMMA DepartKeeps ==
    ASSUME ModelInv, NEW c \in ModelRequests, Depart(c)
    PROVE  ModelInv'
<1>1. ModelTypeOK /\ modelCall[c].pc = "depart" /\ modelCall[c].ep \in Endpoints /\ modelCall[c] \in Call
      /\ tokens' = tokens
  BY DEF ModelInv, ModelTypeOK, Depart
<1>. DEFINE ep == modelCall[c].ep
            place == [modelCall[c] EXCEPT !.pc = "upstream"]
            row == [endpoint[ep] EXCEPT !.inFlight = @ + 1]
<1>2. place \in Call /\ place.pc = "upstream" /\ place.ep = ep /\ place.checked = modelCall[c].checked
  BY <1>1 DEF Call
<1>3. modelCall' = [modelCall EXCEPT ![c] = place]
  BY DEF Depart
<1>4. DOMAIN endpoint = Endpoints /\ \A e \in Endpoints : IsBalance(endpoint[e])
  BY <1>1 DEF ModelTypeOK
<1>5. IsBalance(row) /\ row.inFlight = endpoint[ep].inFlight + 1
  BY <1>1, <1>4 DEF IsBalance
<1>6. endpoint' = [endpoint EXCEPT ![ep] = row]
  BY DEF Depart
<1>. HIDE DEF place, row
<1>7. /\ modelCall' \in [ModelRequests -> Call]
      /\ \A d \in ModelRequests :
            modelCall'[d].pc \in {"depart", "upstream", "cool"} => modelCall'[d].ep \in Endpoints
      /\ \A e : With(e)' = IF place.pc = "upstream" /\ place.ep = e THEN With(e) \cup {c} ELSE With(e) \ {c}
      /\ Admitted' = IF place.pc # "idle" /\ place.checked THEN Admitted \cup {c} ELSE Admitted \ {c}
  BY <1>1, <1>2, <1>3, PlaceChanged
<1>8. DOMAIN endpoint' = Endpoints /\ \A e \in Endpoints : endpoint'[e] = IF e = ep THEN row ELSE endpoint[e]
  BY <1>1, <1>4, <1>6
<1>9. ModelTypeOK'
  BY <1>1, <1>4, <1>5, <1>7, <1>8 DEF ModelTypeOK
<1>10. LoadInv'
  <2>. SUFFICES ASSUME NEW e \in Endpoints PROVE endpoint'[e].inFlight = Cardinality(With(e)')
    BY DEF LoadInv
  <2>1. endpoint[e].inFlight = Cardinality(With(e))
    BY DEF ModelInv, LoadInv
  <2>2. c \notin With(e) /\ With(e) \in SUBSET ModelRequests
    BY <1>1 DEF With
  <2>3. CASE e = ep
    BY <1>2, <1>5, <1>7, <1>8, <2>1, <2>2, <2>3, OneMore
  <2>4. CASE e # ep
    <3>1. With(e)' = With(e)
      BY <1>2, <1>7, <2>2, <2>4
    <3>. QED  BY <1>8, <2>1, <2>4, <3>1
  <2>. QED  BY <2>3, <2>4
<1>11. Admitted' = Admitted
  BY <1>1, <1>2, <1>7 DEF Admitted
<1>12. BudgetInv'
  BY <1>1, <1>11 DEF BudgetInv, ModelInv
<1>. QED  BY <1>9, <1>10, <1>12 DEF ModelInv

\* An answer, whichever it is, takes the call from those that are with its endpoint, and
\* the counter goes down by it.
LEMMA UpstreamKeeps ==
    ASSUME ModelInv, NEW c \in ModelRequests, Upstream(c)
    PROVE  ModelInv'
<1>. DEFINE ep == modelCall[c].ep
<1>1. ModelTypeOK /\ modelCall[c].pc = "upstream" /\ ep \in Endpoints /\ modelCall[c] \in Call
      /\ tokens' = tokens
  BY DEF ModelInv, ModelTypeOK, Upstream
<1>2. PICK a \in Answers(endpoint[ep]) :
         /\ endpoint' = [endpoint EXCEPT ![ep] = [a.row EXCEPT !.inFlight = @ - 1]]
         /\ modelCall' = [modelCall EXCEPT ![c].pc = a.pc, ![c].outcome = a.outcome]
  BY DEF Upstream
<1>3. DOMAIN endpoint = Endpoints /\ \A e \in Endpoints : IsBalance(endpoint[e])
  BY <1>1 DEF ModelTypeOK
<1>. DEFINE place == [modelCall[c] EXCEPT !.pc = a.pc, !.outcome = a.outcome]
            row == [a.row EXCEPT !.inFlight = @ - 1]
<1>4. IsBalance(row) /\ row.inFlight = endpoint[ep].inFlight - 1
      /\ a.pc \in {"cool", "decide"} /\ a.outcome \in {"success", "final", "passes"}
  BY <1>1, <1>3, AnswerType
<1>5. place \in Call /\ place.pc \in {"cool", "decide"} /\ place.ep = ep /\ place.checked = modelCall[c].checked
  BY <1>1, <1>4 DEF Call
<1>6. modelCall' = [modelCall EXCEPT ![c] = place]
  BY <1>1, <1>2 DEF ModelTypeOK
<1>7. endpoint' = [endpoint EXCEPT ![ep] = row]
  BY <1>2
<1>. HIDE DEF place, row
<1>8. /\ modelCall' \in [ModelRequests -> Call]
      /\ \A d \in ModelRequests :
            modelCall'[d].pc \in {"depart", "upstream", "cool"} => modelCall'[d].ep \in Endpoints
      /\ \A e : With(e)' = IF place.pc = "upstream" /\ place.ep = e THEN With(e) \cup {c} ELSE With(e) \ {c}
      /\ Admitted' = IF place.pc # "idle" /\ place.checked THEN Admitted \cup {c} ELSE Admitted \ {c}
  BY <1>1, <1>5, <1>6, PlaceChanged
<1>9. DOMAIN endpoint' = Endpoints /\ \A e \in Endpoints : endpoint'[e] = IF e = ep THEN row ELSE endpoint[e]
  BY <1>1, <1>3, <1>7
<1>10. ModelTypeOK'
  BY <1>1, <1>3, <1>4, <1>8, <1>9 DEF ModelTypeOK
<1>11. LoadInv'
  <2>. SUFFICES ASSUME NEW e \in Endpoints PROVE endpoint'[e].inFlight = Cardinality(With(e)')
    BY DEF LoadInv
  <2>1. endpoint[e].inFlight = Cardinality(With(e)) /\ With(e) \in SUBSET ModelRequests
    BY DEF ModelInv, LoadInv, With
  <2>2. With(e)' = With(e) \ {c}
    BY <1>5, <1>8
  <2>3. CASE e = ep
    <3>1. c \in With(e)
      BY <1>1, <2>3 DEF With
    <3>. QED  BY <1>4, <1>9, <2>1, <2>2, <2>3, <3>1, OneLess
  <2>4. CASE e # ep
    <3>1. With(e)' = With(e)
      BY <2>2, <2>4 DEF With
    <3>. QED  BY <1>9, <2>1, <2>4, <3>1
  <2>. QED  BY <2>3, <2>4
<1>12. Admitted' = Admitted
  BY <1>1, <1>5, <1>8 DEF Admitted
<1>13. BudgetInv'
  BY <1>1, <1>12 DEF BudgetInv, ModelInv
<1>. QED  BY <1>10, <1>11, <1>13 DEF ModelInv

LEMMA CooldownKeeps ==
    ASSUME ModelInv, NEW c \in ModelRequests, Cooldown(c)
    PROVE  ModelInv'
<1>. DEFINE ep == modelCall[c].ep
            place == [modelCall[c] EXCEPT !.pc = "decide"]
            row == [endpoint[ep] EXCEPT !.cool = Backoff(endpoint[ep].failures)]
<1>1. ModelTypeOK /\ modelCall[c].pc = "cool" /\ ep \in Endpoints /\ modelCall[c] \in Call /\ tokens' = tokens
  BY DEF ModelInv, ModelTypeOK, Cooldown
<1>2. DOMAIN endpoint = Endpoints /\ \A e \in Endpoints : IsBalance(endpoint[e])
  BY <1>1 DEF ModelTypeOK
<1>3. place \in Call /\ place.pc = "decide" /\ place.checked = modelCall[c].checked
  BY <1>1 DEF Call
<1>4. modelCall' = [modelCall EXCEPT ![c] = place]
  BY DEF Cooldown
<1>5. IsBalance(row) /\ row.inFlight = endpoint[ep].inFlight
  BY <1>1, <1>2 DEF IsBalance
<1>6. endpoint' = [endpoint EXCEPT ![ep] = row]
  BY DEF Cooldown
<1>. HIDE DEF place, row
<1>7. DOMAIN endpoint' = Endpoints
      /\ \A e \in Endpoints : IsBalance(endpoint'[e]) /\ endpoint'[e].inFlight = endpoint[e].inFlight
  BY <1>1, <1>2, <1>5, <1>6
<1>. QED  BY <1>1, <1>3, <1>4, <1>7, MovedOn

LEMMA AgainKeeps ==
    ASSUME ModelInv, NEW c \in ModelRequests, TryAgain(c) \/ SendAgain(c)
    PROVE  ModelInv'
<1>1. ModelTypeOK /\ modelCall[c].pc = "decide" /\ modelCall[c] \in Call /\ tokens' = tokens /\ endpoint' = endpoint
  BY DEF ModelInv, ModelTypeOK, TryAgain, SendAgain
<1>2. PICK attempt \in Int, try \in Int : Again(c, attempt, try)
  BY <1>1 DEF TryAgain, SendAgain, Call
<1>. DEFINE place == [NoCall EXCEPT !.pc = "pick", !.checked = modelCall[c].checked, !.attempt = attempt, !.try = try]
<1>3. place \in Call /\ place.pc = "pick" /\ place.checked = modelCall[c].checked
  <2>1. NoCall \in Call /\ modelCall[c].checked \in BOOLEAN
    BY <1>1 DEF NoCall, Call
  <2>. QED  BY <2>1 DEF Call
<1>4. modelCall' = [modelCall EXCEPT ![c] = place]
  BY <1>2 DEF Again
<1>5. DOMAIN endpoint' = Endpoints
      /\ \A e \in Endpoints : IsBalance(endpoint'[e]) /\ endpoint'[e].inFlight = endpoint[e].inFlight
  BY <1>1 DEF ModelTypeOK
<1>. HIDE DEF place
<1>. QED  BY <1>1, <1>3, <1>4, <1>5, MovedOn

LEMMA EndCallKeeps ==
    ASSUME ModelInv, NEW c \in ModelRequests, EndCall(c)
    PROVE  ModelInv'
<1>1. ModelTypeOK /\ modelCall[c].pc = "decide" /\ modelCall[c] \in Call /\ tokens' = tokens /\ endpoint' = endpoint
  BY DEF ModelInv, ModelTypeOK, EndCall
<1>. DEFINE place == [NoCall EXCEPT !.pc = "record", !.outcome = modelCall[c].outcome, !.checked = modelCall[c].checked]
<1>2. place \in Call /\ place.pc = "record" /\ place.checked = modelCall[c].checked
  <2>1. NoCall \in Call /\ modelCall[c].checked \in BOOLEAN
        /\ modelCall[c].outcome \in {"none", "success", "final", "passes"}
    BY <1>1 DEF NoCall, Call
  <2>. QED  BY <2>1 DEF Call
<1>3. modelCall' = [modelCall EXCEPT ![c] = place]
  BY DEF EndCall
<1>4. DOMAIN endpoint' = Endpoints
      /\ \A e \in Endpoints : IsBalance(endpoint'[e]) /\ endpoint'[e].inFlight = endpoint[e].inFlight
  BY <1>1 DEF ModelTypeOK
<1>. HIDE DEF place
<1>. QED  BY <1>1, <1>2, <1>3, <1>4, MovedOn

\* What a recorded call costs comes out of its share of the account.
LEMMA RecordCallKeeps ==
    ASSUME ModelInv, NEW c \in ModelRequests, RecordCall(c)
    PROVE  ModelInv'
<1>1. ModelTypeOK /\ modelCall[c].pc = "record" /\ modelCall[c] \in Call /\ endpoint' = endpoint
  BY DEF ModelInv, ModelTypeOK, RecordCall
<1>2. NoCall \in Call /\ NoCall.pc = "idle"
  BY DEF NoCall, Call
<1>3. modelCall' = [modelCall EXCEPT ![c] = NoCall]
  BY DEF RecordCall
<1>4. /\ modelCall' \in [ModelRequests -> Call]
      /\ \A d \in ModelRequests :
            modelCall'[d].pc \in {"depart", "upstream", "cool"} => modelCall'[d].ep \in Endpoints
      /\ \A e : With(e)' = With(e) \ {c}
      /\ Admitted' = Admitted \ {c}
  BY <1>1, <1>2, <1>3, PlaceChanged
<1>5. /\ tokens' \in [checked : Nat, unchecked : Nat]
      /\ \/ tokens'.checked = tokens.checked
         \/ modelCall[c].checked /\ tokens'.checked = tokens.checked + CallTokens
  BY <1>1, ModelAssumption DEF RecordCall, ModelTypeOK
<1>6. ModelTypeOK'
  BY <1>1, <1>4, <1>5 DEF ModelTypeOK
<1>7. \A e : With(e)' = With(e)
  BY <1>1, <1>4 DEF With
<1>8. LoadInv'
  BY <1>1, <1>7 DEF LoadInv, ModelInv
<1>9. BudgetInv'
  <2>1. Admitted \in SUBSET ModelRequests
    BY DEF Admitted
  <2>2. /\ tokens.checked \in Nat /\ tokens'.checked \in Nat
        /\ Cardinality(Admitted) * CallTokens \in Nat /\ Cardinality(ModelRequests) * CallTokens \in Nat
    BY <1>1, <1>5, <2>1, CallsAreFinite, CostGrows DEF ModelTypeOK
  <2>3. CASE c \in Admitted
    <3>1. Cardinality(Admitted') = Cardinality(Admitted) - 1
      BY <1>4, <2>1, <2>3, OneLess
    <3>2. Admitted' \in SUBSET ModelRequests
      BY <1>4, <2>1
    <3>3. Cardinality(Admitted') \in Nat /\ Cardinality(Admitted) = Cardinality(Admitted') + 1
      BY <2>1, <3>1, <3>2, CallsAreFinite
    <3>4. Cardinality(Admitted) * CallTokens = Cardinality(Admitted') * CallTokens + CallTokens
          /\ Cardinality(Admitted') * CallTokens \in Nat
      BY <3>3, CostGrows
    <3>. HIDE DEF Admitted
    <3>. QED  BY <1>5, <2>2, <3>4, ModelAssumption DEF BudgetInv, ModelInv
  <2>4. CASE c \notin Admitted
    <3>1. Admitted' = Admitted
      BY <1>4, <2>4
    <3>2. ~modelCall[c].checked
      BY <1>1, <2>4 DEF Admitted
    <3>. QED  BY <1>5, <3>1, <3>2 DEF BudgetInv, ModelInv
  <2>. QED  BY <2>3, <2>4
<1>. QED  BY <1>6, <1>8, <1>9 DEF ModelInv

LEMMA TickKeeps == ModelInv /\ Tick => ModelInv'
<1>. SUFFICES ASSUME ModelInv, Tick PROVE ModelInv'
  OBVIOUS
<1>1. ModelTypeOK /\ modelCall' = modelCall /\ tokens' = tokens
  BY DEF ModelInv, Tick
<1>2. DOMAIN endpoint' = Endpoints
      /\ \A e \in Endpoints : endpoint'[e] = [endpoint[e] EXCEPT !.cool = IF @ > 0 THEN @ - 1 ELSE 0]
  BY DEF Tick
<1>3. ASSUME NEW e \in Endpoints
      PROVE  IsBalance(endpoint'[e]) /\ endpoint'[e].inFlight = endpoint[e].inFlight
  <2>1. IsBalance(endpoint[e])
    BY <1>1 DEF ModelTypeOK
  <2>. QED  BY <1>2, <2>1 DEF IsBalance
<1>4. ModelTypeOK'
  BY <1>1, <1>2, <1>3 DEF ModelTypeOK
<1>5. LoadInv'
  BY <1>1, <1>3 DEF LoadInv, ModelInv, With
<1>6. BudgetInv'
  BY <1>1 DEF BudgetInv, ModelInv, Admitted
<1>. QED  BY <1>4, <1>5, <1>6 DEF ModelInv

-----------------------------------------------------------------------------
\* What the other two rest on: every step keeps the types, the counters and the account.
THEOREM ModelInvariant == ModelSpec => []ModelInv
<1>1. ModelInv /\ [ModelNext]_modelVars => ModelInv'
  <2>. SUFFICES ASSUME ModelInv, [ModelNext]_modelVars PROVE ModelInv'
    OBVIOUS
  <2>1. ASSUME NEW c \in ModelRequests, ModelStep(c) PROVE ModelInv'
    BY <2>1, CheckBudgetKeeps, PickEndpointKeeps, DepartKeeps, UpstreamKeeps, CooldownKeeps,
       AgainKeeps, EndCallKeeps, RecordCallKeeps DEF ModelStep
  <2>2. CASE Tick
    BY <2>2, TickKeeps
  <2>3. CASE UNCHANGED modelVars
    BY <2>3 DEF modelVars, ModelInv, ModelTypeOK, LoadInv, BudgetInv, With, Admitted
  <2>. QED  BY <2>1, <2>2, <2>3 DEF ModelNext
<1>. QED  BY <1>1, InitialCalls, PTL DEF ModelSpec

\* LoadIsCalls, of the counters the balancer compares (balancer.go:157).
THEOREM LoadsAreCalls == ModelSpec => []LoadIsCalls
<1>1. ModelInv => LoadIsCalls
  BY DEF ModelInv, LoadInv, LoadIsCalls, With
<1>. QED  BY <1>1, ModelInvariant, PTL

\* BudgetOvershootBounded, of the check before a call and the record after it (budget.go:36).
THEOREM OvershootIsBounded == ModelSpec => []BudgetOvershootBounded
<1>1. ModelInv => BudgetOvershootBounded
  <2>. SUFFICES ASSUME ModelInv PROVE BudgetOvershootBounded
    OBVIOUS
  <2>1. Admitted \in SUBSET ModelRequests
    BY DEF Admitted
  <2>2. /\ tokens.checked \in Nat /\ Cardinality(Admitted) * CallTokens \in Nat
        /\ Cardinality(ModelRequests) * CallTokens \in Nat
    BY <2>1, CallsAreFinite, CostGrows DEF ModelInv, ModelTypeOK
  <2>. HIDE DEF Admitted
  <2>. QED  BY <2>2, ModelAssumption DEF ModelInv, BudgetInv, BudgetOvershootBounded
<1>. QED  BY <1>1, ModelInvariant, PTL

-----------------------------------------------------------------------------
(***************************************************************************)
(* Conversation, for any number of responses.                              *)
(*                                                                         *)
(* What a response has read is a beginning of the transcript (ReadInv), so *)
(* that the turns it read are the whole transcript when the latest of them *)
(* is the latest turn.  The stack it read is then what that transcript     *)
(* leads to, unless the turns were read after a later exchange.  The       *)
(* stack after each turn is a recursive function: that the function is     *)
(* there, and that a longer transcript begins in the same way, is shown by *)
(* looking at the first turn at which it would fail (LeastNumber).         *)
(***************************************************************************)
Turn == [role : {"assistant", "user"}, action : {"none", "continue", "descend", "retry"},
         replyTo : Nat, passage : Nat]

\* Every turn replies to the one before it, and the learner has been asked before a repair.
Transcript(turns) ==
    /\ turns \in Seq(Turn)
    /\ \A i \in 1..Len(turns) :
          /\ turns[i].replyTo = i - 1
          /\ turns[i].action = "descend" => i > 2

Part(turns, all) ==
    /\ turns \in Seq(Turn)
    /\ Len(turns) <= Len(all)
    /\ \A i \in 1..Len(turns) : turns[i] = all[i]

Telling(turns, n, f) ==
    /\ DOMAIN f = 0..n
    /\ f[0] = [stack |-> <<>>, summary |-> 0]
    /\ \A i \in 1..n : f[i] = AfterTurn(turns, f[i - 1], i)

LEMMA LeastNumber ==
    ASSUME NEW T \in SUBSET Nat, T # {}
    PROVE  \E m \in T : \A n \in T : m <= n
<1>. DEFINE Below == {0..n : n \in T}
<1>1. Below \subseteq FiniteSubsetsOf(Nat)
  <2>1. \A n \in T : 0..n \in SUBSET Nat /\ IsFiniteSet(0..n)
    BY FS_Interval
  <2>. QED  BY <2>1 DEF FiniteSubsetsOf
<1>2. PICK b \in Below : \A c \in Below : ~ (<<c, b>> \in StrictSubsetOrdering(Nat))
  <2>1. Below # {}
    OBVIOUS
  <2>. HIDE DEF Below
  <2>2. IsWellFoundedOn(StrictSubsetOrdering(Nat), FiniteSubsetsOf(Nat))
    BY FS_StrictSubsetOrderingWellFounded
  <2>. QED  BY <1>1, <2>1, <2>2, WFMin, Zenon
<1>3. PICK m \in T : b = 0..m
  OBVIOUS
<1>4. ASSUME NEW n \in T, n < m PROVE FALSE
  <2>1. 0..n \in Below /\ 0..n \subseteq 0..m /\ m \in 0..m /\ m \notin 0..n
    BY <1>4
  <2>2. <<0..n, b>> \in StrictSubsetOrdering(Nat)
    BY <2>1, <1>3 DEF StrictSubsetOrdering
  <2>. QED  BY <1>2, <2>1, <2>2
<1>. QED  BY <1>4

\* The function Told is defined by is there.
LEMMA ToldIsTelling ==
    ASSUME NEW turns \in Seq(Turn)
    PROVE  Telling(turns, Len(turns), Told(turns))
<1>. DEFINE N == Len(turns)
            start == [stack |-> <<>>, summary |-> 0]
            failing == {n \in 0..N : ~ \E f : Telling(turns, n, f)}
<1>1. N \in Nat
  OBVIOUS
<1>2. failing = {}
  <2>1. SUFFICES ASSUME failing # {} PROVE FALSE
    OBVIOUS
  <2>2. PICK n \in failing : \A m \in failing : n <= m
    <3>1. failing \in SUBSET Nat
      BY <1>1
    <3>. HIDE DEF failing
    <3>. QED  BY <2>1, <3>1, LeastNumber
  <2>3. n \in 0..N /\ ~ \E f : Telling(turns, n, f)
    OBVIOUS
  <2>4. CASE n = 0
    <3>1. Telling(turns, 0, [j \in 0..0 |-> start])
      BY DEF Telling
    <3>. QED  BY <2>3, <2>4, <3>1
  <2>5. CASE n # 0
    <3>1. n - 1 \in 0..N /\ n - 1 \notin failing
      <4>1. n - 1 \in 0..N /\ ~ (n <= n - 1)
        BY <1>1, <2>3, <2>5
      <4>. HIDE DEF failing
      <4>. QED  BY <2>2, <4>1
    <3>2. PICK f : Telling(turns, n - 1, f)
      BY <3>1
    <3>. DEFINE g == [j \in 0..n |-> IF j = n THEN AfterTurn(turns, f[n - 1], n) ELSE f[j]]
    <3>3. DOMAIN g = 0..n /\ g[0] = start
      BY <1>1, <2>3, <2>5, <3>2 DEF Telling
    <3>4. ASSUME NEW i \in 1..n PROVE g[i] = AfterTurn(turns, g[i - 1], i)
      <4>1. g[i - 1] = f[i - 1]
        BY <1>1, <2>3, <3>4
      <4>2. CASE i = n
        BY <1>1, <2>3, <4>1, <4>2
      <4>3. CASE i # n
        <5>1. g[i] = f[i] /\ i \in 1..(n - 1)
          BY <1>1, <2>3, <3>4, <4>3
        <5>. HIDE DEF g
        <5>. QED  BY <3>2, <4>1, <5>1 DEF Telling
      <4>. QED  BY <4>2, <4>3
    <3>. HIDE DEF g
    <3>5. Telling(turns, n, g)
      BY <3>3, <3>4 DEF Telling
    <3>. QED  BY <2>3, <3>5
  <2>. QED  BY <2>4, <2>5
<1>3. PICK f : Telling(turns, N, f)
  <2>1. N \in 0..N
    BY <1>1
  <2>. QED  BY <1>2, <2>1
<1>. DEFINE F(h) == [i \in 0..N |-> IF i = 0 THEN start ELSE AfterTurn(turns, h[i - 1], i)]
            e == [i \in 0..N |-> f[i]]
<1>4. e = F(e)
  <2>1. \A i \in 0..N : i # 0 => e[i] = AfterTurn(turns, e[i - 1], i)
    <3>. SUFFICES ASSUME NEW i \in 0..N, i # 0 PROVE e[i] = AfterTurn(turns, e[i - 1], i)
      OBVIOUS
    <3>1. e[i] = f[i] /\ e[i - 1] = f[i - 1] /\ i \in 1..N
      BY <1>1
    <3>. HIDE DEF e
    <3>. QED  BY <1>3, <3>1 DEF Telling
  <2>2. 0 \in 0..N /\ e[0] = start
    BY <1>1, <1>3 DEF Telling
  <2>. QED  BY <2>1, <2>2
<1>. DEFINE t == CHOOSE h : h = F(h)
<1>5. t = F(t)
  <2>. HIDE DEF F, e
  <2>. QED  BY <1>4
<1>6. Told(turns) = t
  BY DEF Told
<1>7. Telling(turns, N, t)
  <2>1. DOMAIN t = 0..N /\ \A i \in 0..N : t[i] = IF i = 0 THEN start ELSE AfterTurn(turns, t[i - 1], i)
    <3>. HIDE DEF t
    <3>. QED  BY <1>5
  <2>. HIDE DEF t
  <2>. QED  BY <1>1, <2>1 DEF Telling
<1>. QED  BY <1>6, <1>7

\* A beginning of a transcript is told as it is within the whole.
LEMMA TellingsAgree ==
    ASSUME NEW turns, Transcript(turns), NEW more, Transcript(more), Part(turns, more),
           NEW f, Telling(turns, Len(turns), f), NEW g, Telling(more, Len(more), g)
    PROVE  \A i \in 0..Len(turns) : g[i] = f[i]
<1>. DEFINE N == Len(turns)  failing == {n \in 0..N : g[n] # f[n]}
<1>1. N \in Nat /\ N <= Len(more) /\ Len(more) \in Nat
  BY DEF Transcript, Part
<1>. SUFFICES ASSUME failing # {} PROVE FALSE
  OBVIOUS
<1>2. PICK n \in failing : \A m \in failing : n <= m
  <2>1. failing \in SUBSET Nat
    BY <1>1
  <2>. HIDE DEF failing
  <2>. QED  BY <2>1, LeastNumber
<1>3. n \in 0..N /\ g[n] # f[n]
  OBVIOUS
<1>4. n # 0
  BY <1>3 DEF Telling
<1>5. n \in 1..N /\ n - 1 \in 0..N /\ n \in 1..Len(more)
  BY <1>1, <1>3, <1>4
<1>6. g[n - 1] = f[n - 1]
  <2>1. n - 1 \notin failing
    <3>1. ~ (n <= n - 1)
      BY <1>5
    <3>. HIDE DEF failing
    <3>. QED  BY <1>2, <3>1
  <2>. QED  BY <1>5, <2>1
<1>7. AfterTurn(more, f[n - 1], n) = AfterTurn(turns, f[n - 1], n)
  <2>1. more[n] = turns[n]
    BY <1>5 DEF Part
  <2>2. CASE turns[n].action = "descend"
    <3>1. turns[n].replyTo = n - 1 /\ n - 1 \in 1..N
      BY <1>5, <2>2 DEF Transcript
    <3>2. more[n - 1] = turns[n - 1]
      BY <3>1 DEF Part
    <3>. QED  BY <2>1, <2>2, <3>1, <3>2 DEF AfterTurn
  <2>3. CASE turns[n].action # "descend"
    BY <2>1, <2>3 DEF AfterTurn
  <2>. QED  BY <2>2, <2>3
<1>. QED  BY <1>3, <1>5, <1>6, <1>7 DEF Telling

\* What a transcript leads to, one turn after the other.
LEMMA ToldByTurns ==
    ASSUME NEW turns, Transcript(turns)
    PROVE  /\ Told(turns)[0] = [stack |-> <<>>, summary |-> 0]
           /\ \A i \in 1..Len(turns) : Told(turns)[i] = AfterTurn(turns, Told(turns)[i - 1], i)
  BY ToldIsTelling DEF Telling, Transcript

LEMMA ToldOfPart ==
    ASSUME NEW turns, Transcript(turns), NEW more, Transcript(more), Part(turns, more)
    PROVE  \A i \in 0..Len(turns) : Told(more)[i] = Told(turns)[i]
<1>1. Telling(turns, Len(turns), Told(turns)) /\ Telling(more, Len(more), Told(more))
  BY ToldIsTelling DEF Transcript
<1>. QED  BY <1>1, TellingsAgree

\* The stack holds turns that were told by then.
LEMMA ToldType ==
    ASSUME NEW turns, Transcript(turns)
    PROVE  \A i \in 0..Len(turns) : Told(turns)[i] \in [stack : Seq(1..Len(turns)), summary : Nat]
<1>. DEFINE N == Len(turns)  Row == [stack : Seq(1..N), summary : Nat]
            failing == {n \in 0..N : Told(turns)[n] \notin Row}
<1>1. N \in Nat
  BY DEF Transcript
<1>. SUFFICES ASSUME failing # {} PROVE FALSE
  OBVIOUS
<1>2. PICK n \in failing : \A m \in failing : n <= m
  <2>1. failing \in SUBSET Nat
    BY <1>1
  <2>. HIDE DEF failing
  <2>. QED  BY <2>1, LeastNumber
<1>3. n \in 0..N /\ Told(turns)[n] \notin Row
  OBVIOUS
<1>4. n # 0
  <2>1. [stack |-> <<>>, summary |-> 0] \in Row
    OBVIOUS
  <2>. QED  BY <1>3, <2>1, ToldByTurns
<1>5. n \in 1..N /\ n - 1 \in 0..N
  BY <1>1, <1>3, <1>4
<1>6. Told(turns)[n - 1] \in Row
  <2>1. n - 1 \notin failing
    <3>1. ~ (n <= n - 1)
      BY <1>5
    <3>. HIDE DEF failing
    <3>. QED  BY <1>2, <3>1
  <2>. QED  BY <1>5, <2>1
<1>7. PICK s \in Row : s = Told(turns)[n - 1]
  BY <1>6
<1>8. AfterTurn(turns, s, n) \in Row
  <2>1. s.stack \in Seq(1..N) /\ s.summary \in Nat
    OBVIOUS
  <2>2. CASE turns[n].action = "descend"
    <3>1. turns[n].replyTo = n - 1 /\ n - 1 \in 1..N /\ n - 2 \in 1..N
      BY <1>1, <1>5, <2>2 DEF Transcript
    <3>2. turns[n - 1].replyTo = n - 2
      BY <3>1 DEF Transcript
    <3>3. Append(s.stack, turns[turns[n].replyTo].replyTo) \in Seq(1..N)
      BY <2>1, <3>1, <3>2
    <3>. QED  BY <2>1, <2>2, <3>3 DEF AfterTurn
  <2>3. CASE turns[n].action = "retry"
    <3>1. SubSeq(s.stack, 1, Len(s.stack) - 1) \in Seq(1..N)
      BY <2>1
    <3>. QED  BY <2>1, <2>3, <3>1 DEF AfterTurn
  <2>4. CASE turns[n].action \notin {"descend", "retry"}
    <3>1. AfterTurn(turns, s, n) = s \/ AfterTurn(turns, s, n) = [s EXCEPT !.summary = n]
      BY <2>4 DEF AfterTurn
    <3>2. [s EXCEPT !.summary = n] \in Row
      BY <1>5, <2>1
    <3>. QED  BY <3>1, <3>2
  <2>. QED  BY <2>2, <2>3, <2>4
<1>. QED  BY <1>3, <1>5, <1>7, <1>8, ToldByTurns

\* What a response has read is a beginning of the transcript, the conversation no later
\* than the turns, and ends with a question to the learner.
ReadInv(r) ==
    LET v == response[r] IN
    /\ DOMAIN v = DOMAIN NoResponse
    /\ v.pc \in {"turns", "model", "commit"} =>
          /\ v.seen \in 1..Len(turn)
          /\ v.stack \in Seq(1..v.seen) /\ v.summary \in Nat
          /\ ~torn => [stack |-> v.stack, summary |-> v.summary] = Told(turn)[v.seen]
    /\ v.pc \in {"model", "commit"} =>
          /\ Part(v.turns, turn) /\ v.seen <= Len(v.turns)
          /\ v.turns[Len(v.turns)].role = "assistant"

ConversationInv ==
    /\ Transcript(turn)
    /\ turn # <<>> => turn[Len(turn)].role = "assistant"
    /\ stack \in Seq(1..Len(turn)) /\ summary \in Nat /\ torn \in BOOLEAN
    /\ ~torn => StackFollowsTranscript
    /\ DOMAIN response = Responses /\ \A r \in Responses : ReadInv(r)

\* What is on a stack, and what stays of it.
LEMMA OnStack ==
    ASSUME NEW S, NEW q \in Seq(S)
    PROVE  /\ q # <<>> => Last(q) = q[Len(q)] /\ Last(q) \in S /\ Len(q) > 0
           /\ q = <<>> => ~(Len(q) > 0)
           /\ Len(q) \in Nat
           /\ SubSeq(q, 1, Len(q) - 1) \in Seq(S)
           /\ \A e \in S : Append(q, e) \in Seq(S)
           /\ \A T : S \subseteq T => q \in Seq(T)
<1>1. q # <<>> => Last(q) = q[Len(q)] /\ q[Len(q)] \in S /\ Len(q) > 0
  <2>. SUFFICES ASSUME q # <<>> PROVE Last(q) = q[Len(q)] /\ q[Len(q)] \in S /\ Len(q) > 0
    OBVIOUS
  <2>1. Len(q) \in 1..Len(q) /\ Len(q) > 0
    OBVIOUS
  <2>. QED  BY <2>1 DEF Last
<1>2. SubSeq(q, 1, Len(q) - 1) \in Seq(S)
  OBVIOUS
<1>3. \A T : S \subseteq T => q \in Seq(T)
  OBVIOUS
<1>. QED  BY <1>1, <1>2, <1>3

LEMMA LatestIsLast ==
    ASSUME NEW turns \in Seq(Turn), turns # <<>>, turns[Len(turns)].role = "assistant"
    PROVE  LatestAssistant(turns) = Len(turns)
<1>. DEFINE Latest(i) == /\ turns[i].role = "assistant"
                         /\ \A j \in DOMAIN turns : j > i => turns[j].role # "assistant"
<1>1. Len(turns) \in DOMAIN turns /\ Latest(Len(turns))
  OBVIOUS
<1>2. \A i \in DOMAIN turns : Latest(i) => i = Len(turns)
  <2>. SUFFICES ASSUME NEW i \in DOMAIN turns, Latest(i), i # Len(turns) PROVE FALSE
    OBVIOUS
  <2>1. Len(turns) > i
    OBVIOUS
  <2>. QED  BY <1>1, <2>1
<1>3. LatestAssistant(turns) = CHOOSE i \in DOMAIN turns : Latest(i)
  BY DEF LatestAssistant
<1>. HIDE DEF Latest
<1>. QED  BY <1>1, <1>2, <1>3

LEMMA InitialConversation == ConversationInit => ConversationInv
<1>. SUFFICES ASSUME ConversationInit PROVE ConversationInv
  OBVIOUS
<1>1. turn = <<>> /\ stack = <<>> /\ summary = 0 /\ torn = FALSE
      /\ response = [r \in Responses |-> NoResponse]
  BY DEF ConversationInit
<1>2. Transcript(turn)
  BY <1>1 DEF Transcript
<1>3. StackFollowsTranscript
  BY <1>1, <1>2, ToldByTurns DEF StackFollowsTranscript, RetriesParent
<1>4. \A r \in Responses : ReadInv(r)
  BY <1>1 DEF ReadInv, NoResponse
<1>5. stack \in Seq(1..Len(turn)) /\ summary \in Nat /\ torn \in BOOLEAN /\ DOMAIN response = Responses
  <2>. DEFINE known == 1..Len(turn)
  <2>1. <<>> \in Seq(known)
    OBVIOUS
  <2>. QED  BY <1>1, <2>1
<1>. QED  BY <1>1, <1>2, <1>3, <1>4, <1>5 DEF ConversationInv

\* The root passage.
LEMMA StartKeeps == ConversationInv /\ StartConversation => ConversationInv'
<1>. SUFFICES ASSUME ConversationInv, StartConversation PROVE ConversationInv'
  OBVIOUS
<1>1. turn = <<>> /\ turn' = <<StoryTurn(1, 0)>> /\ summary' = 1
      /\ stack' = stack /\ response' = response /\ torn' = torn
  BY DEF StartConversation
<1>2. StoryTurn(1, 0) = [role |-> "assistant", action |-> "continue", replyTo |-> 0, passage |-> 1]
  BY DEF StoryTurn
<1>3. Transcript(turn') /\ Len(turn') = 1 /\ turn'[1] = StoryTurn(1, 0)
  BY <1>1, <1>2 DEF Transcript, Turn
<1>4. ~torn => [stack |-> stack, summary |-> summary] = [stack |-> <<>>, summary |-> 0]
  BY <1>1, ToldByTurns DEF ConversationInv, StackFollowsTranscript
<1>5. Told(turn')[1] = [stack |-> <<>>, summary |-> 1]
  <2>. DEFINE start == [stack |-> <<>>, summary |-> 0]
  <2>1. Told(turn')[1] = AfterTurn(turn', start, 1)
    BY <1>3, ToldByTurns
  <2>2. turn'[1].action = "continue"
    BY <1>2, <1>3
  <2>3. AfterTurn(turn', start, 1) = [start EXCEPT !.summary = 1]
    BY <2>2 DEF AfterTurn
  <2>. QED  BY <2>1, <2>3
<1>6. stack' \in Seq(1..1)
  <2>1. stack \in Seq(1..0)
    BY <1>1 DEF ConversationInv
  <2>. QED  BY <1>1, <2>1
<1>7. ~torn' => StackFollowsTranscript'
  <2>1. RetriesParent(turn')
    BY <1>2, <1>3 DEF RetriesParent
  <2>. QED  BY <1>1, <1>3, <1>4, <1>5, <2>1 DEF StackFollowsTranscript
<1>8. \A r \in Responses : ReadInv(r)'
  BY <1>1 DEF ConversationInv, ReadInv, Part
<1>. QED  BY <1>1, <1>2, <1>3, <1>6, <1>7, <1>8 DEF ConversationInv

\* The steps that only move a response.
LEMMA QuietKeeps ==
    ASSUME ConversationInv, NEW r \in Responses, UNCHANGED <<turn, stack, summary, torn>>,
           NEW v, response' = [response EXCEPT ![r] = v], ReadInv(r)'
    PROVE  ConversationInv'
<1>1. \A s \in Responses : ReadInv(s)'
  <2>. SUFFICES ASSUME NEW s \in Responses, s # r PROVE ReadInv(s)'
    OBVIOUS
  <2>1. response'[s] = response[s]
    BY DEF ConversationInv
  <2>. QED  BY <2>1 DEF ConversationInv, ReadInv
<1>2. ~torn' => StackFollowsTranscript'
  BY DEF ConversationInv, StackFollowsTranscript
<1>. QED  BY <1>1, <1>2 DEF ConversationInv

LEMMA ResponseKeeps ==
    ASSUME ConversationInv, NEW r \in Responses,
           \/ Record(r) \/ Transcribe(r) \/ ReadConversation(r) \/ ReadTurns(r) \/ Assess(r)
           \/ ConversationConflict(r) \/ Reload(r)
    PROVE  ConversationInv'
<1>0. UNCHANGED <<turn, stack, summary, torn>>
  BY DEF Record, Transcribe, ReadConversation, ReadTurns, Assess, ConversationConflict, Reload
<1>1. DOMAIN response = Responses /\ DOMAIN response[r] = DOMAIN NoResponse
  BY DEF ConversationInv, ReadInv
<1>2. ASSUME NEW pc \in {"idle", "recorded", "transcribed", "done"}, NEW v,
             response' = [response EXCEPT ![r] = v], v.pc = pc, DOMAIN v = DOMAIN NoResponse
      PROVE  ConversationInv'
  <2>1. response'[r] = v
    BY <1>1, <1>2
  <2>2. ReadInv(r)'
    BY <1>2, <2>1 DEF ReadInv
  <2>. QED  BY <1>0, <1>2, <2>2, QuietKeeps
<1>3. ASSUME NEW pc \in {"recorded", "transcribed", "done"}, response' = [response EXCEPT ![r].pc = pc]
      PROVE  ConversationInv'
  <2>. DEFINE v == [response[r] EXCEPT !.pc = pc]
  <2>1. response' = [response EXCEPT ![r] = v]
    BY <1>3
  <2>2. v.pc = pc /\ DOMAIN v = DOMAIN NoResponse
    BY <1>1 DEF NoResponse
  <2>. HIDE DEF v
  <2>. QED  BY <1>2, <2>1, <2>2
<1>4. CASE Record(r) \/ Transcribe(r)
  BY <1>3, <1>4 DEF Record, Transcribe
<1>5. CASE ConversationConflict(r) \/ Reload(r)
  <2>1. PICK v \in {NoResponse, [NoResponse EXCEPT !.pc = "done"]} : response' = [response EXCEPT ![r] = v]
    BY <1>5 DEF ConversationConflict, Reload
  <2>2. v.pc \in {"idle", "done"} /\ DOMAIN v = DOMAIN NoResponse
    BY DEF NoResponse
  <2>. QED  BY <1>2, <2>1, <2>2
<1>6. CASE ReadConversation(r)
  <2>. DEFINE v == [NoResponse EXCEPT !.pc = "turns", !.stack = stack, !.summary = summary, !.seen = Len(turn)]
  <2>1. response' = [response EXCEPT ![r] = v] /\ turn # <<>>
    BY <1>6 DEF ReadConversation
  <2>2. v.pc = "turns" /\ v.stack = stack /\ v.summary = summary /\ v.seen = Len(turn)
        /\ DOMAIN v = DOMAIN NoResponse
    BY DEF NoResponse
  <2>. HIDE DEF v
  <2>3. response'[r] = v
    BY <1>1, <2>1
  <2>4. Len(turn) \in 1..Len(turn)
    BY <2>1 DEF ConversationInv, Transcript
  <2>5. ReadInv(r)'
    BY <1>0, <2>2, <2>3, <2>4 DEF ReadInv, ConversationInv, StackFollowsTranscript
  <2>. QED  BY <1>0, <2>1, <2>5, QuietKeeps
<1>7. CASE ReadTurns(r)
  <2>. DEFINE v == [response[r] EXCEPT !.pc = "model", !.turns = turn]
  <2>1. response' = [response EXCEPT ![r] = v] /\ response[r].pc = "turns"
    BY <1>7 DEF ReadTurns
  <2>2. /\ v.pc = "model" /\ v.turns = turn /\ DOMAIN v = DOMAIN NoResponse
        /\ v.stack = response[r].stack /\ v.summary = response[r].summary /\ v.seen = response[r].seen
    BY <1>1 DEF NoResponse
  <2>. HIDE DEF v
  <2>3. response'[r] = v
    BY <1>1, <2>1
  <2>4. Part(turn, turn) /\ turn # <<>>
    <3>1. turn \in Seq(Turn)
      BY DEF ConversationInv, Transcript
    <3>2. response[r].seen \in 1..Len(turn)
      BY <2>1 DEF ConversationInv, ReadInv
    <3>3. Len(turn) \in Nat /\ Len(turn) # 0
      BY <3>1, <3>2
    <3>. QED  BY <3>1, <3>3 DEF Part
  <2>5. ReadInv(r)'
    BY <1>0, <2>1, <2>2, <2>3, <2>4 DEF ReadInv, ConversationInv
  <2>. QED  BY <1>0, <2>1, <2>5, QuietKeeps
<1>8. CASE Assess(r)
  <2>1. CASE response' = [response EXCEPT ![r].pc = "done"]
    BY <1>3, <2>1
  <2>2. ASSUME NEW a \in Assessments,
               response' = [response EXCEPT ![r].pc = "commit", ![r].assessment = a]
        PROVE  ConversationInv'
    <3>. DEFINE v == [response[r] EXCEPT !.pc = "commit", !.assessment = a]
    <3>1. response' = [response EXCEPT ![r] = v] /\ response[r].pc = "model"
      BY <1>8, <2>2 DEF Assess
    <3>2. /\ v.pc = "commit" /\ v.turns = response[r].turns /\ DOMAIN v = DOMAIN NoResponse
          /\ v.stack = response[r].stack /\ v.summary = response[r].summary /\ v.seen = response[r].seen
      BY <1>1 DEF NoResponse
    <3>. HIDE DEF v
    <3>3. response'[r] = v
      BY <1>1, <3>1
    <3>4. ReadInv(r)'
      BY <1>0, <3>1, <3>2, <3>3 DEF ReadInv, ConversationInv
    <3>. QED  BY <1>0, <3>1, <3>4, QuietKeeps
  <2>. QED  BY <1>8, <2>1, <2>2 DEF Assess
<1>. QED  BY <1>4, <1>5, <1>6, <1>7, <1>8

\* The exchange of an answer to the latest turn.
LEMMA ExchangeKeeps ==
    ASSUME ConversationInv, NEW r \in Responses, AppendConversationExchange(r)
    PROVE  ConversationInv'
<1>1. PICK v, n, x : v = response[r] /\ n = Len(turn) /\ x = Exchange(v, n + 1)
  OBVIOUS
<1>2. /\ v.pc = "commit" /\ LatestAssistant(v.turns) = n
      /\ turn' = turn \o <<LearnerTurn(n), x.answer>>
      /\ stack' = x.stack /\ summary' = x.summary
      /\ torn' = (torn \/ v.seen # Len(v.turns))
      /\ response' = [response EXCEPT ![r] = [NoResponse EXCEPT !.pc = "done"]]
  BY <1>1 DEF AppendConversationExchange
<1>3. /\ v.seen \in 1..n /\ v.stack \in Seq(1..v.seen) /\ v.summary \in Nat
      /\ ~torn => [stack |-> v.stack, summary |-> v.summary] = Told(turn)[v.seen]
      /\ Part(v.turns, turn) /\ v.seen <= Len(v.turns)
      /\ v.turns[Len(v.turns)].role = "assistant"
  BY <1>1, <1>2 DEF ConversationInv, ReadInv
<1>4. Transcript(turn) /\ turn \in Seq(Turn) /\ n \in Nat /\ n >= 1
  BY <1>1, <1>3 DEF ConversationInv, Transcript
<1>5. v.turns \in Seq(Turn) /\ Len(v.turns) = n /\ \A i \in 1..n : v.turns[i] = turn[i]
  <2>1. v.turns \in Seq(Turn) /\ v.turns # <<>>
    BY <1>3, <1>4 DEF Part
  <2>2. Len(v.turns) = n
    BY <1>2, <1>3, <2>1, LatestIsLast
  <2>. QED  BY <1>3, <2>1, <2>2 DEF Part
<1>6. v.stack \in Seq(1..n) /\ Len(v.stack) \in Nat
  <2>1. 1..v.seen \subseteq 1..n
    BY <1>3, <1>4
  <2>. QED  BY <1>3, <2>1, OnStack
\* The answer and the new stack, one case for each assessment and depth.
<1>. DEFINE Descends == /\ x.answer = [role |-> "assistant", action |-> "descend", replyTo |-> n + 1, passage |-> n + 2]
                        /\ x.stack = Append(v.stack, n) /\ x.summary = v.summary
            Retries == /\ v.stack # <<>>
                       /\ x.answer = [role |-> "assistant", action |-> "retry", replyTo |-> n + 1,
                                      passage |-> turn[Last(v.stack)].passage]
                       /\ x.stack = SubSeq(v.stack, 1, Len(v.stack) - 1) /\ x.summary = v.summary
            Continues == /\ x.answer = [role |-> "assistant", action |-> "continue", replyTo |-> n + 1, passage |-> n + 2]
                         /\ v.stack = <<>> /\ x.stack = <<>> /\ x.summary = n + 2
<1>7. Descends \/ Retries \/ Continues
  <2>1. StoryTurn(n + 2, n + 1) = [role |-> "assistant", action |-> "continue", replyTo |-> n + 1, passage |-> n + 2]
        /\ n + 1 + 1 = n + 2
    BY <1>4 DEF StoryTurn
  <2>2. CASE v.assessment # "understood"
    <3>1. x.answer = [StoryTurn(n + 2, n + 1) EXCEPT !.action = "descend"]
          /\ x.stack = Append(v.stack, n) /\ x.summary = v.summary
      BY <1>1, <1>2, <2>1, <2>2 DEF Exchange
    <3>. QED  BY <2>1, <3>1
  <2>3. CASE v.assessment = "understood" /\ Len(v.stack) > 0
    <3>1. v.stack # <<>> /\ Last(v.stack) = v.stack[Len(v.stack)] /\ Last(v.stack) \in 1..n
      BY <1>6, <2>3, OnStack
    <3>2. v.turns[v.stack[Len(v.stack)]] = turn[Last(v.stack)]
      BY <1>5, <3>1
    <3>3. PICK p : p = turn[Last(v.stack)].passage
      OBVIOUS
    <3>4. x.answer = [StoryTurn(n + 2, n + 1) EXCEPT !.action = "retry", !.passage = p]
          /\ x.stack = SubSeq(v.stack, 1, Len(v.stack) - 1) /\ x.summary = v.summary
      BY <1>1, <1>2, <2>1, <2>3, <3>2, <3>3 DEF Exchange
    <3>5. x.answer = [role |-> "assistant", action |-> "retry", replyTo |-> n + 1, passage |-> p]
      <4>1. [StoryTurn(n + 2, n + 1) EXCEPT !.action = "retry", !.passage = p]
            = [[StoryTurn(n + 2, n + 1) EXCEPT !.action = "retry"] EXCEPT !.passage = p]
        BY Zenon
      <4>2. [StoryTurn(n + 2, n + 1) EXCEPT !.action = "retry"]
            = [role |-> "assistant", action |-> "retry", replyTo |-> n + 1, passage |-> n + 2]
        BY <2>1
      <4>3. [[role |-> "assistant", action |-> "retry", replyTo |-> n + 1, passage |-> n + 2] EXCEPT !.passage = p]
            = [role |-> "assistant", action |-> "retry", replyTo |-> n + 1, passage |-> p]
        OBVIOUS
      <4>. QED  BY <3>4, <4>1, <4>2, <4>3, Zenon
    <3>6. Retries
      BY <3>1, <3>3, <3>4, <3>5
    <3>. QED  BY <3>6
  <2>4. CASE v.assessment = "understood" /\ ~(Len(v.stack) > 0)
    <3>1. v.stack = <<>>
      BY <1>6, <2>4
    <3>2. x.answer = StoryTurn(n + 2, n + 1) /\ x.stack = <<>> /\ x.summary = n + 2
      BY <1>1, <1>2, <2>1, <2>4 DEF Exchange
    <3>. QED  BY <2>1, <3>1, <3>2
  <2>. QED  BY <1>6, <2>2, <2>3, <2>4
<1>8. PICK learner, answer : learner = LearnerTurn(n) /\ answer = x.answer
  OBVIOUS
<1>9. /\ learner \in Turn /\ learner.action = "none" /\ learner.replyTo = n
      /\ answer \in Turn /\ answer.replyTo = n + 1 /\ answer.role = "assistant"
  <2>1. learner = [role |-> "user", action |-> "none", replyTo |-> n, passage |-> 0]
    BY <1>8 DEF LearnerTurn
  <2>2. learner \in Turn
    BY <1>4, <2>1 DEF Turn
  <2>3. v.stack # <<>> => turn[Last(v.stack)].passage \in Nat
    <3>. SUFFICES ASSUME v.stack # <<>> PROVE turn[Last(v.stack)].passage \in Nat
      OBVIOUS
    <3>1. Last(v.stack) \in 1..n
      BY <1>6, OnStack
    <3>2. turn[Last(v.stack)] \in Turn
      BY <1>1, <1>4, <3>1
    <3>. QED  BY <3>2 DEF Turn
  <2>4. answer \in Turn /\ answer.replyTo = n + 1 /\ answer.role = "assistant"
    <3>1. n + 1 \in Nat /\ n + 2 \in Nat
      BY <1>4
    <3>2. CASE Descends
      BY <1>8, <3>1, <3>2 DEF Turn
    <3>3. CASE Retries
      BY <1>8, <2>3, <3>1, <3>3 DEF Turn
    <3>4. CASE Continues
      BY <1>8, <3>1, <3>4 DEF Turn
    <3>. QED  BY <1>7, <3>2, <3>3, <3>4
  <2>. QED  BY <2>1, <2>2, <2>4
<1>10. /\ turn' \in Seq(Turn) /\ Len(turn') = n + 2
       /\ turn'[n + 1] = learner /\ turn'[n + 2] = answer
       /\ \A i \in 1..n : turn'[i] = turn[i]
  <2>1. turn' = turn \o <<learner, answer>>
    BY <1>2, <1>8
  <2>. QED  BY <1>1, <1>4, <1>9, <2>1
<1>11. Transcript(turn')
  <2>. SUFFICES ASSUME NEW i \in 1..(n + 2)
                PROVE  turn'[i].replyTo = i - 1 /\ (turn'[i].action = "descend" => i > 2)
    BY <1>10 DEF Transcript
  <2>1. i \in 1..n \/ i = n + 1 \/ i = n + 2
    BY <1>4
  <2>. QED  BY <1>1, <1>4, <1>9, <1>10, <2>1 DEF Transcript
<1>12. Part(turn, turn') /\ Part(v.turns, turn')
  BY <1>1, <1>4, <1>5, <1>10 DEF Part
<1>13. \A i \in 0..n : Told(turn')[i] = Told(turn)[i]
  BY <1>1, <1>4, <1>11, <1>12, ToldOfPart
<1>14. stack' \in Seq(1..(n + 2)) /\ summary' \in Nat
  <2>. DEFINE known == 1..(n + 2)
  <2>1. v.stack \in Seq(known) /\ n \in known
    <3>1. 1..n \subseteq known /\ n \in known
      BY <1>4
    <3>. HIDE DEF known
    <3>. QED  BY <1>6, <3>1, OnStack
  <2>2. x.stack \in Seq(known) /\ x.summary \in Nat
    <3>. HIDE DEF known
    <3>1. Append(v.stack, n) \in Seq(known) /\ SubSeq(v.stack, 1, Len(v.stack) - 1) \in Seq(known)
      BY <2>1, OnStack
    <3>2. <<>> \in Seq(known)
      OBVIOUS
    <3>3. CASE Descends
      BY <1>3, <3>1, <3>3
    <3>4. CASE Retries
      BY <1>3, <3>1, <3>4
    <3>5. CASE Continues
      BY <1>4, <3>2, <3>5
    <3>. QED  BY <1>7, <3>3, <3>4, <3>5
  <2>. QED  BY <1>2, <2>2
<1>15. ~torn' => StackFollowsTranscript'
  <2>. SUFFICES ASSUME ~torn' PROVE StackFollowsTranscript'
    OBVIOUS
  <2>1. ~torn /\ v.seen = n
    BY <1>2, <1>5
  <2>2. PICK s : s = [stack |-> v.stack, summary |-> v.summary]
    OBVIOUS
  <2>3. Told(turn')[n] = s
    BY <1>3, <1>4, <1>13, <2>1, <2>2
  <2>4. Told(turn')[n + 1] = s
    <3>1. Told(turn')[n + 1] = AfterTurn(turn', s, n + 1)
      BY <1>4, <1>10, <1>11, <2>3, ToldByTurns
    <3>2. turn'[n + 1].action = "none"
      BY <1>9, <1>10
    <3>. QED  BY <3>1, <3>2 DEF AfterTurn
  <2>5. Told(turn')[n + 2] = AfterTurn(turn', s, n + 2)
    <3>1. n + 2 \in 1..(n + 2) /\ (n + 2) - 1 = n + 1
      BY <1>4
    <3>. QED  BY <1>10, <1>11, <2>4, <3>1, ToldByTurns
  <2>6. turn'[turn'[n + 2].replyTo].replyTo = n
    BY <1>9, <1>10
  <2>7. AfterTurn(turn', s, n + 2) = [stack |-> x.stack, summary |-> x.summary]
    <3>1. CASE Descends
      <4>1. turn'[n + 2].action = "descend"
        BY <1>8, <1>10, <3>1
      <4>. QED  BY <2>2, <2>6, <3>1, <4>1 DEF AfterTurn
    <3>2. CASE Retries
      <4>1. turn'[n + 2].action = "retry"
        BY <1>8, <1>10, <3>2
      <4>. QED  BY <2>2, <3>2, <4>1 DEF AfterTurn
    <3>3. CASE Continues
      <4>1. turn'[n + 2].action = "continue"
        BY <1>8, <1>10, <3>3
      <4>. QED  BY <2>2, <3>3, <4>1 DEF AfterTurn
    <3>. QED  BY <1>7, <3>1, <3>2, <3>3
  <2>8. ASSUME NEW i \in 1..(n + 2), turn'[i].action = "retry"
        PROVE  Told(turn')[i - 1].stack # <<>>
               /\ turn'[i].passage = turn'[Last(Told(turn')[i - 1].stack)].passage
    <3>1. CASE i \in 1..n
      <4>1. turn[i].action = "retry" /\ i - 1 \in 0..n /\ i \in DOMAIN turn
        BY <1>1, <1>4, <1>10, <2>8, <3>1
      <4>2. PICK before : before = Told(turn)[i - 1].stack
        OBVIOUS
      <4>3. before # <<>> /\ turn[i].passage = turn[Last(before)].passage
        BY <2>1, <4>1, <4>2 DEF ConversationInv, StackFollowsTranscript, RetriesParent
      <4>4. before \in Seq(1..n)
        BY <1>1, <1>4, <4>1, <4>2, ToldType
      <4>5. Last(before) \in 1..n
        BY <4>3, <4>4, OnStack
      <4>. QED  BY <1>10, <1>13, <3>1, <4>1, <4>2, <4>3, <4>5
    <3>2. CASE i = n + 1
      BY <1>9, <1>10, <2>8, <3>2
    <3>3. CASE i = n + 2
      <4>1. answer.action = "retry" /\ i - 1 = n + 1
        BY <1>4, <1>10, <2>8, <3>3
      <4>2. Retries
        BY <1>7, <1>8, <4>1
      <4>3. Told(turn')[i - 1].stack = v.stack
        BY <2>2, <2>4, <4>1
      <4>4. Last(v.stack) \in 1..n
        BY <1>6, <4>2, OnStack
      <4>5. turn'[Last(v.stack)] = turn[Last(v.stack)]
        BY <1>10, <4>4
      <4>. QED  BY <1>8, <1>10, <3>3, <4>2, <4>3, <4>5
    <3>. QED  BY <1>4, <3>1, <3>2, <3>3
  <2>9. RetriesParent(turn')
    BY <1>10, <2>8 DEF RetriesParent
  <2>. QED  BY <1>2, <1>10, <2>5, <2>7, <2>9 DEF StackFollowsTranscript
<1>16. ASSUME NEW q \in Responses PROVE ReadInv(q)'
  <2>1. CASE q = r
    <3>1. response'[q].pc = "done" /\ DOMAIN response'[q] = DOMAIN NoResponse
      BY <1>2, <2>1 DEF NoResponse, ConversationInv
    <3>. QED  BY <3>1 DEF ReadInv
  <2>2. CASE q # r
    <3>1. PICK w : w = response[q]
      OBVIOUS
    <3>2. response'[q] = w /\ DOMAIN w = DOMAIN NoResponse
      BY <1>2, <2>2, <3>1 DEF ConversationInv, ReadInv
    <3>3. ASSUME w.pc \in {"turns", "model", "commit"}
          PROVE  /\ w.seen \in 1..(n + 2) /\ w.stack \in Seq(1..w.seen) /\ w.summary \in Nat
                 /\ ~torn' => [stack |-> w.stack, summary |-> w.summary] = Told(turn')[w.seen]
      <4>1. /\ w.seen \in 1..n /\ w.stack \in Seq(1..w.seen) /\ w.summary \in Nat
            /\ ~torn => [stack |-> w.stack, summary |-> w.summary] = Told(turn)[w.seen]
        BY <1>1, <3>1, <3>3 DEF ConversationInv, ReadInv
      <4>2. w.seen \in 1..(n + 2) /\ w.seen \in 0..n
        BY <1>4, <4>1
      <4>. QED  BY <1>2, <1>13, <4>1, <4>2
    <3>4. ASSUME w.pc \in {"model", "commit"}
          PROVE  Part(w.turns, turn') /\ w.seen <= Len(w.turns) /\ w.turns[Len(w.turns)].role = "assistant"
      <4>1. Part(w.turns, turn) /\ w.seen <= Len(w.turns) /\ w.turns[Len(w.turns)].role = "assistant"
        BY <3>1, <3>4 DEF ConversationInv, ReadInv
      <4>. QED  BY <1>1, <1>4, <1>10, <4>1 DEF Part
    <3>. QED  BY <1>10, <3>2, <3>3, <3>4 DEF ReadInv
  <2>. QED  BY <2>1, <2>2
<1>17. torn' \in BOOLEAN /\ DOMAIN response' = Responses
  BY <1>2 DEF ConversationInv
<1>18. turn'[Len(turn')].role = "assistant"
  BY <1>9, <1>10
<1>. QED  BY <1>10, <1>11, <1>14, <1>15, <1>16, <1>17, <1>18 DEF ConversationInv

THEOREM ConversationInvariant == ConversationSpec => []ConversationInv
<1>1. ConversationInv /\ [ConversationNext]_conversationVars => ConversationInv'
  <2>. SUFFICES ASSUME ConversationInv, [ConversationNext]_conversationVars PROVE ConversationInv'
    OBVIOUS
  <2>1. CASE UNCHANGED conversationVars
    <3>1. UNCHANGED <<turn, stack, summary, response, torn>>
      BY <2>1 DEF conversationVars
    <3>. QED  BY <3>1 DEF ConversationInv, ReadInv, StackFollowsTranscript
  <2>2. CASE ConversationNext
    BY <2>2, StartKeeps, ResponseKeeps, ExchangeKeeps DEF ConversationNext
  <2>. QED  BY <2>1, <2>2
<1>. QED  BY <1>1, InitialConversation, PTL DEF ConversationSpec

\* However many responses are sent at once, the stored stack and summary are those the
\* transcript leads to and a retry restates its parent, unless one read the conversation
\* before an exchange and the transcript after it (db/sql_conversations.go).
THEOREM StacksFollow == ConversationSpec => []UntornStackFollows
<1>1. ConversationInv => UntornStackFollows
  BY DEF ConversationInv, UntornStackFollows
<1>. QED  BY <1>1, ConversationInvariant, PTL

-----------------------------------------------------------------------------
(***************************************************************************)
(* Reader speech, for any sentences, requests, limits of the cache, and    *)
(* any number of failed calls, failed writes and restarts.                 *)
(*                                                                         *)
(* SpeechIsCoherent is not inductive.  That stored audio is whole rests on *)
(* one request making it and all others having nothing of it (Makes, Own), *)
(* while nobody came in between; that times belong to their audio rests on *)
(* what a request has and was answered so far (Asking); that the cache     *)
(* counts right rests on the sizes of disjoint sets of entries adding up.  *)
(***************************************************************************)
\* What is known of audio, and of the times of its words.
Asset == [audio : Nat, alignment : Nat]

Gathering == {"get", "load", "load_alignment", "synthesize", "audio_open", "audio_write"}
Aligning == {"align", "keep", "alignment_open", "alignment_write"}

CacheInv(c) ==
    /\ c.order \in Seq(SpeechSentences)
    /\ c.entries \in [SpeechSentences -> Asset]
    /\ KeysOf(c.order) = {s \in SpeechSentences : c.entries[s] # NoAsset}
    /\ \A s \in SpeechSentences : c.entries[s] = NoAsset \/ c.entries[s].audio # Missing
    /\ \A m, n \in 1..Len(c.order) : c.order[m] = c.order[n] => m = n
    /\ c.used = SizeOf(KeysOf(c.order), c.entries)
    /\ Len(c.order) <= MaxEntries
    /\ c.used <= MaxBytes

\* A request goes on with a sentence only when it has the audio of those before it; it is
\* answered for the audio it asked about.
Typed(r) ==
    /\ DOMAIN r = DOMAIN IdleSpeech
    /\ r.of \in Seq(SpeechSentences) /\ r.todo \subseteq 1..Len(r.of)
    /\ r.assets \in [SpeechSentences -> Asset] /\ r.answer \in [SpeechSentences -> Nat]

Asking(r) ==
    /\ Typed(r)
    /\ r.pc \in Gathering \cup Aligning \cup {"idle"}
    /\ r.pc = "idle" => r = IdleSpeech
    /\ r.pc # "idle" => r.todo # {}
    /\ r.pc \in Gathering => \A n \in (1..Len(r.of)) \ r.todo : r.assets[r.of[n]].audio # Missing
    /\ r.pc \in Aligning => \A n \in 1..Len(r.of) : r.assets[r.of[n]].audio # Missing
    /\ r.pc \in {"load_alignment", "audio_open", "audio_write"} => r.assets[r.of[Least(r.todo)]].audio # Missing
    /\ r.pc \in {"keep", "alignment_open", "alignment_write"} =>
          \A n \in r.todo : r.answer[r.of[n]] \in {Missing, r.assets[r.of[n]].audio}
    /\ r.pc \in {"alignment_open", "alignment_write"} =>
          r.assets[r.of[Least(r.todo)]].alignment = r.assets[r.of[Least(r.todo)]].audio

\* An asset of a sentence is that of the object, or none.
Own(s, asset) == asset = NoAsset \/ (Coherent(asset) /\ asset.audio = object[s].audio)

Writes(q, s) == speech[q].pc = "alignment_write" /\ Current(q) = s /\ speech[q].linked

\* Who makes the audio of s alone has what nobody else has yet.
Makes(q, s) ==
    LET asset == speech[q].assets[s]
    IN  /\ speech[q].pc = "synthesize" => object[s].audio = Missing /\ asset = NoAsset
        /\ speech[q].pc # "synthesize" => Whole(asset.audio) /\ asset.alignment = Missing
        /\ speech[q].pc = "audio_open" => object[s].audio = Missing
        /\ speech[q].pc = "audio_write" => object[s].audio = Partial /\ speech[q].linked

Stored(s) ==
    \/ StoredIsCoherent(s)
    \/ /\ object[s] = [audio |-> Partial, alignment |-> Missing]
       /\ \E q \in Making(s) : speech[q].pc = "audio_write"
    \/ /\ Whole(object[s].audio) /\ object[s].alignment = Partial
       /\ \E q \in SpeechRequests : Writes(q, s)

SentenceInv(s) ==
    /\ \A p, q \in Making(s) : p = q
    /\ \A q \in SpeechRequests : IF q \in Making(s) THEN Makes(q, s) ELSE Own(s, speech[q].assets[s])
    /\ Own(s, cache.entries[s])
    /\ Stored(s)

SpeechInv ==
    /\ DOMAIN speech = SpeechRequests /\ object \in [SpeechSentences -> Asset]
    /\ syntheses \in Nat
    /\ CacheInv(cache)
    /\ \A q \in SpeechRequests : Asking(speech[q])
    /\ \A s \in SpeechSentences \ disturbed : SentenceInv(s)

-----------------------------------------------------------------------------
LEMMA LeastIs ==
    ASSUME NEW ns \in SUBSET Nat, ns # {}
    PROVE  Least(ns) \in ns /\ \A m \in ns : Least(ns) <= m
<1>1. \E n \in ns : \A m \in ns : n <= m
  BY LeastNumber
<1>. QED  BY <1>1 DEF Least

\* The bytes of an entry are counted one by one.
Bytes(keys, entries) == UNION {{k} \X (1..AssetSize(entries[k])) : k \in keys}

LEMMA Sizes ==
    /\ \A asset : AssetSize(asset) \in Nat
    /\ AssetSize(NoAsset) = 0
  BY DEF AssetSize, NoAsset, Missing

LEMMA OneSize ==
    ASSUME NEW k, NEW n \in Nat
    PROVE  IsFiniteSet({k} \X (1..n)) /\ Cardinality({k} \X (1..n)) = n
<1>1. IsFiniteSet({k}) /\ Cardinality({k}) = 1
  BY FS_Singleton
<1>2. IsFiniteSet(1..n) /\ Cardinality(1..n) = n
  BY FS_Interval
<1>3. \A S, T : IsFiniteSet(S) /\ IsFiniteSet(T)
          => IsFiniteSet(S \X T) /\ Cardinality(S \X T) = Cardinality(S) * Cardinality(T)
  BY FS_Product
<1>4. IsFiniteSet({k} \X (1..n)) /\ Cardinality({k} \X (1..n)) = Cardinality({k}) * Cardinality(1..n)
  BY <1>1, <1>2, <1>3
<1>. QED  BY <1>1, <1>2, <1>4

LEMMA BytesAreFinite ==
    ASSUME NEW keys, IsFiniteSet(keys), NEW entries
    PROVE  IsFiniteSet(Bytes(keys, entries)) /\ SizeOf(keys, entries) \in Nat
<1>. DEFINE F == [k \in keys |-> {k} \X (1..AssetSize(entries[k]))]
            T == {{k} \X (1..AssetSize(entries[k])) : k \in keys}
<1>1. F \in Surjection(keys, T)
  BY DEF Surjection
<1>2. \A t \in T : IsFiniteSet(t)
  BY Sizes, OneSize
<1>. HIDE DEF F, T
<1>3. IsFiniteSet(T)
  BY <1>1, FS_Surjection
<1>4. IsFiniteSet(UNION T)
  BY <1>2, <1>3, FS_UNION
<1>5. IsFiniteSet(Bytes(keys, entries))
  BY <1>4 DEF T, Bytes
<1>6. SizeOf(keys, entries) = Cardinality(Bytes(keys, entries))
  BY DEF SizeOf, Bytes
<1>. QED  BY <1>5, <1>6, FS_CardinalityType

LEMMA SizesAdd ==
    ASSUME NEW keys, IsFiniteSet(keys), NEW others, IsFiniteSet(others), keys \cap others = {}, NEW entries
    PROVE  SizeOf(keys \cup others, entries) = SizeOf(keys, entries) + SizeOf(others, entries)
<1>1. /\ IsFiniteSet(Bytes(keys, entries)) /\ SizeOf(keys, entries) \in Nat
      /\ IsFiniteSet(Bytes(others, entries)) /\ SizeOf(others, entries) \in Nat
  BY BytesAreFinite
<1>2. Bytes(keys \cup others, entries) = Bytes(keys, entries) \cup Bytes(others, entries)
  BY DEF Bytes
<1>3. Bytes(keys, entries) \cap Bytes(others, entries) = {}
  <2>1. ASSUME NEW b \in Bytes(keys, entries), b \in Bytes(others, entries) PROVE FALSE
    <3>1. PICK k \in keys : b \in {k} \X (1..AssetSize(entries[k]))
      BY DEF Bytes
    <3>2. PICK z \in others : b \in {z} \X (1..AssetSize(entries[z]))
      BY <2>1 DEF Bytes
    <3>3. b[1] = k /\ b[1] = z
      BY <3>1, <3>2
    <3>. QED  BY <3>3
  <2>. QED  BY <2>1
<1>4. \A K : SizeOf(K, entries) = Cardinality(Bytes(K, entries))
  BY DEF SizeOf, Bytes
<1>5. PICK S, T : S = Bytes(keys, entries) /\ T = Bytes(others, entries)
  OBVIOUS
<1>6. Cardinality(S \cup T) = Cardinality(S) + Cardinality(T) - Cardinality(S \cap T)
  BY <1>1, <1>5, FS_Union
<1>7. Cardinality(S \cap T) = 0
  BY <1>3, <1>5, FS_EmptySet
<1>8. PICK m, n \in Nat : m = SizeOf(keys, entries) /\ n = SizeOf(others, entries)
  BY <1>1
<1>9. Cardinality(S \cup T) = m + n
  BY <1>4, <1>5, <1>6, <1>7, <1>8
<1>10. SizeOf(keys \cup others, entries) = m + n
  BY <1>2, <1>4, <1>5, <1>9
<1>. QED  BY <1>8, <1>10

LEMMA SizeOfOne ==
    ASSUME NEW k, NEW entries
    PROVE  SizeOf({k}, entries) = AssetSize(entries[k]) /\ SizeOf({}, entries) = 0
<1>1. UNION {{z} \X (1..AssetSize(entries[z])) : z \in {k}} = {k} \X (1..AssetSize(entries[k]))
  OBVIOUS
<1>2. UNION {{z} \X (1..AssetSize(entries[z])) : z \in {}} = {}
  OBVIOUS
<1>3. PICK n \in Nat : n = AssetSize(entries[k])
  BY Sizes
<1>4. SizeOf({k}, entries) = n
  BY <1>1, <1>3, OneSize DEF SizeOf
<1>5. SizeOf({}, entries) = 0
  BY <1>2, FS_EmptySet DEF SizeOf
<1>. QED  BY <1>3, <1>4, <1>5

LEMMA SameSize ==
    ASSUME NEW keys, NEW entries, NEW others, \A k \in keys : others[k] = entries[k]
    PROVE  SizeOf(keys, others) = SizeOf(keys, entries)
<1>1. \A k \in keys : {k} \X (1..AssetSize(others[k])) = {k} \X (1..AssetSize(entries[k]))
  OBVIOUS
<1>2. {{k} \X (1..AssetSize(others[k])) : k \in keys} = {{k} \X (1..AssetSize(entries[k])) : k \in keys}
  BY <1>1
<1>. QED  BY <1>2 DEF SizeOf

LEMMA KeysAreFinite ==
    ASSUME NEW S, NEW order \in Seq(S)
    PROVE  IsFiniteSet(KeysOf(order)) /\ KeysOf(order) \subseteq S
<1>1. PICK n \in Nat : n = Len(order)
  OBVIOUS
<1>2. IsFiniteSet(1..n)
  BY FS_Interval
<1>. DEFINE F == [m \in 1..n |-> order[m]]
<1>3. F \in Surjection(1..n, KeysOf(order))
  BY <1>1 DEF Surjection, KeysOf
<1>. HIDE DEF F
<1>4. IsFiniteSet(KeysOf(order))
  BY <1>2, <1>3, FS_Surjection
<1>5. KeysOf(order) \subseteq S
  BY DEF KeysOf
<1>. QED  BY <1>4, <1>5

-----------------------------------------------------------------------------
\* What is left of an order when the entry of s goes, and then n more.
Removed(order, s, old) ==
    /\ old \in Seq(SpeechSentences) /\ Len(old) <= Len(order)
    /\ \A m, n \in 1..Len(old) : old[m] = old[n] => m = n
    /\ KeysOf(old) = KeysOf(order) \ {s}

LEMMA RemovedFrom ==
    ASSUME NEW order \in Seq(SpeechSentences), NEW s,
           \A m, n \in 1..Len(order) : order[m] = order[n] => m = n,
           NEW at, at = CHOOSE n \in 1..Len(order) : order[n] = s
    PROVE  Removed(order, s, IF s \notin KeysOf(order) THEN order
                             ELSE [n \in 1..(Len(order) - 1) |-> IF n < at THEN order[n] ELSE order[n + 1]])
<1>1. CASE s \notin KeysOf(order)
  BY <1>1 DEF Removed
<1>2. CASE s \in KeysOf(order)
  <2>. DEFINE old == [n \in 1..(Len(order) - 1) |-> IF n < at THEN order[n] ELSE order[n + 1]]
  <2>1. PICK size \in Nat : size = Len(order)
    OBVIOUS
  <2>2. at \in 1..size /\ order[at] = s
    BY <1>2, <2>1 DEF KeysOf
  <2>3. old \in Seq(SpeechSentences) /\ Len(old) = size - 1
    BY <2>1, <2>2
  <2>4. \A n \in 1..(size - 1) : old[n] = IF n < at THEN order[n] ELSE order[n + 1]
    BY <2>1
  <2>. HIDE DEF old
  <2>5. \A m, n \in 1..(size - 1) : old[m] = old[n] => m = n
    <3>. SUFFICES ASSUME NEW m \in 1..(size - 1), NEW n \in 1..(size - 1), old[m] = old[n] PROVE m = n
      OBVIOUS
    <3>1. /\ m \in 1..size /\ m + 1 \in 1..size /\ n \in 1..size /\ n + 1 \in 1..size
          /\ m < at => old[m] = order[m]
          /\ ~(m < at) => old[m] = order[m + 1]
          /\ n < at => old[n] = order[n]
          /\ ~(n < at) => old[n] = order[n + 1]
      BY <2>4
    <3>2. \A k, z \in 1..size : order[k] = order[z] => k = z
      BY <2>1
    <3>3. CASE m < at /\ n < at
      BY <3>1, <3>2, <3>3
    <3>4. CASE m < at /\ ~(n < at)
      <4>1. m = n + 1
        BY <3>1, <3>2, <3>4
      <4>. QED  BY <2>2, <3>4, <4>1
    <3>5. CASE ~(m < at) /\ n < at
      <4>1. m + 1 = n
        BY <3>1, <3>2, <3>5
      <4>. QED  BY <2>2, <3>5, <4>1
    <3>6. CASE ~(m < at) /\ ~(n < at)
      <4>1. m + 1 = n + 1
        BY <3>1, <3>2, <3>6
      <4>. QED  BY <4>1
    <3>. QED  BY <3>3, <3>4, <3>5, <3>6
  <2>6. ASSUME NEW k PROVE k \in KeysOf(old) <=> k \in KeysOf(order) \ {s}
    <3>1. ASSUME k \in KeysOf(old) PROVE k \in KeysOf(order) \ {s}
      <4>1. PICK n \in 1..(size - 1) : k = old[n]
        BY <2>3, <3>1 DEF KeysOf
      <4>2. CASE n < at
        BY <2>1, <2>2, <2>4, <4>1, <4>2 DEF KeysOf
      <4>3. CASE ~(n < at)
        <5>1. n + 1 \in 1..size /\ n + 1 # at /\ k = order[n + 1]
          BY <2>1, <2>2, <2>4, <4>1, <4>3
        <5>. QED  BY <2>1, <2>2, <5>1 DEF KeysOf
      <4>. QED  BY <4>2, <4>3
    <3>2. ASSUME k \in KeysOf(order) \ {s} PROVE k \in KeysOf(old)
      <4>1. PICK n \in 1..size : k = order[n] /\ n # at
        BY <2>1, <2>2, <3>2 DEF KeysOf
      <4>2. CASE n < at
        <5>1. n \in 1..(size - 1) /\ old[n] = k
          BY <2>2, <2>4, <4>1, <4>2
        <5>. QED  BY <2>3, <5>1 DEF KeysOf
      <4>3. CASE ~(n < at)
        <5>1. n - 1 \in 1..(size - 1) /\ ~(n - 1 < at) /\ (n - 1) + 1 = n
          BY <2>2, <4>1, <4>3
        <5>2. old[n - 1] = k
          BY <2>4, <4>1, <5>1
        <5>. QED  BY <2>3, <5>1, <5>2 DEF KeysOf
      <4>. QED  BY <4>2, <4>3
    <3>. QED  BY <3>1, <3>2
  <2>7. Removed(order, s, old)
    BY <2>1, <2>2, <2>3, <2>5, <2>6 DEF Removed
  <2>. QED  BY <1>2, <2>7 DEF old
<1>. QED  BY <1>1, <1>2

RestOf(old, n) == [m \in 1..(Len(old) - n) |-> old[m + n]]

LEMMA RestIs ==
    ASSUME NEW old \in Seq(SpeechSentences), \A m, n \in 1..Len(old) : old[m] = old[n] => m = n,
           NEW n \in 0..Len(old)
    PROVE  LET rest == RestOf(old, n)
               gone == {old[m] : m \in 1..n}
           IN  /\ rest \in Seq(SpeechSentences) /\ Len(rest) = Len(old) - n
               /\ \A k, m \in 1..Len(rest) : rest[k] = rest[m] => k = m
               /\ KeysOf(rest) \cup gone = KeysOf(old) /\ KeysOf(rest) \cap gone = {}
               /\ IsFiniteSet(KeysOf(rest)) /\ IsFiniteSet(gone)
<1>. DEFINE rest == RestOf(old, n)
            gone == {old[m] : m \in 1..n}
<1>1. PICK size \in Nat : size = Len(old)
  OBVIOUS
<1>2. n \in Nat /\ n <= size
  BY <1>1
<1>3. rest \in Seq(SpeechSentences) /\ Len(rest) = size - n /\ \A m \in 1..(size - n) : rest[m] = old[m + n]
  BY <1>1, <1>2 DEF RestOf
<1>. HIDE DEF rest
<1>4. \A k, m \in 1..(size - n) : rest[k] = rest[m] => k = m
  <2>. SUFFICES ASSUME NEW k \in 1..(size - n), NEW m \in 1..(size - n), rest[k] = rest[m] PROVE k = m
    OBVIOUS
  <2>1. k + n \in 1..size /\ m + n \in 1..size
    BY <1>2
  <2>2. k + n = m + n
    BY <1>1, <1>3, <2>1
  <2>. QED  BY <1>2, <2>2
<1>5. KeysOf(rest) \cup gone = KeysOf(old)
  <2>1. ASSUME NEW k \in KeysOf(rest) PROVE k \in KeysOf(old)
    <3>1. PICK m \in 1..(size - n) : k = old[m + n]
      BY <1>3 DEF KeysOf
    <3>2. m + n \in 1..size
      BY <1>2
    <3>. QED  BY <1>1, <3>1, <3>2 DEF KeysOf
  <2>2. ASSUME NEW k \in gone PROVE k \in KeysOf(old)
    BY <1>1, <1>2 DEF KeysOf
  <2>3. ASSUME NEW k \in KeysOf(old) PROVE k \in KeysOf(rest) \cup gone
    <3>1. PICK m \in 1..size : k = old[m]
      BY <1>1 DEF KeysOf
    <3>2. CASE m <= n
      BY <3>1, <3>2
    <3>3. CASE ~(m <= n)
      <4>1. m - n \in 1..(size - n) /\ (m - n) + n = m
        BY <1>2, <3>3
      <4>2. rest[m - n] = k
        BY <1>3, <3>1, <4>1
      <4>. QED  BY <1>3, <4>1, <4>2 DEF KeysOf
    <3>. QED  BY <3>2, <3>3
  <2>. QED  BY <2>1, <2>2, <2>3
<1>6. KeysOf(rest) \cap gone = {}
  <2>1. ASSUME NEW k \in KeysOf(rest), k \in gone PROVE FALSE
    <3>1. PICK m \in 1..(size - n) : k = old[m + n]
      BY <1>3 DEF KeysOf
    <3>2. PICK z \in 1..n : k = old[z]
      BY <2>1
    <3>3. m + n \in 1..size /\ z \in 1..size /\ m + n # z
      BY <1>2
    <3>. QED  BY <1>1, <3>1, <3>2, <3>3
  <2>. QED  BY <2>1
<1>7. IsFiniteSet(KeysOf(rest))
  BY <1>3, KeysAreFinite
<1>8. IsFiniteSet(gone)
  <2>1. IsFiniteSet(KeysOf(old)) /\ gone \subseteq KeysOf(old)
    BY <1>5, KeysAreFinite
  <2>. QED  BY <2>1, FS_Subset
<1>. QED  BY <1>1, <1>3, <1>4, <1>5, <1>6, <1>7, <1>8 DEF rest

LEMMA AppendedKeys ==
    ASSUME NEW rest \in Seq(SpeechSentences), \A k, m \in 1..Len(rest) : rest[k] = rest[m] => k = m,
           NEW s \in SpeechSentences, s \notin KeysOf(rest)
    PROVE  LET order == Append(rest, s)
           IN  /\ order \in Seq(SpeechSentences) /\ Len(order) = Len(rest) + 1
               /\ \A k, m \in 1..Len(order) : order[k] = order[m] => k = m
               /\ KeysOf(order) = KeysOf(rest) \cup {s}
<1>. DEFINE order == Append(rest, s)
<1>1. PICK size \in Nat : size = Len(rest)
  OBVIOUS
<1>2. /\ order \in Seq(SpeechSentences) /\ Len(order) = size + 1
      /\ \A m \in 1..size : order[m] = rest[m]
      /\ order[size + 1] = s
  BY <1>1
<1>. HIDE DEF order
<1>3. \A m \in 1..size : rest[m] # s
  BY <1>1 DEF KeysOf
<1>4. \A m \in 1..(size + 1) : m \in 1..size \/ m = size + 1
  OBVIOUS
<1>5. \A k, m \in 1..(size + 1) : order[k] = order[m] => k = m
  BY <1>1, <1>2, <1>3, <1>4
<1>6. KeysOf(order) = KeysOf(rest) \cup {s}
  <2>1. \A m \in 1..size : m \in 1..(size + 1)
    OBVIOUS
  <2>2. size + 1 \in 1..(size + 1)
    OBVIOUS
  <2>. QED  BY <1>1, <1>2, <1>4, <2>1, <2>2 DEF KeysOf
<1>. QED  BY <1>1, <1>2, <1>5, <1>6 DEF order

LEMMA PutKeeps ==
    ASSUME NEW c, CacheInv(c), NEW s \in SpeechSentences, NEW asset \in Asset, asset.audio # Missing
    PROVE  /\ CacheInv(Put(c, s, asset))
           /\ \A k \in SpeechSentences :
                  \/ Put(c, s, asset).entries[k] \in {c.entries[k], NoAsset}
                  \/ k = s /\ Put(c, s, asset).entries[k] = asset
<1>. DEFINE at == CHOOSE n \in 1..Len(c.order) : c.order[n] = s
<1>1. PICK old : old = IF s \notin KeysOf(c.order) THEN c.order
                       ELSE [n \in 1..(Len(c.order) - 1) |-> IF n < at THEN c.order[n] ELSE c.order[n + 1]]
  OBVIOUS
<1>2. Removed(c.order, s, old)
  BY <1>1, RemovedFrom DEF CacheInv
<1>. DEFINE size == AssetSize(asset)
            free == c.used - AssetSize(c.entries[s])
            Holds(n) == [k \in SpeechSentences |-> IF k \in KeysOf(RestOf(old, n)) THEN c.entries[k] ELSE NoAsset]
            Used(n) == free - SizeOf({old[m] : m \in 1..n}, c.entries)
            fits == {n \in 0..Len(old) : n = Len(old) \/ (Len(old) - n < MaxEntries /\ Used(n) + size <= MaxBytes)}
            evicted == Least(fits)
<1>3. Put(c, s, asset) = IF size > MaxBytes THEN [order |-> old, entries |-> Holds(0), used |-> free]
                         ELSE [order   |-> Append(RestOf(old, evicted), s),
                               entries |-> [Holds(evicted) EXCEPT ![s] = asset],
                               used    |-> Used(evicted) + size]
  BY <1>1 DEF Put, RestOf
<1>. HIDE DEF at
<1>4. free \in Nat /\ free = SizeOf(KeysOf(old), c.entries) /\ free <= c.used
  <2>1. /\ IsFiniteSet(KeysOf(old)) /\ SizeOf(KeysOf(old), c.entries) \in Nat
    BY <1>2, KeysAreFinite, BytesAreFinite DEF Removed
  <2>2. CASE s \in KeysOf(c.order)
    <3>1. KeysOf(c.order) = KeysOf(old) \cup {s} /\ KeysOf(old) \cap {s} = {}
      BY <1>2, <2>2 DEF Removed
    <3>2. IsFiniteSet({s})
      BY FS_Singleton
    <3>3. SizeOf(KeysOf(c.order), c.entries) = SizeOf(KeysOf(old), c.entries) + SizeOf({s}, c.entries)
      BY <2>1, <3>1, <3>2, SizesAdd
    <3>4. c.used = SizeOf(KeysOf(old), c.entries) + AssetSize(c.entries[s])
      BY <3>3, SizeOfOne DEF CacheInv
    <3>. QED  BY <2>1, <3>4, Sizes
  <2>3. CASE s \notin KeysOf(c.order)
    <3>1. c.entries[s] = NoAsset /\ old = c.order
      BY <1>1, <2>3 DEF CacheInv
    <3>2. c.used = SizeOf(KeysOf(old), c.entries)
      BY <3>1 DEF CacheInv
    <3>. QED  BY <2>1, <3>1, <3>2, Sizes
  <2>. QED  BY <2>2, <2>3
<1>5. \A n \in 0..Len(old) :
         LET rest == RestOf(old, n)
         IN  /\ rest \in Seq(SpeechSentences) /\ Len(rest) = Len(old) - n
             /\ \A k, m \in 1..Len(rest) : rest[k] = rest[m] => k = m
             /\ KeysOf(rest) \subseteq KeysOf(old) /\ IsFiniteSet(KeysOf(rest))
             /\ Used(n) = SizeOf(KeysOf(rest), c.entries) /\ Used(n) \in Nat /\ Used(n) <= free
  <2>. TAKE n \in 0..Len(old)
  <2>1. PICK rest : rest = RestOf(old, n)
    OBVIOUS
  <2>2. PICK gone : gone = {old[m] : m \in 1..n}
    OBVIOUS
  <2>3. /\ rest \in Seq(SpeechSentences) /\ Len(rest) = Len(old) - n
        /\ \A k, m \in 1..Len(rest) : rest[k] = rest[m] => k = m
        /\ KeysOf(rest) \cup gone = KeysOf(old) /\ KeysOf(rest) \cap gone = {}
        /\ IsFiniteSet(KeysOf(rest)) /\ IsFiniteSet(gone)
    BY <1>2, <2>1, <2>2, RestIs DEF Removed
  <2>4. SizeOf(KeysOf(old), c.entries) = SizeOf(KeysOf(rest), c.entries) + SizeOf(gone, c.entries)
    BY <2>3, SizesAdd
  <2>5. SizeOf(KeysOf(rest), c.entries) \in Nat /\ SizeOf(gone, c.entries) \in Nat
    BY <2>3, BytesAreFinite
  <2>6. Used(n) = free - SizeOf(gone, c.entries)
    BY <2>2
  <2>. HIDE DEF free, Used
  <2>7. Used(n) = SizeOf(KeysOf(rest), c.entries) /\ Used(n) \in Nat /\ Used(n) <= free
    BY <1>4, <2>4, <2>5, <2>6
  <2>. QED  BY <2>1, <2>3, <2>7
<1>6. \A n \in 0..Len(old) :
         /\ Holds(n) \in [SpeechSentences -> Asset]
         /\ \A k \in SpeechSentences : Holds(n)[k] \in {c.entries[k], NoAsset}
         /\ \A k \in KeysOf(RestOf(old, n)) : Holds(n)[k] = c.entries[k]
         /\ KeysOf(RestOf(old, n)) = {k \in SpeechSentences : Holds(n)[k] # NoAsset}
  <2>. TAKE n \in 0..Len(old)
  <2>1. KeysOf(RestOf(old, n)) \subseteq KeysOf(c.order) /\ KeysOf(c.order) = {k \in SpeechSentences : c.entries[k] # NoAsset}
    BY <1>2, <1>5 DEF Removed, CacheInv
  <2>2. NoAsset \in Asset /\ c.entries \in [SpeechSentences -> Asset]
    BY DEF NoAsset, Asset, Missing, CacheInv
  <2>3. PICK keys : keys = KeysOf(RestOf(old, n))
    OBVIOUS
  <2>. QED  BY <2>1, <2>2, <2>3
<1>. DEFINE Kept(d) == \A k \in SpeechSentences :
                  \/ d.entries[k] \in {c.entries[k], NoAsset}
                  \/ k = s /\ d.entries[k] = asset
<1>7. CASE size > MaxBytes
  <2>1. PICK d : d = Put(c, s, asset)
    OBVIOUS
  <2>2. d.order = old /\ d.entries = Holds(0) /\ d.used = free
    BY <1>3, <1>7, <2>1
  <2>3. 0 \in 0..Len(old) /\ KeysOf(RestOf(old, 0)) = KeysOf(old)
    <3>1. {old[m] : m \in 1..0} = {}
      OBVIOUS
    <3>2. 0 \in 0..Len(old)
      BY <1>2 DEF Removed
    <3>3. KeysOf(RestOf(old, 0)) \cup {old[m] : m \in 1..0} = KeysOf(old)
      BY <1>2, <3>2, RestIs, Zenon DEF Removed
    <3>. QED  BY <3>1, <3>2, <3>3
  <2>4. /\ Holds(0) \in [SpeechSentences -> Asset]
        /\ \A k \in SpeechSentences : Holds(0)[k] \in {c.entries[k], NoAsset}
        /\ \A k \in KeysOf(old) : Holds(0)[k] = c.entries[k]
        /\ KeysOf(old) = {k \in SpeechSentences : Holds(0)[k] # NoAsset}
    BY <1>6, <2>3
  <2>. HIDE DEF Holds, free
  <2>5. SizeOf(KeysOf(old), Holds(0)) = free
    BY <1>4, <2>4, SameSize
  <2>6. Kept(d)
    BY <2>2, <2>4
  <2>7. /\ c.used \in Nat /\ c.used <= MaxBytes /\ Len(c.order) <= MaxEntries
        /\ \A k \in SpeechSentences : c.entries[k] = NoAsset \/ c.entries[k].audio # Missing
    <3>1. SizeOf(KeysOf(c.order), c.entries) \in Nat
      BY KeysAreFinite, BytesAreFinite DEF CacheInv
    <3>. QED  BY <3>1 DEF CacheInv
  <2>8. free <= MaxBytes /\ Len(old) <= MaxEntries
    <3>1. PICK m, n \in Nat : m = Len(old) /\ n = Len(c.order)
      BY <1>2 DEF Removed, CacheInv
    <3>2. m <= n /\ n <= MaxEntries
      BY <1>2, <2>7, <3>1 DEF Removed
    <3>. QED  BY <1>4, <2>7, <3>1, <3>2, SpeechAssumption
  <2>9. CacheInv(d)
    <3>1. \A k \in SpeechSentences : d.entries[k] = NoAsset \/ d.entries[k].audio # Missing
      BY <2>2, <2>4, <2>7
    <3>2. /\ d.order \in Seq(SpeechSentences) /\ \A m, n \in 1..Len(d.order) : d.order[m] = d.order[n] => m = n
      BY <1>2, <2>2 DEF Removed
    <3>3. /\ d.used = SizeOf(KeysOf(d.order), d.entries) /\ Len(d.order) <= MaxEntries /\ d.used <= MaxBytes
          /\ d.entries \in [SpeechSentences -> Asset] /\ KeysOf(d.order) = {k \in SpeechSentences : d.entries[k] # NoAsset}
      BY <2>2, <2>4, <2>5, <2>8
    <3>. QED  BY <3>1, <3>2, <3>3 DEF CacheInv
  <2>. QED  BY <2>1, <2>6, <2>9
<1>8. CASE ~(size > MaxBytes)
  <2>1. PICK e : e = evicted
    OBVIOUS
  <2>2. e \in fits
    <3>1. Len(old) \in fits /\ fits \in SUBSET Nat
      BY <1>2 DEF Removed
    <3>. HIDE DEF fits
    <3>. QED  BY <2>1, <3>1, LeastIs
  <2>3. e \in 0..Len(old) /\ (e = Len(old) \/ (Len(old) - e < MaxEntries /\ Used(e) + size <= MaxBytes))
    BY <2>2
  <2>4. PICK rest : rest = RestOf(old, e)
    OBVIOUS
  <2>5. PICK d : d = Put(c, s, asset)
    OBVIOUS
  <2>. HIDE DEF fits
  <2>6. /\ d.order = Append(rest, s) /\ d.used = Used(e) + size
        /\ d.entries = [[k \in SpeechSentences |-> IF k \in KeysOf(rest) THEN c.entries[k] ELSE NoAsset] EXCEPT ![s] = asset]
    <3>1. d = [order   |-> Append(RestOf(old, evicted), s),
               entries |-> [Holds(evicted) EXCEPT ![s] = asset],
               used    |-> Used(evicted) + size]
      BY <1>3, <1>8, <2>5
    <3>. QED  BY <2>1, <2>4, <3>1
  <2>. PICK entries : entries = Holds(e)
    OBVIOUS
  <2>7. /\ entries \in [SpeechSentences -> Asset]
        /\ \A k \in SpeechSentences : entries[k] \in {c.entries[k], NoAsset}
        /\ \A k \in KeysOf(rest) : entries[k] = c.entries[k]
        /\ KeysOf(rest) = {k \in SpeechSentences : entries[k] # NoAsset}
    BY <1>6, <2>3, <2>4
  <2>8. /\ rest \in Seq(SpeechSentences) /\ Len(rest) = Len(old) - e
        /\ \A k, m \in 1..Len(rest) : rest[k] = rest[m] => k = m
        /\ KeysOf(rest) \subseteq KeysOf(old) /\ IsFiniteSet(KeysOf(rest))
        /\ Used(e) = SizeOf(KeysOf(rest), c.entries) /\ Used(e) \in Nat
    BY <1>5, <2>3, <2>4
  <2>9. s \notin KeysOf(rest)
    BY <1>2, <2>8 DEF Removed
  <2>10. /\ d.order \in Seq(SpeechSentences) /\ Len(d.order) = Len(rest) + 1
         /\ \A k, m \in 1..Len(d.order) : d.order[k] = d.order[m] => k = m
         /\ KeysOf(d.order) = KeysOf(rest) \cup {s}
    BY <2>6, <2>8, <2>9, AppendedKeys
  <2>11. d.entries = [entries EXCEPT ![s] = asset]
    BY <2>4, <2>6
  <2>. HIDE DEF Holds, free, Used, fits, evicted, size
  <2>12. /\ d.entries \in [SpeechSentences -> Asset] /\ d.entries[s] = asset
         /\ \A k \in SpeechSentences \ {s} : d.entries[k] = entries[k]
    BY <2>7, <2>11
  <2>13. asset # NoAsset
    BY DEF NoAsset
  <2>14. KeysOf(d.order) = {k \in SpeechSentences : d.entries[k] # NoAsset}
    BY <2>7, <2>10, <2>12, <2>13
  <2>15. \A k \in SpeechSentences : d.entries[k] = NoAsset \/ d.entries[k].audio # Missing
    BY <2>7, <2>12 DEF CacheInv
  <2>16. d.used = SizeOf(KeysOf(d.order), d.entries)
    <3>1. IsFiniteSet({s}) /\ KeysOf(rest) \cap {s} = {}
      BY <2>9, FS_Singleton
    <3>2. SizeOf(KeysOf(d.order), d.entries) = SizeOf(KeysOf(rest), d.entries) + SizeOf({s}, d.entries)
      BY <2>8, <2>10, <3>1, SizesAdd
    <3>3. \A k \in KeysOf(rest) : d.entries[k] = c.entries[k]
      BY <2>7, <2>9, <2>12
    <3>4. SizeOf(KeysOf(rest), d.entries) = Used(e)
      BY <2>8, <3>3, SameSize
    <3>5. SizeOf({s}, d.entries) = size
      BY <2>12, SizeOfOne DEF size
    <3>. QED  BY <2>6, <3>2, <3>4, <3>5
  <2>17. size \in Nat /\ size <= MaxBytes
    BY <1>8, Sizes, SpeechAssumption DEF size
  <2>18. Len(d.order) <= MaxEntries /\ d.used <= MaxBytes
    <3>1. PICK n \in Nat : n = Len(old)
      BY <1>2 DEF Removed
    <3>2. CASE e = n
      <4>1. Len(rest) = 0
        BY <2>8, <3>1, <3>2
      <4>2. KeysOf(rest) = {}
        BY <4>1 DEF KeysOf
      <4>3. Used(e) = 0
        BY <2>8, <4>2, SizeOfOne
      <4>. QED  BY <2>6, <2>10, <2>17, <4>1, <4>3, SpeechAssumption
    <3>3. CASE e # n
      BY <2>3, <2>6, <2>8, <2>10, <2>17, <3>1, <3>3, SpeechAssumption
    <3>. QED  BY <3>2, <3>3
  <2>19. CacheInv(d)
    BY <2>10, <2>12, <2>14, <2>15, <2>16, <2>18 DEF CacheInv
  <2>20. Kept(d)
    BY <2>7, <2>12
  <2>. QED  BY <2>5, <2>19, <2>20
<1>. QED  BY <1>7, <1>8

-----------------------------------------------------------------------------
\* A request from one sentence to the next.
LEMMA IdleIsAsking == Asking(IdleSpeech)
<1>1. <<>> \in Seq(SpeechSentences) /\ Len(<<>>) = 0
  OBVIOUS
<1>. QED  BY <1>1 DEF Asking, Typed, IdleSpeech, Gathering, Aligning, Asset, NoAsset, Missing

LEMMA CurrentIs ==
    ASSUME NEW r, Asking(r), r.pc # "idle"
    PROVE  /\ Least(r.todo) \in r.todo /\ Least(r.todo) \in 1..Len(r.of)
           /\ r.of[Least(r.todo)] \in SpeechSentences
           /\ \A n \in r.todo : r.of[n] \in SpeechSentences
           /\ \A n \in 1..Len(r.of) : r.of[n] \in SpeechSentences
<1>1. r.of \in Seq(SpeechSentences) /\ r.todo \subseteq 1..Len(r.of) /\ r.todo # {}
  BY DEF Asking, Typed
<1>2. r.todo \in SUBSET Nat
  BY <1>1
<1>3. Least(r.todo) \in r.todo
  BY <1>1, <1>2, LeastIs
<1>. QED  BY <1>1, <1>3

LEMMA AdvancedIs ==
    ASSUME NEW r, Typed(r), r.todo # {}, r.pc \in {"get", "load_alignment", "aligned"},
           \A n \in (1..Len(r.of)) \ (r.todo \ {Least(r.todo)}) : r.assets[r.of[n]].audio # Missing,
           r.pc = "aligned" => /\ \A n \in 1..Len(r.of) : r.assets[r.of[n]].audio # Missing
                               /\ \A n \in r.todo : r.answer[r.of[n]] \in {Missing, r.assets[r.of[n]].audio}
    PROVE  /\ Asking(Advanced(r))
           /\ Advanced(r).pc \in {"idle", "get", "align", "keep"}
           /\ \A s \in SpeechSentences : Advanced(r).assets[s] \in {r.assets[s], NoAsset}
<1>1. PICK rest : rest = r.todo \ {Least(r.todo)}
  OBVIOUS
<1>2. PICK unaligned : unaligned = {n \in 1..Len(r.of) : r.assets[r.of[n]].alignment = Missing}
  OBVIOUS
<1>3. Advanced(r) = IF rest # {} THEN [r EXCEPT !.todo = rest, !.pc = IF r.pc = "aligned" THEN "keep" ELSE "get"]
                    ELSE IF r.pc # "aligned" /\ r.want = "alignment" /\ unaligned # {}
                    THEN [r EXCEPT !.todo = unaligned, !.pc = "align"]
                    ELSE IdleSpeech
  BY <1>1, <1>2 DEF Advanced
<1>4. DOMAIN r = {"pc", "want", "of", "todo", "assets", "answer", "linked"}
  BY DEF Typed, IdleSpeech
<1>5. CASE rest # {}
  <2>1. PICK next : next = Advanced(r)
    OBVIOUS
  <2>2. /\ next.of = r.of /\ next.assets = r.assets /\ next.answer = r.answer /\ next.todo = rest
        /\ next.pc = IF r.pc = "aligned" THEN "keep" ELSE "get"
        /\ DOMAIN next = DOMAIN r
    BY <1>3, <1>4, <1>5, <2>1
  <2>3. Typed(next)
    BY <1>1, <2>2 DEF Typed
  <2>4. rest \subseteq r.todo
    BY <1>1
  <2>5. CASE r.pc = "aligned"
    BY <1>5, <2>2, <2>3, <2>4, <2>5, <2>1 DEF Asking, Gathering, Aligning
  <2>6. CASE r.pc # "aligned"
    BY <1>1, <1>5, <2>2, <2>3, <2>6, <2>1 DEF Asking, Gathering, Aligning
  <2>. QED  BY <2>5, <2>6
<1>6. CASE rest = {} /\ r.pc # "aligned" /\ r.want = "alignment" /\ unaligned # {}
  <2>1. PICK next : next = Advanced(r)
    OBVIOUS
  <2>2. /\ next.of = r.of /\ next.assets = r.assets /\ next.answer = r.answer /\ next.todo = unaligned
        /\ next.pc = "align"
        /\ DOMAIN next = DOMAIN r
    BY <1>3, <1>4, <1>6, <2>1
  <2>3. Typed(next)
    BY <1>2, <2>2 DEF Typed
  <2>4. \A n \in 1..Len(r.of) : r.assets[r.of[n]].audio # Missing
    BY <1>1, <1>6
  <2>. QED  BY <1>6, <2>1, <2>2, <2>3, <2>4 DEF Asking, Gathering, Aligning
<1>7. CASE ~(rest # {}) /\ ~(rest = {} /\ r.pc # "aligned" /\ r.want = "alignment" /\ unaligned # {})
  <2>1. Advanced(r) = IdleSpeech
    BY <1>3, <1>7
  <2>. QED  BY <2>1, IdleIsAsking DEF IdleSpeech
<1>. QED  BY <1>5, <1>6, <1>7

-----------------------------------------------------------------------------
\* A sentence whose audio stays, and one whose audio is being made.
LEMMA AudioStays ==
    ASSUME NEW s \in SpeechSentences, NEW q \in SpeechRequests, SentenceInv(s),
           object'[s].audio = object[s].audio, Stored(s)',
           Own(s, cache'.entries[s]), Own(s, speech'[q].assets[s]),
           q \notin Making(s), q \notin Making(s)',
           \A p \in SpeechRequests \ {q} :
               /\ speech'[p].pc = speech[p].pc /\ speech'[p].of = speech[p].of /\ speech'[p].todo = speech[p].todo
               /\ speech'[p].assets = speech[p].assets
               /\ p \in Making(s) => speech'[p].linked = speech[p].linked
    PROVE  SentenceInv(s)'
<1>1. \A asset : Own(s, asset) => (asset = NoAsset \/ (Coherent(asset) /\ asset.audio = object'[s].audio))
  BY DEF Own
<1>2. \A p \in SpeechRequests : p \in Making(s)' <=> p \in Making(s)
  BY DEF Making, Current
<1>3. \A p \in Making(s) : p \in SpeechRequests /\ p # q
  BY DEF Making
<1>4. \A p \in Making(s)' : p \in SpeechRequests
  BY DEF Making
<1>5. \A p, z \in Making(s)' : p = z
  BY <1>2, <1>4 DEF SentenceInv
<1>6. \A p \in Making(s)' : Makes(p, s)'
  <2>. TAKE p \in Making(s)'
  <2>1. p \in Making(s) /\ p \in SpeechRequests /\ p # q
    BY <1>2, <1>3, <1>4
  <2>2. Makes(p, s)
    BY <2>1 DEF SentenceInv
  <2>. QED  BY <2>1, <2>2 DEF Makes
<1>7. \A p \in SpeechRequests : p \notin Making(s)' => Own(s, speech[p].assets[s])' 
  <2>. SUFFICES ASSUME NEW p \in SpeechRequests, p \notin Making(s)' PROVE Own(s, speech[p].assets[s])'
    OBVIOUS
  <2>1. Own(s, speech'[p].assets[s])
    <3>1. CASE p = q
      BY <3>1
    <3>2. CASE p # q
      BY <1>2, <3>2 DEF SentenceInv
    <3>. QED  BY <3>1, <3>2
  <2>. QED  BY <1>1, <2>1 DEF Own
<1>8. Own(s, cache.entries[s])'
  BY <1>1 DEF Own
<1>. QED  BY <1>5, <1>6, <1>7, <1>8 DEF SentenceInv

LEMMA MakerIsAlone ==
    ASSUME NEW s \in SpeechSentences, SentenceInv(s), NEW q \in Making(s)
    PROVE  /\ Makes(q, s) /\ cache.entries[s] = NoAsset
           /\ speech[q].pc \in {"synthesize", "audio_open"} => object[s] = [audio |-> Missing, alignment |-> Missing]
           /\ speech[q].pc = "audio_write" => object[s] = [audio |-> Partial, alignment |-> Missing]
           /\ \A p \in SpeechRequests \ {q} : p \notin Making(s) /\ speech[p].assets[s] = NoAsset
<1>1. q \in SpeechRequests /\ speech[q].pc \in {"synthesize", "audio_open", "audio_write"}
  BY DEF Making
<1>2. Makes(q, s)
  BY <1>1 DEF SentenceInv
<1>3. object[s].audio \in {Missing, Partial}
  BY <1>1, <1>2 DEF Makes
<1>4. ~Whole(object[s].audio) /\ Missing # Partial
  BY <1>3, SpeechAssumption DEF Whole, Missing, Partial
<1>5. \A asset : Own(s, asset) => asset = NoAsset
  BY <1>4 DEF Own, Coherent
<1>6. \A p \in SpeechRequests \ {q} : p \notin Making(s) /\ speech[p].assets[s] = NoAsset
  BY <1>5 DEF SentenceInv
<1>7. \/ object[s] = [audio |-> Missing, alignment |-> Missing]
      \/ object[s] = [audio |-> Partial, alignment |-> Missing]
  BY <1>4 DEF SentenceInv, Stored, StoredIsCoherent
<1>8. cache.entries[s] = NoAsset
  BY <1>5 DEF SentenceInv
<1>9. /\ speech[q].pc \in {"synthesize", "audio_open"} => object[s].audio = Missing
      /\ speech[q].pc = "audio_write" => object[s].audio = Partial
  BY <1>2 DEF Makes
<1>. QED  BY <1>2, <1>4, <1>6, <1>7, <1>8, <1>9

LEMMA MakerGoes ==
    ASSUME NEW s \in SpeechSentences, SentenceInv(s), NEW q \in Making(s), Stored(s)',
           Own(s, cache.entries[s])',
           IF q \in Making(s)' THEN Makes(q, s)' ELSE Own(s, speech[q].assets[s])',
           \A p \in SpeechRequests \ {q} :
               /\ speech'[p].pc = speech[p].pc /\ speech'[p].of = speech[p].of /\ speech'[p].todo = speech[p].todo
               /\ speech'[p].assets = speech[p].assets
    PROVE  SentenceInv(s)'
<1>1. \A p \in SpeechRequests \ {q} : p \notin Making(s) /\ speech[p].assets[s] = NoAsset
  BY MakerIsAlone
<1>2. \A p \in SpeechRequests \ {q} : p \notin Making(s)'
  BY <1>1 DEF Making, Current
<1>3. \A p \in SpeechRequests \ {q} : Own(s, speech[p].assets[s])'
  BY <1>1 DEF Own
<1>4. \A p \in Making(s)' : p \in SpeechRequests
  BY DEF Making
<1>. QED  BY <1>2, <1>3, <1>4 DEF SentenceInv

MakingPcs == {"synthesize", "audio_open", "audio_write"}

LEMMA StoredStays ==
    ASSUME NEW s \in SpeechSentences, NEW q \in SpeechRequests, Stored(s), object'[s] = object[s],
           q \notin Making(s), ~Writes(q, s),
           \A p \in SpeechRequests \ {q} :
               /\ speech'[p].pc = speech[p].pc /\ speech'[p].of = speech[p].of /\ speech'[p].todo = speech[p].todo
               /\ Current(p) = s => speech'[p].linked = speech[p].linked
    PROVE  Stored(s)'
<1>1. \A p \in SpeechRequests \ {q} : p \in Making(s) => p \in Making(s)'
  BY DEF Making, Current
<1>2. \A p \in SpeechRequests \ {q} : Writes(p, s) => Writes(p, s)'
  BY DEF Writes, Current
<1>3. \A p \in Making(s) : p \in SpeechRequests \ {q}
  BY DEF Making
<1>4. CASE StoredIsCoherent(s)
  BY <1>4 DEF Stored, StoredIsCoherent
<1>5. CASE /\ object[s] = [audio |-> Partial, alignment |-> Missing]
           /\ \E p \in Making(s) : speech[p].pc = "audio_write"
  <2>1. PICK p \in Making(s) : speech[p].pc = "audio_write"
    BY <1>5
  <2>2. p \in Making(s)' /\ speech'[p].pc = "audio_write"
    BY <1>1, <1>3, <2>1
  <2>. QED  BY <1>5, <2>2 DEF Stored
<1>6. CASE /\ Whole(object[s].audio) /\ object[s].alignment = Partial
           /\ \E p \in SpeechRequests : Writes(p, s)
  <2>1. PICK p \in SpeechRequests : Writes(p, s)
    BY <1>6
  <2>2. Writes(p, s)'
    BY <1>2, <2>1
  <2>. QED  BY <1>6, <2>2 DEF Stored
<1>. QED  BY <1>4, <1>5, <1>6 DEF Stored

\* A step of q leaves the sentences alone that it is not at.
LEMMA Elsewhere ==
    ASSUME NEW s \in SpeechSentences, NEW q \in SpeechRequests, SentenceInv(s),
           object'[s] = object[s], cache'.entries[s] \in {cache.entries[s], NoAsset},
           speech'[q].assets[s] \in {speech[q].assets[s], NoAsset},
           q \notin Making(s), ~Writes(q, s), q \notin Making(s)',
           \A p \in SpeechRequests \ {q} :
               /\ speech'[p].pc = speech[p].pc /\ speech'[p].of = speech[p].of /\ speech'[p].todo = speech[p].todo
               /\ speech'[p].assets = speech[p].assets
               /\ Current(p) = s => speech'[p].linked = speech[p].linked
    PROVE  SentenceInv(s)'
<1>1. Stored(s)'
  BY StoredStays DEF SentenceInv
<1>2. Own(s, cache'.entries[s]) /\ Own(s, speech'[q].assets[s])
  BY DEF SentenceInv, Own
<1>3. \A p \in Making(s) : Current(p) = s
  BY DEF Making
<1>. QED  BY <1>1, <1>2, <1>3, AudioStays

LEMMA OneGoes ==
    ASSUME SpeechInv, NEW q \in SpeechRequests, NEW r, speech' = [speech EXCEPT ![q] = r]
    PROVE  DOMAIN speech' = SpeechRequests /\ speech'[q] = r /\ \A p \in SpeechRequests \ {q} : speech'[p] = speech[p]
  BY DEF SpeechInv

LEMMA StepKeeps ==
    ASSUME SpeechInv, NEW q \in SpeechRequests, NEW r, speech' = [speech EXCEPT ![q] = r], Asking(r),
           object' \in [SpeechSentences -> Asset], syntheses' \in Nat, CacheInv(cache'),
           \A s \in SpeechSentences \ disturbed' : SentenceInv(s)'
    PROVE  SpeechInv'
<1>1. \A p \in SpeechRequests : Asking(speech'[p])
  BY OneGoes DEF SpeechInv
<1>. QED  BY <1>1, OneGoes DEF SpeechInv

\* A step of a request that neither makes nor writes, before and after.
LEMMA QuietStep ==
    ASSUME SpeechInv, NEW q \in SpeechRequests, NEW r, speech' = [speech EXCEPT ![q] = r], Asking(r),
           r.pc \notin MakingPcs, speech[q].pc \notin MakingPcs \cup {"alignment_write"},
           object' = object, syntheses' = syntheses, CacheInv(cache'), disturbed \subseteq disturbed',
           \A s \in SpeechSentences \ disturbed' :
               SentenceInv(s) => Own(s, cache'.entries[s]) /\ Own(s, r.assets[s])
    PROVE  SpeechInv'
<1>1. speech'[q] = r /\ \A p \in SpeechRequests \ {q} : speech'[p] = speech[p]
  BY OneGoes
<1>2. ASSUME NEW s \in SpeechSentences \ disturbed' PROVE SentenceInv(s)'
  <2>1. s \in SpeechSentences /\ SentenceInv(s)
    BY DEF SpeechInv
  <2>2. q \notin Making(s) /\ ~Writes(q, s) /\ q \notin Making(s)'
    BY <1>1 DEF Making, Writes, MakingPcs
  <2>3. Stored(s)'
    BY <1>1, <2>1, <2>2, StoredStays DEF SentenceInv
  <2>4. Own(s, cache'.entries[s]) /\ Own(s, speech'[q].assets[s])
    BY <1>1, <2>1
  <2>. QED  BY <1>1, <2>1, <2>2, <2>3, <2>4, AudioStays
<1>3. object' \in [SpeechSentences -> Asset] /\ syntheses' \in Nat
  BY DEF SpeechInv
<1>. QED  BY <1>2, <1>3, StepKeeps

LEMMA NothingIsOwn == \A s \in SpeechSentences : Own(s, NoAsset) /\ Own(s, IdleSpeech.assets[s])
  BY DEF Own, IdleSpeech

\* Requests that are refused, where nothing is being made.
LEMMA QuietRefusal ==
    ASSUME SpeechInv, NEW q \in SpeechRequests, Refuse(q), speech[q].pc \notin MakingPcs \cup {"alignment_write"},
           object' = object, syntheses' = syntheses, cache' = cache, disturbed \subseteq disturbed'
    PROVE  SpeechInv'
<1>1. speech' = [speech EXCEPT ![q] = IdleSpeech] /\ IdleSpeech.pc \notin MakingPcs
  BY DEF Refuse, IdleSpeech, MakingPcs
<1>2. CacheInv(cache')
  BY DEF SpeechInv
<1>3. \A s \in SpeechSentences : SentenceInv(s) => Own(s, cache'.entries[s])
  BY DEF SentenceInv
<1>. QED  BY <1>1, <1>2, <1>3, IdleIsAsking, NothingIsOwn, QuietStep

-----------------------------------------------------------------------------
LEMMA AskSpeechKeeps ==
    ASSUME SpeechInv, NEW q \in SpeechRequests, NEW asked \in SpeechAsked, AskSpeech(q, asked.want, asked.of)
    PROVE  SpeechInv'
<1>. DEFINE r == [IdleSpeech EXCEPT !.pc = "get", !.want = asked.want, !.of = asked.of, !.todo = 1..Len(asked.of)]
<1>1. /\ speech[q].pc = "idle" /\ speech' = [speech EXCEPT ![q] = r]
      /\ UNCHANGED <<object, cache, syntheses, disturbed>>
  BY DEF AskSpeech
<1>2. asked.of \in Seq(SpeechSentences) /\ asked.of # <<>>
  BY SpeechAssumption
<1>3. 1..Len(asked.of) # {}
  <2>1. \A list \in Seq(SpeechSentences) : list # <<>> => 1 \in 1..Len(list)
    OBVIOUS
  <2>. QED  BY <1>2, <2>1
<1>4. /\ r.pc = "get" /\ r.of = asked.of /\ r.todo = 1..Len(asked.of) /\ r.assets = IdleSpeech.assets
      /\ r.answer = IdleSpeech.answer /\ DOMAIN r = DOMAIN IdleSpeech
  BY DEF IdleSpeech
<1>. HIDE DEF r
<1>5. Typed(r)
  BY <1>2, <1>4, IdleIsAsking DEF Asking, Typed
<1>6. Asking(r)
  BY <1>3, <1>4, <1>5 DEF Asking, Gathering, Aligning
<1>7. CacheInv(cache') /\ \A s \in SpeechSentences : SentenceInv(s) => Own(s, cache'.entries[s]) /\ Own(s, r.assets[s])
  BY <1>1, <1>4, NothingIsOwn DEF SpeechInv, SentenceInv
<1>8. r.pc \notin MakingPcs /\ speech[q].pc \notin MakingPcs \cup {"alignment_write"}
  BY <1>1, <1>4 DEF MakingPcs
<1>. QED  BY <1>1, <1>6, <1>7, <1>8, QuietStep

LEMMA GetCachedKeeps ==
    ASSUME SpeechInv, NEW q \in SpeechRequests, GetCached(q)
    PROVE  SpeechInv'
<1>1. PICK s : s = Current(q)
  OBVIOUS
<1>2. PICK was : was = speech[q]
  OBVIOUS
<1>3. PICK r : r = [was EXCEPT !.assets[s] = cache.entries[s]]
  OBVIOUS
<1>4. /\ was.pc = "get"
      /\ speech' = [speech EXCEPT ![q] = IF s \in KeysOf(cache.order) THEN Advanced(r) ELSE [was EXCEPT !.pc = "load"]]
      /\ UNCHANGED <<object, cache, syntheses, disturbed>>
  BY <1>1, <1>2, <1>3 DEF GetCached
<1>5. Asking(was) /\ was.pc # "idle" /\ s = was.of[Least(was.todo)]
  BY <1>1, <1>2, <1>4 DEF SpeechInv, Current
<1>6. s \in SpeechSentences /\ Least(was.todo) \in was.todo /\ was.todo # {}
      /\ \A n \in 1..Len(was.of) : was.of[n] \in SpeechSentences
  BY <1>5, CurrentIs
<1>7. CacheInv(cache') /\ CacheInv(cache)
  BY <1>4 DEF SpeechInv
<1>8. speech[q].pc \notin MakingPcs \cup {"alignment_write"}
  BY <1>2, <1>4 DEF MakingPcs
<1>9. \A z \in SpeechSentences : SentenceInv(z) => Own(z, cache.entries[z]) /\ Own(z, was.assets[z])
  <2>1. \A z : q \notin Making(z)
    BY <1>8 DEF Making, MakingPcs
  <2>. QED  BY <1>2, <2>1 DEF SentenceInv
<1>10. CASE s \in KeysOf(cache.order)
  <2>1. PICK assets : assets = [was.assets EXCEPT ![s] = cache.entries[s]]
    OBVIOUS
  <2>2. DOMAIN was = {"pc", "want", "of", "todo", "assets", "answer", "linked"}
    BY <1>5 DEF Asking, Typed, IdleSpeech
  <2>3. r = [was EXCEPT !.assets = assets]
    BY <1>3, <2>1
  <2>4. /\ r.of = was.of /\ r.todo = was.todo /\ r.pc = "get" /\ r.assets = assets /\ r.answer = was.answer
        /\ DOMAIN r = DOMAIN was
    BY <1>4, <2>2, <2>3
  <2>5. cache.entries[s] \in Asset /\ cache.entries[s].audio # Missing
    BY <1>6, <1>7, <1>10 DEF CacheInv
  <2>6. /\ assets \in [SpeechSentences -> Asset] /\ assets[s] = cache.entries[s]
        /\ \A z \in SpeechSentences \ {s} : assets[z] = was.assets[z]
    BY <1>5, <1>6, <2>1, <2>5 DEF Asking, Typed
  <2>7. Typed(r)
    BY <1>5, <2>4, <2>6 DEF Asking, Typed
  <2>8. \A n \in (1..Len(was.of)) \ was.todo : was.assets[was.of[n]].audio # Missing
    BY <1>4, <1>5 DEF Asking, Gathering
  <2>9. \A n \in (1..Len(r.of)) \ (r.todo \ {Least(r.todo)}) : r.assets[r.of[n]].audio # Missing
    BY <1>5, <1>6, <2>4, <2>5, <2>6, <2>8
  <2>10. /\ Asking(Advanced(r)) /\ Advanced(r).pc \in {"idle", "get", "align", "keep"}
         /\ \A z \in SpeechSentences : Advanced(r).assets[z] \in {r.assets[z], NoAsset}
    BY <1>6, <2>4, <2>7, <2>9, AdvancedIs
  <2>11. \A z \in SpeechSentences : SentenceInv(z) => Own(z, cache'.entries[z]) /\ Own(z, Advanced(r).assets[z])
    BY <1>4, <1>9, <2>4, <2>6, <2>10, NothingIsOwn
  <2>12. speech' = [speech EXCEPT ![q] = Advanced(r)] /\ Advanced(r).pc \notin MakingPcs
    BY <1>4, <1>10, <2>10 DEF MakingPcs
  <2>. QED  BY <1>4, <1>7, <1>8, <2>10, <2>11, <2>12, QuietStep
<1>11. CASE s \notin KeysOf(cache.order)
  <2>1. PICK next : next = [was EXCEPT !.pc = "load"]
    OBVIOUS
  <2>2. DOMAIN was = {"pc", "want", "of", "todo", "assets", "answer", "linked"}
    BY <1>5 DEF Asking, Typed, IdleSpeech
  <2>3. /\ next.of = was.of /\ next.todo = was.todo /\ next.pc = "load" /\ next.assets = was.assets
        /\ next.answer = was.answer /\ DOMAIN next = DOMAIN was
    BY <2>1, <2>2
  <2>4. Asking(next)
    BY <1>4, <1>5, <2>3 DEF Asking, Typed, Gathering, Aligning
  <2>5. speech' = [speech EXCEPT ![q] = next] /\ next.pc \notin MakingPcs
    BY <1>4, <1>11, <2>1, <2>3 DEF MakingPcs
  <2>. QED  BY <1>4, <1>7, <1>8, <1>9, <2>3, <2>4, <2>5, QuietStep
<1>. QED  BY <1>10, <1>11

LEMMA LoadAudioKeeps ==
    ASSUME SpeechInv, NEW q \in SpeechRequests, LoadAudio(q)
    PROVE  SpeechInv'
<1>1. PICK s : s = Current(q)
  OBVIOUS
<1>2. PICK was : was = speech[q]
  OBVIOUS
<1>3. /\ was.pc = "load" /\ UNCHANGED <<object, cache, syntheses>>
      /\ disturbed' = IF Making(s) = {} THEN disturbed ELSE disturbed \cup {s}
      /\ \/ object[s].audio = Missing /\ speech' = [speech EXCEPT ![q].pc = "synthesize"]
         \/ /\ object[s].audio # Missing
            /\ speech' = [speech EXCEPT ![q].pc = "load_alignment", ![q].assets[s].audio = object[s].audio]
         \/ Refuse(q)
  BY <1>1, <1>2 DEF LoadAudio
<1>4. Asking(was) /\ was.pc # "idle" /\ s = was.of[Least(was.todo)] /\ object \in [SpeechSentences -> Asset]
  BY <1>1, <1>2, <1>3 DEF SpeechInv, Current
<1>5. s \in SpeechSentences /\ Least(was.todo) \in was.todo /\ was.todo # {} /\ was.todo \subseteq 1..Len(was.of)
      /\ \A n \in 1..Len(was.of) : was.of[n] \in SpeechSentences
  BY <1>4, CurrentIs DEF Asking, Typed
<1>6. CacheInv(cache') /\ CacheInv(cache) /\ syntheses' \in Nat
  BY <1>3 DEF SpeechInv
<1>7. speech[q].pc \notin MakingPcs \cup {"alignment_write"} /\ disturbed \subseteq disturbed'
  BY <1>2, <1>3 DEF MakingPcs
<1>8. \A z : q \notin Making(z) /\ ~Writes(q, z)
  BY <1>7 DEF Making, MakingPcs, Writes
<1>9. \A z \in SpeechSentences : SentenceInv(z) => Own(z, cache.entries[z]) /\ Own(z, was.assets[z])
  BY <1>2, <1>8 DEF SentenceInv
<1>10. DOMAIN was = {"pc", "want", "of", "todo", "assets", "answer", "linked"}
  BY <1>4 DEF Asking, Typed, IdleSpeech
<1>11. \A n \in (1..Len(was.of)) \ was.todo : was.assets[was.of[n]].audio # Missing
  BY <1>3, <1>4 DEF Asking, Gathering
<1>12. CASE object[s].audio = Missing /\ speech' = [speech EXCEPT ![q].pc = "synthesize"]
  <2>1. PICK r : r = [was EXCEPT !.pc = "synthesize"]
    OBVIOUS
  <2>2. speech' = [speech EXCEPT ![q] = r]
    BY <1>2, <1>12, <2>1
  <2>3. /\ r.of = was.of /\ r.todo = was.todo /\ r.pc = "synthesize" /\ r.assets = was.assets
        /\ r.answer = was.answer /\ DOMAIN r = DOMAIN was
    BY <1>10, <2>1
  <2>4. Asking(r)
    BY <1>4, <1>11, <2>3 DEF Asking, Typed, Gathering, Aligning
  <2>5. speech'[q] = r /\ \A p \in SpeechRequests \ {q} : speech'[p] = speech[p]
    BY <2>2, OneGoes
  <2>6. ASSUME NEW z \in SpeechSentences \ disturbed' PROVE SentenceInv(z)'
    <3>1. z \in SpeechSentences /\ SentenceInv(z)
      BY <1>7 DEF SpeechInv
    <3>2. CASE z # s
      <4>1. q \notin Making(z)'
        BY <1>4, <2>3, <2>5, <3>2 DEF Making, Current
      <4>. QED  BY <1>2, <1>3, <1>8, <2>3, <2>5, <3>1, <4>1, Elsewhere
    <3>3. CASE z = s
      <4>1. Making(s) = {}
        BY <1>3, <3>3
      <4>2. \A p \in SpeechRequests \ {q} : p \notin Making(s)'
        BY <2>5, <4>1 DEF Making, Current
      <4>3. \A p \in Making(s)' : p = q
        BY <4>2 DEF Making
      <4>4. was.assets[s] = NoAsset /\ \A p \in SpeechRequests : Own(s, speech[p].assets[s])
        BY <1>9, <1>12, <3>1, <3>3, <4>1 DEF Own, Coherent, Whole, Missing, SentenceInv
      <4>5. Makes(q, s)'
        BY <1>3, <1>12, <2>3, <2>5, <4>4 DEF Makes
      <4>6. StoredIsCoherent(s)
        BY <1>12, <3>1, <3>3, <4>1 DEF SentenceInv, Stored, Whole, Missing
      <4>7. Stored(s)' /\ Own(s, cache.entries[s])'
        BY <1>3, <1>9, <3>1, <3>3, <4>6 DEF Stored, StoredIsCoherent, Own
      <4>8. \A p \in SpeechRequests : Own(s, speech'[p].assets[s])
        BY <2>3, <2>5, <1>2, <4>4
      <4>9. \A p \in SpeechRequests : Own(s, speech[p].assets[s])'
        BY <1>3, <4>8 DEF Own
      <4>. QED  BY <3>3, <4>3, <4>5, <4>7, <4>9 DEF SentenceInv
    <3>. QED  BY <3>2, <3>3
  <2>. QED  BY <1>3, <1>4, <1>6, <2>2, <2>4, <2>6, StepKeeps
<1>13. CASE /\ object[s].audio # Missing
            /\ speech' = [speech EXCEPT ![q].pc = "load_alignment", ![q].assets[s].audio = object[s].audio]
  <2>1. PICK found : found = object[s].audio
    OBVIOUS
  <2>2. PICK asset : asset = [was.assets[s] EXCEPT !.audio = found]
    OBVIOUS
  <2>3. PICK assets : assets = [was.assets EXCEPT ![s] = asset]
    OBVIOUS
  <2>4. PICK r : r = [was EXCEPT !.pc = "load_alignment", !.assets = assets]
    OBVIOUS
  <2>5. speech' = [speech EXCEPT ![q] = r]
    BY <1>2, <1>13, <2>1, <2>2, <2>3, <2>4
  <2>6. /\ r.of = was.of /\ r.todo = was.todo /\ r.pc = "load_alignment" /\ r.assets = assets
        /\ r.answer = was.answer /\ DOMAIN r = DOMAIN was
    BY <1>10, <2>4
  <2>7. was.assets[s] \in Asset /\ object[s] \in Asset /\ was.assets \in [SpeechSentences -> Asset]
    BY <1>4, <1>5 DEF Asking, Typed
  <2>8. found \in Nat /\ found # Missing /\ asset = [audio |-> found, alignment |-> was.assets[s].alignment]
    BY <1>13, <2>1, <2>2, <2>7 DEF Asset
  <2>9. asset \in Asset /\ asset.audio # Missing
    BY <2>7, <2>8 DEF Asset
  <2>10. /\ assets \in [SpeechSentences -> Asset] /\ assets[s] = asset
         /\ \A z \in SpeechSentences \ {s} : assets[z] = was.assets[z]
    BY <1>5, <2>3, <2>7, <2>9
  <2>11. Typed(r)
    BY <1>4, <2>6, <2>10 DEF Asking, Typed
  <2>12. \A n \in (1..Len(r.of)) \ r.todo : r.assets[r.of[n]].audio # Missing
    BY <1>5, <1>11, <2>6, <2>9, <2>10
  <2>13. Asking(r)
    BY <1>4, <1>5, <2>6, <2>9, <2>10, <2>11, <2>12 DEF Asking, Gathering, Aligning
  <2>14. ASSUME NEW z \in SpeechSentences \ disturbed', SentenceInv(z)
         PROVE  Own(z, cache'.entries[z]) /\ Own(z, r.assets[z])
    <3>1. CASE z # s
      BY <1>3, <1>9, <2>6, <2>10, <2>14, <3>1
    <3>2. CASE z = s
      <4>1. Making(s) = {}
        BY <1>3, <3>2
      <4>2. Whole(found)
        BY <2>1, <2>8, <2>14, <3>2, <4>1 DEF SentenceInv, Stored, StoredIsCoherent
      <4>3. Own(s, was.assets[s])
        BY <1>9, <2>14, <3>2
      <4>4. asset.alignment \in {Missing, found}
        BY <2>1, <2>8, <4>3 DEF Own, Coherent, NoAsset
      <4>5. Own(s, asset)
        BY <2>1, <2>8, <4>2, <4>4 DEF Own, Coherent
      <4>. QED  BY <1>3, <1>9, <2>6, <2>10, <2>14, <3>2, <4>5
    <3>. QED  BY <3>1, <3>2
  <2>15. r.pc \notin MakingPcs
    BY <2>6 DEF MakingPcs
  <2>. QED  BY <1>3, <1>6, <1>7, <2>5, <2>13, <2>14, <2>15, QuietStep
<1>14. CASE Refuse(q)
  BY <1>3, <1>7, <1>14, QuietRefusal
<1>. QED  BY <1>3, <1>12, <1>13, <1>14

LEMMA LoadAlignmentKeeps ==
    ASSUME SpeechInv, NEW q \in SpeechRequests, LoadAlignment(q)
    PROVE  SpeechInv'
<1>1. PICK s : s = Current(q)
  OBVIOUS
<1>2. PICK was : was = speech[q]
  OBVIOUS
<1>3. PICK found : found = object[s].alignment
  OBVIOUS
<1>4. PICK r : r = [was EXCEPT !.assets[s].alignment = found]
  OBVIOUS
<1>5. /\ was.pc = "load_alignment" /\ UNCHANGED <<object, syntheses, disturbed>>
      /\ \/ Refuse(q) /\ UNCHANGED cache
         \/ /\ found # Partial /\ speech' = [speech EXCEPT ![q] = Advanced(r)]
            /\ cache' = Put(cache, s, r.assets[s])
  BY <1>1, <1>2, <1>3, <1>4 DEF LoadAlignment
<1>6. Asking(was) /\ was.pc # "idle" /\ s = was.of[Least(was.todo)] /\ object \in [SpeechSentences -> Asset]
  BY <1>1, <1>2, <1>5 DEF SpeechInv, Current
<1>7. s \in SpeechSentences /\ Least(was.todo) \in was.todo /\ was.todo # {} /\ was.todo \subseteq 1..Len(was.of)
      /\ \A n \in 1..Len(was.of) : was.of[n] \in SpeechSentences
  BY <1>6, CurrentIs DEF Asking, Typed
<1>8. speech[q].pc \notin MakingPcs \cup {"alignment_write"}
  BY <1>2, <1>5 DEF MakingPcs
<1>9. CASE Refuse(q) /\ UNCHANGED cache
  BY <1>5, <1>8, <1>9, QuietRefusal
<1>10. CASE /\ found # Partial /\ speech' = [speech EXCEPT ![q] = Advanced(r)]
            /\ cache' = Put(cache, s, r.assets[s])
  <2>1. \A z : q \notin Making(z)
    BY <1>8 DEF Making, MakingPcs
  <2>2. \A z \in SpeechSentences : SentenceInv(z) => Own(z, cache.entries[z]) /\ Own(z, was.assets[z])
    BY <1>2, <2>1 DEF SentenceInv
  <2>3. DOMAIN was = {"pc", "want", "of", "todo", "assets", "answer", "linked"}
    BY <1>6 DEF Asking, Typed, IdleSpeech
  <2>4. PICK asset : asset = [was.assets[s] EXCEPT !.alignment = found]
    OBVIOUS
  <2>5. PICK assets : assets = [was.assets EXCEPT ![s] = asset]
    OBVIOUS
  <2>6. r = [was EXCEPT !.assets = assets]
    BY <1>4, <2>4, <2>5
  <2>7. /\ r.of = was.of /\ r.todo = was.todo /\ r.pc = "load_alignment" /\ r.assets = assets
        /\ r.answer = was.answer /\ DOMAIN r = DOMAIN was
    BY <1>5, <2>3, <2>6
  <2>8. was.assets[s] \in Asset /\ object[s] \in Asset /\ was.assets \in [SpeechSentences -> Asset]
        /\ was.assets[s].audio # Missing
    BY <1>5, <1>6, <1>7 DEF Asking, Typed
  <2>9. found \in Nat /\ asset = [audio |-> was.assets[s].audio, alignment |-> found]
    BY <1>3, <2>4, <2>8 DEF Asset
  <2>10. asset \in Asset /\ asset.audio # Missing
    BY <2>8, <2>9 DEF Asset
  <2>11. /\ assets \in [SpeechSentences -> Asset] /\ assets[s] = asset
         /\ \A z \in SpeechSentences \ {s} : assets[z] = was.assets[z]
    BY <1>7, <2>5, <2>8, <2>10
  <2>12. Typed(r)
    BY <1>6, <2>7, <2>11 DEF Asking, Typed
  <2>13. \A n \in (1..Len(was.of)) \ was.todo : was.assets[was.of[n]].audio # Missing
    BY <1>5, <1>6 DEF Asking, Gathering
  <2>14. \A n \in (1..Len(r.of)) \ (r.todo \ {Least(r.todo)}) : r.assets[r.of[n]].audio # Missing
    BY <1>6, <1>7, <2>7, <2>10, <2>11, <2>13
  <2>15. /\ Asking(Advanced(r)) /\ Advanced(r).pc \in {"idle", "get", "align", "keep"}
         /\ \A z \in SpeechSentences : Advanced(r).assets[z] \in {r.assets[z], NoAsset}
    BY <1>7, <2>7, <2>12, <2>14, AdvancedIs
  <2>16. CacheInv(cache)
    BY DEF SpeechInv
  <2>17. /\ CacheInv(cache')
         /\ \A z \in SpeechSentences : \/ cache'.entries[z] \in {cache.entries[z], NoAsset}
                                       \/ z = s /\ cache'.entries[z] = asset
    BY <1>7, <1>10, <2>7, <2>10, <2>11, <2>16, PutKeeps
  <2>18. ASSUME SentenceInv(s) PROVE Own(s, asset)
    <3>1. Coherent(was.assets[s]) /\ was.assets[s].audio = object[s].audio
      BY <1>7, <2>2, <2>8, <2>18 DEF Own, NoAsset, Missing
    <3>2. Whole(object[s].audio) /\ object[s].audio # Partial
      BY <3>1, SpeechAssumption DEF Coherent, Whole, Partial
    <3>3. found \in {Missing, object[s].audio}
      BY <1>3, <1>10, <2>18, <3>2 DEF SentenceInv, Stored, StoredIsCoherent
    <3>. QED  BY <2>9, <3>1, <3>2, <3>3 DEF Own, Coherent
  <2>19. \A z \in SpeechSentences : SentenceInv(z) => Own(z, cache'.entries[z]) /\ Own(z, r.assets[z])
    BY <1>7, <2>2, <2>7, <2>11, <2>17, <2>18, NothingIsOwn
  <2>20. \A z \in SpeechSentences : SentenceInv(z) => Own(z, cache'.entries[z]) /\ Own(z, Advanced(r).assets[z])
    BY <2>15, <2>19, NothingIsOwn
  <2>21. Advanced(r).pc \notin MakingPcs
    BY <2>15 DEF MakingPcs
  <2>. QED  BY <1>5, <1>8, <1>10, <2>15, <2>17, <2>20, <2>21, QuietStep
<1>. QED  BY <1>5, <1>9, <1>10

\* A request that makes the audio of s and then does not, or goes on with it; others are
\* not touched.
LEMMA MakerStep ==
    ASSUME SpeechInv, NEW q \in SpeechRequests, NEW r, speech' = [speech EXCEPT ![q] = r], Asking(r),
           NEW s \in SpeechSentences, s = Current(q), speech[q].pc \in MakingPcs,
           object' \in [SpeechSentences -> Asset], syntheses' \in Nat, CacheInv(cache'), disturbed' = disturbed,
           \A z \in SpeechSentences \ {s} :
               /\ object'[z] = object[z] /\ cache'.entries[z] \in {cache.entries[z], NoAsset}
               /\ r.assets[z] \in {speech[q].assets[z], NoAsset},
           r.pc \in MakingPcs => r.of[Least(r.todo)] = s,
           SentenceInv(s) => /\ Stored(s)' /\ Own(s, cache.entries[s])'
                             /\ IF r.pc \in MakingPcs THEN Makes(q, s)' ELSE Own(s, speech[q].assets[s])'
    PROVE  SpeechInv'
<1>1. speech'[q] = r /\ \A p \in SpeechRequests \ {q} : speech'[p] = speech[p]
  BY OneGoes
<1>2. ASSUME NEW z \in SpeechSentences \ disturbed' PROVE SentenceInv(z)'
  <2>1. z \in SpeechSentences /\ SentenceInv(z)
    BY DEF SpeechInv
  <2>2. CASE z # s
    <3>1. q \notin Making(z) /\ q \notin Making(z)' /\ ~Writes(q, z)
      BY <1>1, <2>2 DEF Making, Writes, MakingPcs, Current
    <3>. QED  BY <1>1, <2>1, <2>2, <3>1, Elsewhere
  <2>3. CASE z = s
    <3>1. q \in Making(s)
      BY DEF Making, MakingPcs
    <3>2. q \in Making(s)' <=> r.pc \in MakingPcs
      BY <1>1 DEF Making, MakingPcs, Current
    <3>3. IF q \in Making(s)' THEN Makes(q, s)' ELSE Own(s, speech[q].assets[s])'
      BY <2>1, <2>3, <3>2
    <3>. QED  BY <1>1, <2>1, <2>3, <3>1, <3>3, MakerGoes
  <2>. QED  BY <2>2, <2>3
<1>. QED  BY <1>2, StepKeeps

LEMMA MakerRefused ==
    ASSUME SpeechInv, NEW q \in SpeechRequests, Refuse(q), speech[q].pc \in {"synthesize", "audio_open"},
           UNCHANGED <<object, cache, disturbed>>, syntheses' = syntheses
    PROVE  SpeechInv'
<1>1. speech' = [speech EXCEPT ![q] = IdleSpeech] /\ IdleSpeech.pc \notin MakingPcs
  BY DEF Refuse, IdleSpeech, MakingPcs
<1>2. speech[q].pc \in MakingPcs /\ speech[q].pc # "idle" /\ Asking(speech[q])
  BY DEF SpeechInv, MakingPcs
<1>3. PICK s \in SpeechSentences : s = Current(q)
  BY <1>2, CurrentIs DEF Current
<1>4. /\ object' \in [SpeechSentences -> Asset] /\ syntheses' \in Nat /\ CacheInv(cache') /\ disturbed' = disturbed
  BY DEF SpeechInv
<1>5. ASSUME SentenceInv(s) PROVE Stored(s)' /\ Own(s, cache.entries[s])' /\ Own(s, speech[q].assets[s])'
  <2>1. q \in Making(s)
    BY <1>3 DEF Making
  <2>2. cache.entries[s] = NoAsset /\ object[s] = [audio |-> Missing, alignment |-> Missing]
    BY <1>5, <2>1, MakerIsAlone
  <2>3. speech'[q].assets[s] = NoAsset
    BY <1>1, OneGoes DEF IdleSpeech
  <2>. QED  BY <2>2, <2>3 DEF Stored, StoredIsCoherent, Own
<1>6. \A z \in SpeechSentences : IdleSpeech.assets[z] = NoAsset
  BY DEF IdleSpeech
<1>7. PICK r : r = IdleSpeech
  OBVIOUS
<1>8. /\ speech' = [speech EXCEPT ![q] = r] /\ Asking(r) /\ r.pc \notin MakingPcs
      /\ \A z \in SpeechSentences \ {s} :
            /\ object'[z] = object[z] /\ cache'.entries[z] \in {cache.entries[z], NoAsset}
            /\ r.assets[z] \in {speech[q].assets[z], NoAsset}
  BY <1>1, <1>6, <1>7, IdleIsAsking
<1>. QED  BY <1>2, <1>3, <1>4, <1>5, <1>8, MakerStep

LEMMA SynthesizeKeeps ==
    ASSUME SpeechInv, NEW q \in SpeechRequests, Synthesize(q)
    PROVE  SpeechInv'
<1>1. PICK s : s = Current(q)
  OBVIOUS
<1>2. PICK was : was = speech[q]
  OBVIOUS
<1>3. PICK asset : asset = [NoAsset EXCEPT !.audio = syntheses + 1]
  OBVIOUS
<1>4. /\ was.pc = "synthesize" /\ UNCHANGED <<object, cache, disturbed>>
      /\ \/ /\ syntheses < MaxSyntheses /\ syntheses' = syntheses + 1
            /\ speech' = [speech EXCEPT ![q].pc = "audio_open", ![q].assets[s] = asset]
         \/ Refuse(q) /\ syntheses' = syntheses
  BY <1>1, <1>2, <1>3 DEF Synthesize
<1>5. CASE Refuse(q) /\ syntheses' = syntheses
  BY <1>2, <1>4, <1>5, MakerRefused
<1>6. CASE /\ syntheses < MaxSyntheses /\ syntheses' = syntheses + 1
           /\ speech' = [speech EXCEPT ![q].pc = "audio_open", ![q].assets[s] = asset]
  <2>1. Asking(was) /\ was.pc # "idle" /\ s = was.of[Least(was.todo)] /\ object \in [SpeechSentences -> Asset]
    BY <1>1, <1>2, <1>4 DEF SpeechInv, Current
  <2>2. s \in SpeechSentences /\ \A n \in 1..Len(was.of) : was.of[n] \in SpeechSentences
    BY <2>1, CurrentIs
  <2>3. DOMAIN was = {"pc", "want", "of", "todo", "assets", "answer", "linked"}
    BY <2>1 DEF Asking, Typed, IdleSpeech
  <2>4. syntheses \in Nat /\ asset = [audio |-> syntheses + 1, alignment |-> Missing]
    BY <1>3 DEF SpeechInv, NoAsset
  <2>5. asset \in Asset /\ asset.audio # Missing /\ Whole(asset.audio) /\ asset.alignment = Missing
    BY <1>6, <2>4, SpeechAssumption DEF Asset, Missing, Whole
  <2>6. PICK assets : assets = [was.assets EXCEPT ![s] = asset]
    OBVIOUS
  <2>7. PICK r : r = [was EXCEPT !.pc = "audio_open", !.assets = assets]
    OBVIOUS
  <2>8. speech' = [speech EXCEPT ![q] = r]
    BY <1>2, <1>6, <2>6, <2>7
  <2>9. /\ r.of = was.of /\ r.todo = was.todo /\ r.pc = "audio_open" /\ r.assets = assets
        /\ r.answer = was.answer /\ DOMAIN r = DOMAIN was
    BY <2>3, <2>7
  <2>10. /\ assets \in [SpeechSentences -> Asset] /\ assets[s] = asset
         /\ \A z \in SpeechSentences \ {s} : assets[z] = was.assets[z]
    BY <2>1, <2>2, <2>5, <2>6 DEF Asking, Typed
  <2>11. \A n \in (1..Len(was.of)) \ was.todo : was.assets[was.of[n]].audio # Missing
    BY <1>4, <2>1 DEF Asking, Gathering
  <2>12. \A n \in (1..Len(r.of)) \ r.todo : r.assets[r.of[n]].audio # Missing
    BY <2>2, <2>5, <2>9, <2>10, <2>11
  <2>13. Typed(r)
    BY <2>1, <2>9, <2>10 DEF Asking, Typed
  <2>14. Asking(r)
    BY <2>1, <2>5, <2>9, <2>10, <2>12, <2>13 DEF Asking, Gathering, Aligning
  <2>15. ASSUME SentenceInv(s) PROVE Stored(s)' /\ Own(s, cache.entries[s])' /\ Makes(q, s)'
    <3>1. q \in Making(s) /\ speech[q].pc = "synthesize"
      BY <1>1, <1>2, <1>4 DEF Making
    <3>2. cache.entries[s] = NoAsset /\ object[s] = [audio |-> Missing, alignment |-> Missing]
      BY <2>2, <2>15, <3>1, MakerIsAlone
    <3>3. speech'[q].assets[s] = asset /\ speech'[q].pc = "audio_open"
      BY <2>8, <2>9, <2>10, OneGoes
    <3>4. object' = object /\ cache' = cache
      BY <1>4
    <3>5. Makes(q, s)'
      BY <2>5, <3>2, <3>3, <3>4 DEF Makes
    <3>. QED  BY <3>2, <3>4, <3>5 DEF Stored, StoredIsCoherent, Own
  <2>16. /\ object' \in [SpeechSentences -> Asset] /\ syntheses' \in Nat /\ CacheInv(cache') /\ disturbed' = disturbed
    BY <1>4, <1>6, <2>1, <2>4 DEF SpeechInv
  <2>17. \A z \in SpeechSentences \ {s} :
               /\ object'[z] = object[z] /\ cache'.entries[z] \in {cache.entries[z], NoAsset}
               /\ r.assets[z] \in {speech[q].assets[z], NoAsset}
    BY <1>2, <1>4, <2>9, <2>10
  <2>18. r.pc \in MakingPcs /\ speech[q].pc \in MakingPcs /\ r.of[Least(r.todo)] = s
    BY <1>2, <1>4, <2>1, <2>9 DEF MakingPcs
  <2>. QED  BY <1>1, <2>2, <2>8, <2>14, <2>15, <2>16, <2>17, <2>18, MakerStep
<1>. QED  BY <1>4, <1>5, <1>6

LEMMA AlignBatchKeeps ==
    ASSUME SpeechInv, NEW q \in SpeechRequests, AlignBatch(q)
    PROVE  SpeechInv'
<1>1. PICK was : was = speech[q]
  OBVIOUS
<1>2. /\ was.pc = "align" /\ UNCHANGED <<object, cache, syntheses, disturbed>>
      /\ \/ \E answered \in SUBSET {was.of[n] : n \in was.todo} :
                 speech' = [speech EXCEPT ![q].pc = "keep", ![q].answer =
                        [s \in SpeechSentences |-> IF s \in answered THEN was.assets[s].audio ELSE Missing]]
         \/ Refuse(q)
  BY <1>1 DEF AlignBatch
<1>3. speech[q].pc \notin MakingPcs \cup {"alignment_write"} /\ disturbed \subseteq disturbed'
  BY <1>1, <1>2 DEF MakingPcs
<1>4. CASE Refuse(q)
  BY <1>2, <1>3, <1>4, QuietRefusal
<1>5. CASE \E answered \in SUBSET {was.of[n] : n \in was.todo} :
                 speech' = [speech EXCEPT ![q].pc = "keep", ![q].answer =
                        [s \in SpeechSentences |-> IF s \in answered THEN was.assets[s].audio ELSE Missing]]
  <2>. PICK answered \in SUBSET {was.of[n] : n \in was.todo} :
                 speech' = [speech EXCEPT ![q].pc = "keep", ![q].answer =
                        [s \in SpeechSentences |-> IF s \in answered THEN was.assets[s].audio ELSE Missing]]
    BY <1>5
  <2>. PICK answer : answer = [s \in SpeechSentences |-> IF s \in answered THEN was.assets[s].audio ELSE Missing]
    OBVIOUS
  <2>1. /\ answer = [s \in SpeechSentences |-> IF s \in answered THEN was.assets[s].audio ELSE Missing]
        /\ speech' = [speech EXCEPT ![q].pc = "keep", ![q].answer = answer]
    OBVIOUS
  <2>2. PICK r : r = [was EXCEPT !.pc = "keep", !.answer = answer]
    OBVIOUS
  <2>3. speech' = [speech EXCEPT ![q] = r]
    BY <1>1, <2>1, <2>2
  <2>4. Asking(was)
    BY <1>1 DEF SpeechInv
  <2>5. DOMAIN was = {"pc", "want", "of", "todo", "assets", "answer", "linked"}
    BY <2>4 DEF Asking, Typed, IdleSpeech
  <2>6. /\ r.of = was.of /\ r.todo = was.todo /\ r.pc = "keep" /\ r.assets = was.assets
        /\ r.answer = answer /\ DOMAIN r = DOMAIN was
    BY <2>2, <2>5
  <2>7. was.assets \in [SpeechSentences -> Asset]
    BY <2>4 DEF Asking, Typed
  <2>8. answer \in [SpeechSentences -> Nat] /\ \A s \in SpeechSentences : answer[s] \in {Missing, was.assets[s].audio}
    BY <2>1, <2>7 DEF Asset, Missing
  <2>9. Typed(r)
    BY <2>4, <2>6, <2>8 DEF Asking, Typed
  <2>10. was.pc # "idle" /\ was.todo # {} /\ \A n \in was.todo : was.of[n] \in SpeechSentences
    BY <1>2, <2>4, CurrentIs DEF Asking
  <2>11. \A n \in 1..Len(was.of) : was.assets[was.of[n]].audio # Missing
    BY <1>2, <2>4 DEF Asking, Aligning
  <2>12. Asking(r)
    BY <2>6, <2>8, <2>9, <2>10, <2>11 DEF Asking, Gathering, Aligning
  <2>13. \A s \in SpeechSentences : SentenceInv(s) => Own(s, cache'.entries[s]) /\ Own(s, r.assets[s])
    <3>1. \A s : q \notin Making(s)
      BY <1>3 DEF Making, MakingPcs
    <3>. QED  BY <1>1, <1>2, <2>6, <3>1 DEF SentenceInv
  <2>14. r.pc \notin MakingPcs /\ CacheInv(cache')
    BY <1>2, <2>6 DEF MakingPcs, SpeechInv
  <2>. QED  BY <1>2, <1>3, <2>3, <2>12, <2>13, <2>14, QuietStep
<1>. QED  BY <1>2, <1>4, <1>5

LEMMA KeepAlignmentKeeps ==
    ASSUME SpeechInv, NEW q \in SpeechRequests, KeepAlignment(q)
    PROVE  SpeechInv'
<1>1. PICK s : s = Current(q)
  OBVIOUS
<1>2. PICK was : was = speech[q]
  OBVIOUS
<1>3. /\ was.pc = "keep" /\ UNCHANGED <<object, cache, syntheses, disturbed>>
      /\ \/ Refuse(q)
         \/ /\ was.answer[s] # Missing
            /\ speech' = [speech EXCEPT ![q].pc = "alignment_open", ![q].assets[s].alignment = was.answer[s]]
  BY <1>1, <1>2 DEF KeepAlignment
<1>4. speech[q].pc \notin MakingPcs \cup {"alignment_write"} /\ disturbed \subseteq disturbed'
  BY <1>2, <1>3 DEF MakingPcs
<1>5. CASE Refuse(q)
  BY <1>3, <1>4, <1>5, QuietRefusal
<1>6. CASE /\ was.answer[s] # Missing
           /\ speech' = [speech EXCEPT ![q].pc = "alignment_open", ![q].assets[s].alignment = was.answer[s]]
  <2>1. Asking(was) /\ was.pc # "idle" /\ s = was.of[Least(was.todo)]
    BY <1>1, <1>2, <1>3 DEF SpeechInv, Current
  <2>2. s \in SpeechSentences /\ Least(was.todo) \in was.todo /\ was.todo # {}
        /\ \A n \in 1..Len(was.of) : was.of[n] \in SpeechSentences
    BY <2>1, CurrentIs
  <2>3. DOMAIN was = {"pc", "want", "of", "todo", "assets", "answer", "linked"}
    BY <2>1 DEF Asking, Typed, IdleSpeech
  <2>4. was.answer[s] = was.assets[s].audio
    BY <1>3, <1>6, <2>1, <2>2 DEF Asking
  <2>5. PICK asset : asset = [was.assets[s] EXCEPT !.alignment = was.answer[s]]
    OBVIOUS
  <2>6. PICK assets : assets = [was.assets EXCEPT ![s] = asset]
    OBVIOUS
  <2>7. PICK r : r = [was EXCEPT !.pc = "alignment_open", !.assets = assets]
    OBVIOUS
  <2>8. speech' = [speech EXCEPT ![q] = r]
    BY <1>2, <1>6, <2>5, <2>6, <2>7
  <2>9. /\ r.of = was.of /\ r.todo = was.todo /\ r.pc = "alignment_open" /\ r.assets = assets
        /\ r.answer = was.answer /\ DOMAIN r = DOMAIN was
    BY <2>3, <2>7
  <2>10. was.assets \in [SpeechSentences -> Asset] /\ was.assets[s] \in Asset
    BY <2>1, <2>2 DEF Asking, Typed
  <2>11. asset = [audio |-> was.assets[s].audio, alignment |-> was.assets[s].audio] /\ asset \in Asset
    BY <2>4, <2>5, <2>10 DEF Asset
  <2>12. /\ assets \in [SpeechSentences -> Asset] /\ assets[s] = asset
         /\ \A z \in SpeechSentences \ {s} : assets[z] = was.assets[z]
         /\ \A z \in SpeechSentences : assets[z].audio = was.assets[z].audio
    BY <2>2, <2>6, <2>10, <2>11
  <2>13. Typed(r)
    BY <2>1, <2>9, <2>12 DEF Asking, Typed
  <2>14. /\ \A n \in 1..Len(was.of) : was.assets[was.of[n]].audio # Missing
         /\ \A n \in was.todo : was.of[n] \in SpeechSentences
                                /\ was.answer[was.of[n]] \in {Missing, was.assets[was.of[n]].audio}
    BY <1>3, <2>1, CurrentIs DEF Asking, Aligning
  <2>15. /\ \A n \in 1..Len(r.of) : r.assets[r.of[n]].audio # Missing
         /\ \A n \in r.todo : r.answer[r.of[n]] \in {Missing, r.assets[r.of[n]].audio}
         /\ r.assets[r.of[Least(r.todo)]].alignment = r.assets[r.of[Least(r.todo)]].audio
    <3>1. \A n \in 1..Len(was.of) : was.of[n] \in SpeechSentences /\ was.assets[was.of[n]].audio # Missing
      BY <2>2, <2>14
    <3>2. \A n \in 1..Len(r.of) : r.assets[r.of[n]].audio # Missing
      BY <2>9, <2>12, <3>1
    <3>3. \A n \in r.todo : r.answer[r.of[n]] \in {Missing, r.assets[r.of[n]].audio}
      BY <2>9, <2>12, <2>14
    <3>4. r.of[Least(r.todo)] = s /\ r.assets[s] = asset
      BY <2>1, <2>9, <2>12
    <3>5. asset.alignment = asset.audio
      BY <2>11
    <3>. QED  BY <3>2, <3>3, <3>4, <3>5
  <2>16. Asking(r)
    BY <2>2, <2>9, <2>13, <2>15 DEF Asking, Gathering, Aligning
  <2>17. \A z \in SpeechSentences : SentenceInv(z) => Own(z, cache'.entries[z]) /\ Own(z, was.assets[z])
    <3>1. \A z : q \notin Making(z)
      BY <1>4 DEF Making, MakingPcs
    <3>. QED  BY <1>2, <1>3, <3>1 DEF SentenceInv
  <2>18. was.assets[s].audio # Missing
    BY <2>1, <2>14, CurrentIs
  <2>19. ASSUME Own(s, was.assets[s]) PROVE Own(s, asset)
    BY <2>11, <2>18, <2>19 DEF Own, Coherent, NoAsset
  <2>20. \A z \in SpeechSentences : SentenceInv(z) => Own(z, cache'.entries[z]) /\ Own(z, r.assets[z])
    BY <2>9, <2>12, <2>17, <2>19
  <2>21. r.pc \notin MakingPcs /\ CacheInv(cache')
    BY <1>3, <2>9 DEF MakingPcs, SpeechInv
  <2>. QED  BY <1>3, <1>4, <2>8, <2>16, <2>20, <2>21, QuietStep
<1>. QED  BY <1>3, <1>5, <1>6

LEMMA OpenAudioKeeps ==
    ASSUME SpeechInv, NEW q \in SpeechRequests, OpenObject(q, "audio")
    PROVE  SpeechInv'
<1>1. PICK s : s = Current(q)
  OBVIOUS
<1>2. PICK was : was = speech[q]
  OBVIOUS
<1>3. /\ was.pc = "audio_open" /\ UNCHANGED <<cache, syntheses, disturbed>>
      /\ \/ /\ object' = [object EXCEPT ![s].audio = Partial]
            /\ speech' = [speech EXCEPT ![q].pc = "audio_write", ![q].linked = TRUE]
         \/ Refuse(q) /\ UNCHANGED object
  BY <1>1, <1>2 DEF OpenObject, Places
<1>4. CASE Refuse(q) /\ UNCHANGED object
  BY <1>2, <1>3, <1>4, MakerRefused
<1>5. CASE /\ object' = [object EXCEPT ![s].audio = Partial]
           /\ speech' = [speech EXCEPT ![q].pc = "audio_write", ![q].linked = TRUE]
  <2>1. Asking(was) /\ was.pc # "idle" /\ s = was.of[Least(was.todo)] /\ object \in [SpeechSentences -> Asset]
    BY <1>1, <1>2, <1>3 DEF SpeechInv, Current
  <2>2. s \in SpeechSentences
    BY <2>1, CurrentIs
  <2>3. DOMAIN was = {"pc", "want", "of", "todo", "assets", "answer", "linked"}
    BY <2>1 DEF Asking, Typed, IdleSpeech
  <2>4. PICK r : r = [was EXCEPT !.pc = "audio_write", !.linked = TRUE]
    OBVIOUS
  <2>5. speech' = [speech EXCEPT ![q] = r]
    BY <1>2, <1>5, <2>4
  <2>6. /\ r.of = was.of /\ r.todo = was.todo /\ r.pc = "audio_write" /\ r.assets = was.assets
        /\ r.answer = was.answer /\ r.linked = TRUE /\ DOMAIN r = DOMAIN was
    BY <2>3, <2>4
  <2>7. Asking(r)
    <3>1. Typed(r)
      BY <2>1, <2>6 DEF Asking, Typed
    <3>. QED  BY <1>3, <2>1, <2>6, <3>1 DEF Asking, Gathering, Aligning
  <2>8. object[s] \in Asset /\ Partial \in Nat
    BY <2>1, <2>2, SpeechAssumption DEF Partial
  <2>9. PICK made : made = [object[s] EXCEPT !.audio = Partial]
    OBVIOUS
  <2>10. made = [audio |-> Partial, alignment |-> object[s].alignment] /\ made \in Asset
    BY <2>8, <2>9 DEF Asset
  <2>11. object' = [object EXCEPT ![s] = made]
    BY <1>5, <2>9
  <2>12. /\ object' \in [SpeechSentences -> Asset] /\ object'[s] = made
         /\ \A z \in SpeechSentences \ {s} : object'[z] = object[z]
    BY <2>1, <2>2, <2>10, <2>11
  <2>13. speech'[q] = r /\ cache' = cache
    BY <1>3, <2>5, OneGoes
  <2>14. ASSUME SentenceInv(s) PROVE Stored(s)' /\ Own(s, cache.entries[s])' /\ Makes(q, s)'
    <3>1. q \in Making(s) /\ speech[q].pc = "audio_open"
      BY <1>1, <1>2, <1>3 DEF Making
    <3>2. /\ cache.entries[s] = NoAsset /\ object[s] = [audio |-> Missing, alignment |-> Missing]
          /\ Makes(q, s)
      BY <2>2, <2>14, <3>1, MakerIsAlone
    <3>3. object'[s] = [audio |-> Partial, alignment |-> Missing]
      BY <2>10, <2>12, <3>2
    <3>4. q \in Making(s)' /\ speech'[q].pc = "audio_write"
      BY <2>1, <2>6, <2>13 DEF Making, Current
    <3>5. Stored(s)'
      BY <3>3, <3>4 DEF Stored
    <3>6. Makes(q, s)'
      BY <1>2, <2>6, <2>13, <3>1, <3>2, <3>3 DEF Makes
    <3>. QED  BY <2>13, <3>2, <3>5, <3>6 DEF Own
  <2>15. /\ syntheses' \in Nat /\ CacheInv(cache') /\ disturbed' = disturbed
    BY <1>3 DEF SpeechInv
  <2>16. \A z \in SpeechSentences \ {s} :
               /\ object'[z] = object[z] /\ cache'.entries[z] \in {cache.entries[z], NoAsset}
               /\ r.assets[z] \in {speech[q].assets[z], NoAsset}
    BY <1>2, <1>3, <2>6, <2>12
  <2>17. r.pc \in MakingPcs /\ speech[q].pc \in MakingPcs /\ r.of[Least(r.todo)] = s
    BY <1>2, <1>3, <2>1, <2>6 DEF MakingPcs
  <2>. QED  BY <1>1, <2>2, <2>5, <2>7, <2>12, <2>14, <2>15, <2>16, <2>17, MakerStep
<1>. QED  BY <1>3, <1>4, <1>5

\* A step at the times of the words of s.
LEMMA TimesStep ==
    ASSUME SpeechInv, NEW q \in SpeechRequests, NEW r, speech'[q] = r, Asking(r), DOMAIN speech' = SpeechRequests,
           NEW s \in SpeechSentences, s = Current(q), speech[q].pc \in {"alignment_open", "alignment_write"},
           r.pc \notin MakingPcs,
           object' \in [SpeechSentences -> Asset], object'[s].audio = object[s].audio,
           syntheses' \in Nat, CacheInv(cache'), disturbed' = disturbed,
           \A z \in SpeechSentences \ {s} :
               /\ object'[z] = object[z] /\ cache'.entries[z] \in {cache.entries[z], NoAsset}
               /\ r.assets[z] \in {speech[q].assets[z], NoAsset},
           \A p \in SpeechRequests \ {q} :
               /\ Asking(speech'[p])
               /\ speech'[p].pc = speech[p].pc /\ speech'[p].of = speech[p].of /\ speech'[p].todo = speech[p].todo
               /\ speech'[p].assets = speech[p].assets
               /\ Current(p) # s \/ speech[p].pc # "alignment_write" => speech'[p].linked = speech[p].linked,
           SentenceInv(s) => Stored(s)' /\ Own(s, cache'.entries[s]) /\ Own(s, r.assets[s])
    PROVE  SpeechInv'
<1>1. \A z : q \notin Making(z) /\ q \notin Making(z)'
  BY DEF Making, MakingPcs
<1>2. ASSUME NEW z \in SpeechSentences \ disturbed' PROVE SentenceInv(z)'
  <2>1. z \in SpeechSentences /\ SentenceInv(z)
    BY DEF SpeechInv
  <2>2. CASE z # s
    <3>1. ~Writes(q, z)
      BY <2>2 DEF Writes
    <3>. QED  BY <1>1, <2>1, <2>2, <3>1, Elsewhere
  <2>3. CASE z = s
    <3>1. \A p \in Making(s) : speech[p].pc # "alignment_write"
      BY DEF Making
    <3>. QED  BY <1>1, <2>1, <2>3, <3>1, AudioStays
  <2>. QED  BY <2>2, <2>3
<1>3. \A p \in SpeechRequests : Asking(speech'[p])
  OBVIOUS
<1>. QED  BY <1>2, <1>3 DEF SpeechInv

\* Who has the times of s has its audio, and nobody is making it.
LEMMA TimesOfOwn ==
    ASSUME SpeechInv, NEW q \in SpeechRequests, speech[q].pc \in {"alignment_open", "alignment_write"}
    PROVE  LET s == Current(q)
               asset == speech[q].assets[s]
           IN  /\ s \in SpeechSentences /\ asset \in Asset /\ asset.audio # Missing
               /\ asset = [audio |-> asset.audio, alignment |-> asset.audio]
               /\ SentenceInv(s) => /\ Own(s, asset) /\ Whole(object[s].audio) /\ asset.audio = object[s].audio
                                    /\ object[s].alignment \in {Missing, object[s].audio, Partial}
<1>1. PICK s : s = Current(q)
  OBVIOUS
<1>2. PICK was : was = speech[q]
  OBVIOUS
<1>3. Asking(was) /\ was.pc \in {"alignment_open", "alignment_write"} /\ s = was.of[Least(was.todo)]
  BY <1>1, <1>2 DEF SpeechInv, Current
<1>4. s \in SpeechSentences /\ Least(was.todo) \in 1..Len(was.of)
  BY <1>3, CurrentIs
<1>5. PICK asset : asset = was.assets[s]
  OBVIOUS
<1>6. asset \in Asset
  BY <1>3, <1>4, <1>5 DEF Asking, Typed
<1>7. asset.audio # Missing /\ asset.alignment = asset.audio
  BY <1>3, <1>4, <1>5 DEF Asking, Aligning
<1>8. asset = [audio |-> asset.audio, alignment |-> asset.audio]
  BY <1>6, <1>7 DEF Asset
<1>9. ASSUME SentenceInv(s)
      PROVE  /\ Own(s, asset) /\ Whole(object[s].audio) /\ asset.audio = object[s].audio
             /\ object[s].alignment \in {Missing, object[s].audio, Partial}
  <2>1. q \notin Making(s)
    BY <1>2, <1>3 DEF Making
  <2>2. Own(s, asset)
    BY <1>2, <1>5, <1>9, <2>1 DEF SentenceInv
  <2>3. Whole(object[s].audio) /\ asset.audio = object[s].audio
    BY <1>7, <2>2 DEF Own, Coherent, NoAsset
  <2>4. object[s].audio # Partial
    BY <2>3, SpeechAssumption DEF Whole, Partial
  <2>5. object[s].alignment \in {Missing, object[s].audio, Partial}
    BY <1>9, <2>3, <2>4 DEF SentenceInv, Stored, StoredIsCoherent, Whole, Missing
  <2>. QED  BY <2>2, <2>3, <2>5
<1>. QED  BY <1>1, <1>2, <1>4, <1>5, <1>6, <1>7, <1>8, <1>9

LEMMA OpenAlignmentKeeps ==
    ASSUME SpeechInv, NEW q \in SpeechRequests, OpenObject(q, "alignment")
    PROVE  SpeechInv'
<1>1. PICK s : s = Current(q)
  OBVIOUS
<1>2. PICK was : was = speech[q]
  OBVIOUS
<1>3. /\ was.pc = "alignment_open" /\ UNCHANGED <<cache, syntheses, disturbed>>
      /\ \/ /\ object' = [object EXCEPT ![s].alignment = Partial]
            /\ speech' = [speech EXCEPT ![q].pc = "alignment_write", ![q].linked = TRUE]
         \/ Refuse(q) /\ UNCHANGED object
  BY <1>1, <1>2 DEF OpenObject, Places
<1>4. CASE Refuse(q) /\ UNCHANGED object
  <2>1. speech[q].pc \notin MakingPcs \cup {"alignment_write"}
    BY <1>2, <1>3 DEF MakingPcs
  <2>. QED  BY <1>3, <1>4, <2>1, QuietRefusal
<1>5. CASE /\ object' = [object EXCEPT ![s].alignment = Partial]
           /\ speech' = [speech EXCEPT ![q].pc = "alignment_write", ![q].linked = TRUE]
  <2>1. Asking(was) /\ s = was.of[Least(was.todo)] /\ object \in [SpeechSentences -> Asset]
    BY <1>1, <1>2, <1>3 DEF SpeechInv, Current
  <2>2. s \in SpeechSentences
    BY <1>1, <1>2, <1>3, TimesOfOwn
  <2>3. DOMAIN was = {"pc", "want", "of", "todo", "assets", "answer", "linked"}
    BY <2>1 DEF Asking, Typed, IdleSpeech
  <2>4. PICK r : r = [was EXCEPT !.pc = "alignment_write", !.linked = TRUE]
    OBVIOUS
  <2>5. speech' = [speech EXCEPT ![q] = r]
    BY <1>2, <1>5, <2>4
  <2>6. /\ r.of = was.of /\ r.todo = was.todo /\ r.pc = "alignment_write" /\ r.assets = was.assets
        /\ r.answer = was.answer /\ r.linked = TRUE /\ DOMAIN r = DOMAIN was
    BY <2>3, <2>4
  <2>7. Asking(r)
    <3>1. Typed(r)
      BY <2>1, <2>6 DEF Asking, Typed
    <3>2. /\ \A k \in 1..Len(was.of) : was.assets[was.of[k]].audio # Missing
          /\ \A k \in was.todo : was.answer[was.of[k]] \in {Missing, was.assets[was.of[k]].audio}
          /\ was.assets[was.of[Least(was.todo)]].alignment = was.assets[was.of[Least(was.todo)]].audio
          /\ was.todo # {}
      BY <1>3, <2>1 DEF Asking, Aligning
    <3>. QED  BY <2>6, <3>1, <3>2 DEF Asking, Gathering, Aligning
  <2>8. object[s] \in Asset /\ Partial \in Nat
    BY <2>1, <2>2, SpeechAssumption DEF Partial
  <2>9. PICK made : made = [object[s] EXCEPT !.alignment = Partial]
    OBVIOUS
  <2>10. made = [audio |-> object[s].audio, alignment |-> Partial] /\ made \in Asset
    BY <2>8, <2>9 DEF Asset
  <2>11. object' = [object EXCEPT ![s] = made]
    BY <1>5, <2>9
  <2>12. /\ object' \in [SpeechSentences -> Asset] /\ object'[s] = made
         /\ \A z \in SpeechSentences \ {s} : object'[z] = object[z]
    BY <2>1, <2>2, <2>10, <2>11
  <2>13. /\ speech'[q] = r /\ cache' = cache /\ DOMAIN speech' = SpeechRequests
         /\ \A p \in SpeechRequests \ {q} : speech'[p] = speech[p] /\ Asking(speech'[p])
    BY <1>3, <2>5, OneGoes DEF SpeechInv
  <2>14. ASSUME SentenceInv(s) PROVE Stored(s)' /\ Own(s, cache'.entries[s]) /\ Own(s, r.assets[s])
    <3>1. Own(s, was.assets[s]) /\ Whole(object[s].audio)
      BY <1>1, <1>2, <1>3, <2>14, TimesOfOwn
    <3>2. Writes(q, s)'
      BY <2>1, <2>6, <2>13 DEF Writes, Current
    <3>3. Whole(object'[s].audio) /\ object'[s].alignment = Partial
      BY <2>10, <2>12, <3>1
    <3>4. Stored(s)'
      BY <3>2, <3>3 DEF Stored, Whole, Partial
    <3>. QED  BY <1>3, <2>6, <2>14, <3>1, <3>4 DEF SentenceInv
  <2>15. syntheses' \in Nat /\ CacheInv(cache') /\ disturbed' = disturbed
    BY <1>3 DEF SpeechInv
  <2>16. \A z \in SpeechSentences \ {s} :
               /\ object'[z] = object[z] /\ cache'.entries[z] \in {cache.entries[z], NoAsset}
               /\ r.assets[z] \in {speech[q].assets[z], NoAsset}
    BY <1>2, <1>3, <2>6, <2>12
  <2>17. r.pc \notin MakingPcs /\ speech[q].pc \in {"alignment_open", "alignment_write"}
    BY <1>2, <1>3, <2>6 DEF MakingPcs
  <2>18. object'[s].audio = object[s].audio
    BY <2>10, <2>12
  <2>. QED  BY <1>1, <2>2, <2>7, <2>12, <2>13, <2>14, <2>15, <2>16, <2>17, <2>18, TimesStep
<1>. QED  BY <1>3, <1>4, <1>5

LEMMA EndAudioKeeps ==
    ASSUME SpeechInv, NEW q \in SpeechRequests, EndPut(q, "audio")
    PROVE  SpeechInv'
<1>1. PICK s : s = Current(q)
  OBVIOUS
<1>2. PICK was : was = speech[q]
  OBVIOUS
<1>3. PICK asset : asset = was.assets[s]
  OBVIOUS
<1>4. PICK r : r = [was EXCEPT !.linked = FALSE, !.pc = "get"]
  OBVIOUS
<1>5. /\ was.pc = "audio_write" /\ UNCHANGED <<syntheses, disturbed>>
      /\ object' = IF was.linked THEN [object EXCEPT ![s].audio = asset.audio] ELSE object
      /\ cache' = Put(cache, s, asset)
      /\ speech' = [speech EXCEPT ![q] = Advanced(r)]
  BY <1>1, <1>2, <1>3, <1>4 DEF EndPut, Places
<1>6. Asking(was) /\ was.pc # "idle" /\ s = was.of[Least(was.todo)] /\ object \in [SpeechSentences -> Asset] /\ CacheInv(cache)
  BY <1>1, <1>2, <1>5 DEF SpeechInv, Current
<1>7. s \in SpeechSentences /\ Least(was.todo) \in was.todo /\ was.todo # {} /\ was.todo \subseteq 1..Len(was.of)
  BY <1>6, CurrentIs DEF Asking, Typed
<1>8. DOMAIN was = {"pc", "want", "of", "todo", "assets", "answer", "linked"}
  BY <1>6 DEF Asking, Typed, IdleSpeech
<1>9. /\ r.of = was.of /\ r.todo = was.todo /\ r.pc = "get" /\ r.assets = was.assets
      /\ r.answer = was.answer /\ DOMAIN r = DOMAIN was
  BY <1>4, <1>8
<1>10. asset \in Asset /\ asset.audio # Missing /\ object[s] \in Asset
  BY <1>3, <1>5, <1>6, <1>7 DEF Asking, Typed
<1>11. Typed(r)
  BY <1>6, <1>9 DEF Asking, Typed
<1>12. \A n \in (1..Len(was.of)) \ was.todo : was.assets[was.of[n]].audio # Missing
  BY <1>5, <1>6 DEF Asking, Gathering
<1>13. \A n \in (1..Len(r.of)) \ (r.todo \ {Least(r.todo)}) : r.assets[r.of[n]].audio # Missing
  BY <1>3, <1>6, <1>9, <1>10, <1>12
<1>14. /\ Asking(Advanced(r)) /\ Advanced(r).pc \in {"idle", "get", "align", "keep"}
       /\ \A z \in SpeechSentences : Advanced(r).assets[z] \in {was.assets[z], NoAsset}
  BY <1>7, <1>9, <1>11, <1>13, AdvancedIs
<1>15. /\ CacheInv(cache')
       /\ \A z \in SpeechSentences : \/ cache'.entries[z] \in {cache.entries[z], NoAsset}
                                     \/ z = s /\ cache'.entries[z] = asset
  <2>1. /\ CacheInv(Put(cache, s, asset))
        /\ \A z \in SpeechSentences : \/ Put(cache, s, asset).entries[z] \in {cache.entries[z], NoAsset}
                                      \/ z = s /\ Put(cache, s, asset).entries[z] = asset
    BY <1>6, <1>7, <1>10, PutKeeps
  <2>2. cache' = Put(cache, s, asset)
    BY <1>5
  <2>. QED  BY <2>1, <2>2
<1>16. PICK kept : kept = [object[s] EXCEPT !.audio = asset.audio]
  OBVIOUS
<1>17. kept = [audio |-> asset.audio, alignment |-> object[s].alignment] /\ kept \in Asset
  BY <1>10, <1>16 DEF Asset
<1>18. object' = IF was.linked THEN [object EXCEPT ![s] = kept] ELSE object
  BY <1>5, <1>16
<1>19. /\ object' \in [SpeechSentences -> Asset]
       /\ was.linked => object'[s] = kept
       /\ \A z \in SpeechSentences \ {s} : object'[z] = object[z]
  BY <1>6, <1>7, <1>17, <1>18
<1>20. speech'[q] = Advanced(r)
  BY <1>5, OneGoes
<1>21. ASSUME SentenceInv(s) PROVE Stored(s)' /\ Own(s, cache.entries[s])' /\ Own(s, speech[q].assets[s])'
  <2>1. q \in Making(s)
    BY <1>1, <1>2, <1>5 DEF Making
  <2>2. /\ cache.entries[s] = NoAsset /\ object[s] = [audio |-> Partial, alignment |-> Missing]
        /\ Makes(q, s)
    BY <1>2, <1>5, <1>7, <1>21, <2>1, MakerIsAlone
  <2>3. was.linked /\ Whole(asset.audio) /\ asset.alignment = Missing
    BY <1>2, <1>3, <1>5, <2>2 DEF Makes
  <2>4. object'[s] = [audio |-> asset.audio, alignment |-> Missing]
    BY <1>17, <1>19, <2>2, <2>3
  <2>5. Stored(s)'
    BY <2>3, <2>4 DEF Stored, StoredIsCoherent, Whole
  <2>6. \A a : a \in {asset, NoAsset} => Own(s, a)'
    BY <2>3, <2>4 DEF Own, Coherent, Whole
  <2>7. cache'.entries[s] \in {asset, NoAsset} /\ speech'[q].assets[s] \in {asset, NoAsset}
    BY <1>3, <1>7, <1>14, <1>15, <1>20, <2>2
  <2>8. Own(s, cache.entries[s])'
    BY <2>6, <2>7 DEF Own
  <2>9. Own(s, speech[q].assets[s])'
    BY <2>6, <2>7 DEF Own
  <2>. QED  BY <2>5, <2>8, <2>9
<1>22. \A z \in SpeechSentences \ {s} :
             /\ object'[z] = object[z] /\ cache'.entries[z] \in {cache.entries[z], NoAsset}
             /\ Advanced(r).assets[z] \in {speech[q].assets[z], NoAsset}
  BY <1>2, <1>14, <1>15, <1>19
<1>23. Advanced(r).pc \notin MakingPcs /\ speech[q].pc \in MakingPcs
  BY <1>2, <1>5, <1>14 DEF MakingPcs
<1>24. syntheses' \in Nat /\ disturbed' = disturbed
  BY <1>5 DEF SpeechInv
<1>. QED  BY <1>1, <1>5, <1>7, <1>14, <1>15, <1>19, <1>21, <1>22, <1>23, <1>24, MakerStep

LEMMA EndAlignmentKeeps ==
    ASSUME SpeechInv, NEW q \in SpeechRequests, EndPut(q, "alignment")
    PROVE  SpeechInv'
<1>1. PICK s : s = Current(q)
  OBVIOUS
<1>2. PICK was : was = speech[q]
  OBVIOUS
<1>3. PICK asset : asset = was.assets[s]
  OBVIOUS
<1>4. PICK r : r = [was EXCEPT !.linked = FALSE, !.pc = "aligned"]
  OBVIOUS
<1>5. /\ was.pc = "alignment_write" /\ UNCHANGED <<syntheses, disturbed>>
      /\ object' = IF was.linked THEN [object EXCEPT ![s].alignment = asset.alignment] ELSE object
      /\ cache' = Put(cache, s, asset)
      /\ speech' = [speech EXCEPT ![q] = Advanced(r)]
  BY <1>1, <1>2, <1>3, <1>4 DEF EndPut, Places
<1>6. Asking(was) /\ was.pc # "idle" /\ s = was.of[Least(was.todo)] /\ object \in [SpeechSentences -> Asset] /\ CacheInv(cache)
  BY <1>1, <1>2, <1>5 DEF SpeechInv, Current
<1>7. s \in SpeechSentences /\ Least(was.todo) \in was.todo /\ was.todo # {} /\ was.todo \subseteq 1..Len(was.of)
  BY <1>6, CurrentIs DEF Asking, Typed
<1>8. DOMAIN was = {"pc", "want", "of", "todo", "assets", "answer", "linked"}
  BY <1>6 DEF Asking, Typed, IdleSpeech
<1>9. /\ r.of = was.of /\ r.todo = was.todo /\ r.pc = "aligned" /\ r.assets = was.assets
      /\ r.answer = was.answer /\ DOMAIN r = DOMAIN was
  BY <1>4, <1>8
<1>10. /\ asset \in Asset /\ asset.audio # Missing /\ object[s] \in Asset
       /\ asset = [audio |-> asset.audio, alignment |-> asset.audio]
  BY <1>1, <1>2, <1>3, <1>5, <1>6, <1>7, TimesOfOwn
<1>11. Typed(r)
  BY <1>6, <1>9 DEF Asking, Typed
<1>12. /\ \A n \in 1..Len(was.of) : was.assets[was.of[n]].audio # Missing
       /\ \A n \in was.todo : was.answer[was.of[n]] \in {Missing, was.assets[was.of[n]].audio}
  BY <1>5, <1>6 DEF Asking, Aligning
<1>13. /\ Asking(Advanced(r)) /\ Advanced(r).pc \in {"idle", "get", "align", "keep"}
       /\ \A z \in SpeechSentences : Advanced(r).assets[z] \in {was.assets[z], NoAsset}
  BY <1>7, <1>9, <1>11, <1>12, AdvancedIs
<1>14. /\ CacheInv(cache')
       /\ \A z \in SpeechSentences : \/ cache'.entries[z] \in {cache.entries[z], NoAsset}
                                     \/ z = s /\ cache'.entries[z] = asset
  <2>1. /\ CacheInv(Put(cache, s, asset))
        /\ \A z \in SpeechSentences : \/ Put(cache, s, asset).entries[z] \in {cache.entries[z], NoAsset}
                                      \/ z = s /\ Put(cache, s, asset).entries[z] = asset
    BY <1>6, <1>7, <1>10, PutKeeps
  <2>2. cache' = Put(cache, s, asset)
    BY <1>5
  <2>. QED  BY <2>1, <2>2
<1>15. PICK kept : kept = [object[s] EXCEPT !.alignment = asset.alignment]
  OBVIOUS
<1>16. kept = [audio |-> object[s].audio, alignment |-> asset.audio] /\ kept \in Asset
  BY <1>10, <1>15 DEF Asset
<1>17. object' = IF was.linked THEN [object EXCEPT ![s] = kept] ELSE object
  BY <1>5, <1>15
<1>18. /\ object' \in [SpeechSentences -> Asset]
       /\ IF was.linked THEN object'[s] = kept ELSE object'[s] = object[s]
       /\ \A z \in SpeechSentences \ {s} : object'[z] = object[z]
  BY <1>6, <1>7, <1>16, <1>17
<1>19. object'[s].audio = object[s].audio
  BY <1>16, <1>18
<1>20. /\ speech'[q] = Advanced(r) /\ DOMAIN speech' = SpeechRequests
       /\ \A p \in SpeechRequests \ {q} : speech'[p] = speech[p] /\ Asking(speech'[p])
  BY <1>5, OneGoes DEF SpeechInv
<1>21. ASSUME SentenceInv(s)
       PROVE  Stored(s)' /\ Own(s, cache'.entries[s]) /\ Own(s, Advanced(r).assets[s])
  <2>1. /\ Own(s, asset) /\ Whole(object[s].audio) /\ asset.audio = object[s].audio
    BY <1>1, <1>2, <1>3, <1>5, <1>21, TimesOfOwn
  <2>2. Own(s, cache'.entries[s]) /\ Own(s, Advanced(r).assets[s])
    BY <1>3, <1>7, <1>13, <1>14, <1>21, <2>1, NothingIsOwn DEF SentenceInv
  <2>3. CASE was.linked
    <3>1. Whole(object'[s].audio) /\ object'[s].alignment = object'[s].audio
      BY <1>16, <1>18, <2>1, <2>3
    <3>. QED  BY <2>2, <3>1 DEF Stored, StoredIsCoherent, Whole
  <2>4. CASE ~was.linked
    <3>1. q \notin Making(s) /\ ~Writes(q, s)
      BY <1>2, <1>5, <2>4 DEF Making, Writes
    <3>2. Stored(s)'
      BY <1>18, <1>20, <1>21, <2>4, <3>1, <1>7, StoredStays DEF SentenceInv
    <3>. QED  BY <2>2, <3>2
  <2>. QED  BY <2>3, <2>4
<1>22. \A z \in SpeechSentences \ {s} :
             /\ object'[z] = object[z] /\ cache'.entries[z] \in {cache.entries[z], NoAsset}
             /\ Advanced(r).assets[z] \in {speech[q].assets[z], NoAsset}
  BY <1>2, <1>13, <1>14, <1>18
<1>23. Advanced(r).pc \notin MakingPcs /\ speech[q].pc \in {"alignment_open", "alignment_write"}
  BY <1>2, <1>5, <1>13 DEF MakingPcs
<1>24. syntheses' \in Nat /\ disturbed' = disturbed
  BY <1>5 DEF SpeechInv
<1>. QED  BY <1>1, <1>7, <1>13, <1>14, <1>18, <1>19, <1>20, <1>21, <1>22, <1>23, <1>24, TimesStep

\* Who fails leaves the others who write the object with a file that has no name.
LEMMA Unlinked ==
    ASSUME NEW r, Asking(r), r.pc # "idle"
    PROVE  LET next == [r EXCEPT !.linked = FALSE]
           IN  /\ Asking(next) /\ next.pc = r.pc /\ next.of = r.of /\ next.todo = r.todo /\ next.assets = r.assets
<1>1. DOMAIN r = {"pc", "want", "of", "todo", "assets", "answer", "linked"}
  BY DEF Asking, Typed, IdleSpeech
<1>2. PICK next : next = [r EXCEPT !.linked = FALSE]
  OBVIOUS
<1>3. /\ next.pc = r.pc /\ next.of = r.of /\ next.todo = r.todo /\ next.assets = r.assets
      /\ next.answer = r.answer /\ DOMAIN next = DOMAIN r
  BY <1>1, <1>2
<1>4. Asking(next)
  BY <1>3 DEF Asking, Typed
<1>. QED  BY <1>2, <1>3, <1>4

LEMMA FailedPut ==
    ASSUME SpeechInv, NEW q \in SpeechRequests, NEW kind \in {"audio", "alignment"}, FailPut(q, kind)
    PROVE  LET s == Current(q)
           IN  /\ s \in SpeechSentences /\ speech[q].pc = Places[kind].write /\ speech[q].pc # "idle"
               /\ DOMAIN speech' = SpeechRequests /\ speech'[q] = IdleSpeech
               /\ \A p \in SpeechRequests \ {q} :
                     /\ Asking(speech'[p])
                     /\ speech'[p].pc = speech[p].pc /\ speech'[p].of = speech[p].of /\ speech'[p].todo = speech[p].todo
                     /\ speech'[p].assets = speech[p].assets
                     /\ Current(p) # s \/ speech[p].pc # Places[kind].write => speech'[p].linked = speech[p].linked
               /\ object' = [object EXCEPT ![s][kind] = Missing]
               /\ UNCHANGED <<cache, syntheses, disturbed>>
<1>1. PICK s : s = Current(q)
  OBVIOUS
<1>2. PICK alike : alike = {p \in SpeechRequests \ {q} : speech[p].pc = Places[kind].write /\ Current(p) = s}
  OBVIOUS
<1>3. /\ speech[q].pc = Places[kind].write
      /\ object' = [object EXCEPT ![s][kind] = Missing]
      /\ speech' = [p \in SpeechRequests |-> IF p = q THEN IdleSpeech
                                             ELSE IF p \in alike THEN [speech[p] EXCEPT !.linked = FALSE] ELSE speech[p]]
      /\ UNCHANGED <<cache, syntheses, disturbed>>
  BY <1>1, <1>2 DEF FailPut
<1>4. Places[kind].write # "idle"
  BY DEF Places
<1>5. s \in SpeechSentences
  BY <1>1, <1>3, <1>4, CurrentIs DEF SpeechInv, Current
<1>6. ASSUME NEW p \in SpeechRequests \ {q}
      PROVE  /\ Asking(speech'[p])
             /\ speech'[p].pc = speech[p].pc /\ speech'[p].of = speech[p].of /\ speech'[p].todo = speech[p].todo
             /\ speech'[p].assets = speech[p].assets
             /\ Current(p) # s \/ speech[p].pc # Places[kind].write => speech'[p].linked = speech[p].linked
  <2>1. Asking(speech[p])
    BY DEF SpeechInv
  <2>2. CASE p \in alike
    <3>1. speech'[p] = [speech[p] EXCEPT !.linked = FALSE] /\ speech[p].pc = Places[kind].write /\ Current(p) = s
      BY <1>2, <1>3, <2>2
    <3>. QED  BY <1>4, <2>1, <3>1, Unlinked
  <2>3. CASE p \notin alike
    BY <1>3, <2>1, <2>3
  <2>. QED  BY <2>2, <2>3
<1>. QED  BY <1>1, <1>3, <1>4, <1>5, <1>6

LEMMA FailAudioKeeps ==
    ASSUME SpeechInv, NEW q \in SpeechRequests, FailPut(q, "audio")
    PROVE  SpeechInv'
<1>1. PICK s : s = Current(q)
  OBVIOUS
<1>2. /\ s \in SpeechSentences /\ speech[q].pc = "audio_write"
      /\ DOMAIN speech' = SpeechRequests /\ speech'[q] = IdleSpeech
      /\ \A p \in SpeechRequests \ {q} :
            /\ Asking(speech'[p])
            /\ speech'[p].pc = speech[p].pc /\ speech'[p].of = speech[p].of /\ speech'[p].todo = speech[p].todo
            /\ speech'[p].assets = speech[p].assets
            /\ Current(p) # s \/ speech[p].pc # "audio_write" => speech'[p].linked = speech[p].linked
      /\ object' = [object EXCEPT ![s].audio = Missing]
      /\ UNCHANGED <<cache, syntheses, disturbed>>
  BY <1>1, FailedPut DEF Places
<1>3. object \in [SpeechSentences -> Asset] /\ object[s] \in Asset
  BY <1>2 DEF SpeechInv
<1>4. PICK gone : gone = [object[s] EXCEPT !.audio = Missing]
  OBVIOUS
<1>5. gone = [audio |-> Missing, alignment |-> object[s].alignment] /\ gone \in Asset
  BY <1>3, <1>4 DEF Asset, Missing
<1>6. object' = [object EXCEPT ![s] = gone]
  BY <1>2, <1>4
<1>7. /\ object' \in [SpeechSentences -> Asset] /\ object'[s] = gone
      /\ \A z \in SpeechSentences \ {s} : object'[z] = object[z]
  BY <1>2, <1>3, <1>5, <1>6
<1>8. \A z : q \notin Making(z)'
  BY <1>2 DEF Making, IdleSpeech
<1>9. ASSUME NEW z \in SpeechSentences \ disturbed' PROVE SentenceInv(z)'
  <2>1. z \in SpeechSentences /\ SentenceInv(z)
    BY <1>2 DEF SpeechInv
  <2>2. CASE z # s
    <3>1. q \notin Making(z) /\ ~Writes(q, z)
      BY <1>1, <2>2 DEF Making, Writes
    <3>2. speech'[q].assets[z] = NoAsset
      BY <1>2 DEF IdleSpeech
    <3>. QED  BY <1>2, <1>7, <1>8, <2>1, <2>2, <3>1, <3>2, Elsewhere
  <2>3. CASE z = s
    <3>1. q \in Making(s)
      BY <1>1, <1>2 DEF Making
    <3>2. cache.entries[s] = NoAsset /\ object[s] = [audio |-> Partial, alignment |-> Missing]
      BY <1>2, <2>1, <2>3, <3>1, MakerIsAlone
    <3>3. object'[s] = [audio |-> Missing, alignment |-> Missing]
      BY <1>5, <1>7, <3>2
    <3>4. Stored(s)'
      BY <3>3 DEF Stored, StoredIsCoherent
    <3>5. Own(s, cache.entries[s])' /\ Own(s, speech[q].assets[s])'
      BY <1>2, <3>2 DEF Own, IdleSpeech
    <3>. QED  BY <1>2, <1>8, <2>1, <2>3, <3>1, <3>4, <3>5, MakerGoes
  <2>. QED  BY <2>2, <2>3
<1>10. \A p \in SpeechRequests : Asking(speech'[p])
  BY <1>2, IdleIsAsking
<1>. QED  BY <1>2, <1>7, <1>9, <1>10 DEF SpeechInv

LEMMA FailAlignmentKeeps ==
    ASSUME SpeechInv, NEW q \in SpeechRequests, FailPut(q, "alignment")
    PROVE  SpeechInv'
<1>1. PICK s : s = Current(q)
  OBVIOUS
<1>2. /\ s \in SpeechSentences /\ speech[q].pc = "alignment_write"
      /\ DOMAIN speech' = SpeechRequests /\ speech'[q] = IdleSpeech
      /\ \A p \in SpeechRequests \ {q} :
            /\ Asking(speech'[p])
            /\ speech'[p].pc = speech[p].pc /\ speech'[p].of = speech[p].of /\ speech'[p].todo = speech[p].todo
            /\ speech'[p].assets = speech[p].assets
            /\ Current(p) # s \/ speech[p].pc # "alignment_write" => speech'[p].linked = speech[p].linked
      /\ object' = [object EXCEPT ![s].alignment = Missing]
      /\ UNCHANGED <<cache, syntheses, disturbed>>
  BY <1>1, FailedPut DEF Places
<1>3. object \in [SpeechSentences -> Asset] /\ object[s] \in Asset
  BY <1>2 DEF SpeechInv
<1>4. PICK gone : gone = [object[s] EXCEPT !.alignment = Missing]
  OBVIOUS
<1>5. gone = [audio |-> object[s].audio, alignment |-> Missing] /\ gone \in Asset
  BY <1>3, <1>4 DEF Asset, Missing
<1>6. object' = [object EXCEPT ![s] = gone]
  BY <1>2, <1>4
<1>7. /\ object' \in [SpeechSentences -> Asset] /\ object'[s] = gone
      /\ \A z \in SpeechSentences \ {s} : object'[z] = object[z]
  BY <1>2, <1>3, <1>5, <1>6
<1>8. ASSUME SentenceInv(s)
      PROVE  Stored(s)' /\ Own(s, cache'.entries[s]) /\ Own(s, IdleSpeech.assets[s])
  <2>1. Whole(object[s].audio)
    BY <1>1, <1>2, <1>8, TimesOfOwn
  <2>2. Stored(s)'
    BY <1>5, <1>7, <2>1 DEF Stored, StoredIsCoherent, Whole
  <2>. QED  BY <1>2, <1>8, <2>2, NothingIsOwn DEF SentenceInv
<1>9. \A z \in SpeechSentences \ {s} :
             /\ object'[z] = object[z] /\ cache'.entries[z] \in {cache.entries[z], NoAsset}
             /\ IdleSpeech.assets[z] \in {speech[q].assets[z], NoAsset}
  BY <1>2, <1>7 DEF IdleSpeech
<1>10. IdleSpeech.pc \notin MakingPcs /\ speech[q].pc \in {"alignment_open", "alignment_write"}
  BY <1>2 DEF MakingPcs, IdleSpeech
<1>11. syntheses' \in Nat /\ disturbed' = disturbed /\ CacheInv(cache')
  BY <1>2 DEF SpeechInv
<1>12. object'[s].audio = object[s].audio
  BY <1>5, <1>7
<1>. QED  BY <1>1, <1>2, <1>7, <1>8, <1>9, <1>10, <1>11, <1>12, IdleIsAsking, TimesStep

LEMMA NothingIsCached ==
    CacheInv([order |-> <<>>, entries |-> [s \in SpeechSentences |-> NoAsset], used |-> 0])
<1>. DEFINE c == [order |-> <<>>, entries |-> [s \in SpeechSentences |-> NoAsset], used |-> 0]
<1>1. c.order = <<>> /\ c.entries = [s \in SpeechSentences |-> NoAsset] /\ c.used = 0
  OBVIOUS
<1>. HIDE DEF c
<1>2. c.order \in Seq(SpeechSentences) /\ Len(c.order) = 0 /\ 1..Len(c.order) = {}
  BY <1>1
<1>3. KeysOf(c.order) = {}
  BY <1>2 DEF KeysOf
<1>4. SizeOf(KeysOf(c.order), c.entries) = 0
  BY <1>3, SizeOfOne
<1>5. c.entries \in [SpeechSentences -> Asset] /\ \A s \in SpeechSentences : c.entries[s] = NoAsset
  BY <1>1 DEF NoAsset, Asset, Missing
<1>6. CacheInv(c)
  BY <1>1, <1>2, <1>3, <1>4, <1>5, SpeechAssumption DEF CacheInv
<1>. QED  BY <1>6 DEF c

LEMMA NobodyAsks ==
    ASSUME NEW s \in SpeechSentences, StoredIsCoherent(s)', speech' = [q \in SpeechRequests |-> IdleSpeech],
           cache'.entries[s] = NoAsset
    PROVE  SentenceInv(s)'
<1>1. \A q \in SpeechRequests : speech'[q].pc = "idle" /\ speech'[q].assets[s] = NoAsset
  BY DEF IdleSpeech
<1>2. \A q : q \notin Making(s)'
  BY <1>1 DEF Making
<1>3. Stored(s)'
  BY DEF Stored
<1>4. Own(s, cache.entries[s])' /\ \A q \in SpeechRequests : Own(s, speech[q].assets[s])'
  BY <1>1 DEF Own
<1>. QED  BY <1>2, <1>3, <1>4 DEF SentenceInv

LEMMA RestartSpeechKeeps ==
    ASSUME SpeechInv, RestartSpeech
    PROVE  SpeechInv'
<1>1. /\ speech' = [q \in SpeechRequests |-> IdleSpeech]
      /\ cache' = [order |-> <<>>, entries |-> [s \in SpeechSentences |-> NoAsset], used |-> 0]
      /\ disturbed' = disturbed \cup {s \in SpeechSentences : \E q \in SpeechRequests :
                          speech[q].pc \notin {"idle", "get", "load"} /\ Current(q) = s}
      /\ UNCHANGED <<object, syntheses>>
  BY DEF RestartSpeech
<1>2. CacheInv(cache') /\ \A s \in SpeechSentences : cache'.entries[s] = NoAsset
  BY <1>1, NothingIsCached
<1>3. ASSUME NEW s \in SpeechSentences \ disturbed' PROVE SentenceInv(s)'
  <2>1. s \in SpeechSentences /\ SentenceInv(s)
    BY <1>1 DEF SpeechInv
  <2>2. \A q \in SpeechRequests : speech[q].pc \notin {"idle", "get", "load"} => Current(q) # s
    BY <1>1, <1>3
  <2>3. Making(s) = {} /\ \A q \in SpeechRequests : ~Writes(q, s)
    BY <2>2 DEF Making, Writes
  <2>4. StoredIsCoherent(s)
    BY <2>1, <2>3 DEF SentenceInv, Stored
  <2>5. StoredIsCoherent(s)'
    BY <1>1, <2>4 DEF StoredIsCoherent
  <2>. QED  BY <1>1, <1>2, <2>1, <2>5, NobodyAsks
<1>4. DOMAIN speech' = SpeechRequests /\ \A q \in SpeechRequests : Asking(speech'[q])
  BY <1>1, IdleIsAsking
<1>. QED  BY <1>1, <1>2, <1>3, <1>4 DEF SpeechInv

\* What is asked, made, written and cached goes together in every reachable state.
THEOREM SpeechInvariant == SpeechSpec => []SpeechInv
<1>1. SpeechInit => SpeechInv
  <2>. SUFFICES ASSUME SpeechInit PROVE SpeechInv
    OBVIOUS
  <2>1. /\ object = [s \in SpeechSentences |-> [audio |-> Missing, alignment |-> Missing]]
        /\ cache = [order |-> <<>>, entries |-> [s \in SpeechSentences |-> NoAsset], used |-> 0]
        /\ speech = [q \in SpeechRequests |-> IdleSpeech]
        /\ syntheses = 0
    BY DEF SpeechInit
  <2>2. object \in [SpeechSentences -> Asset] /\ DOMAIN speech = SpeechRequests /\ syntheses \in Nat
    BY <2>1 DEF Asset, Missing
  <2>3. CacheInv(cache) /\ \A q \in SpeechRequests : Asking(speech[q])
    BY <2>1, NothingIsCached, IdleIsAsking
  <2>4. ASSUME NEW s \in SpeechSentences PROVE SentenceInv(s)
    <3>1. /\ \A q \in SpeechRequests : speech[q].pc = "idle" /\ speech[q].assets[s] = NoAsset
          /\ cache.entries[s] = NoAsset
      BY <2>1 DEF IdleSpeech
    <3>2. \A q : q \notin Making(s)
      BY <3>1 DEF Making
    <3>3. Stored(s)
      BY <2>1 DEF Stored, StoredIsCoherent
    <3>. QED  BY <3>1, <3>2, <3>3, NothingIsOwn DEF SentenceInv
  <2>. QED  BY <2>2, <2>3, <2>4 DEF SpeechInv
<1>2. SpeechInv /\ [SpeechNext]_speechVars => SpeechInv'
  <2>. SUFFICES ASSUME SpeechInv, [SpeechNext]_speechVars PROVE SpeechInv'
    OBVIOUS
  <2>1. ASSUME NEW q \in SpeechRequests, NEW asked \in SpeechAsked, AskSpeech(q, asked.want, asked.of) PROVE SpeechInv'
    BY <2>1, AskSpeechKeeps
  <2>2. ASSUME NEW q \in SpeechRequests, GetCached(q) PROVE SpeechInv'
    BY <2>2, GetCachedKeeps
  <2>3. ASSUME NEW q \in SpeechRequests, LoadAudio(q) PROVE SpeechInv'
    BY <2>3, LoadAudioKeeps
  <2>4. ASSUME NEW q \in SpeechRequests, LoadAlignment(q) PROVE SpeechInv'
    BY <2>4, LoadAlignmentKeeps
  <2>5. ASSUME NEW q \in SpeechRequests, Synthesize(q) PROVE SpeechInv'
    BY <2>5, SynthesizeKeeps
  <2>6. ASSUME NEW q \in SpeechRequests, AlignBatch(q) PROVE SpeechInv'
    BY <2>6, AlignBatchKeeps
  <2>7. ASSUME NEW q \in SpeechRequests, KeepAlignment(q) PROVE SpeechInv'
    BY <2>7, KeepAlignmentKeeps
  <2>8. ASSUME NEW q \in SpeechRequests, NEW kind \in {"audio", "alignment"}, OpenObject(q, kind) PROVE SpeechInv'
    BY <2>8, OpenAudioKeeps, OpenAlignmentKeeps
  <2>9. ASSUME NEW q \in SpeechRequests, NEW kind \in {"audio", "alignment"}, EndPut(q, kind) PROVE SpeechInv'
    BY <2>9, EndAudioKeeps, EndAlignmentKeeps
  <2>10. ASSUME NEW q \in SpeechRequests, NEW kind \in {"audio", "alignment"}, FailPut(q, kind) PROVE SpeechInv'
    BY <2>10, FailAudioKeeps, FailAlignmentKeeps
  <2>11. CASE RestartSpeech
    BY <2>11, RestartSpeechKeeps
  <2>12. CASE UNCHANGED speechVars
    <3>1. UNCHANGED <<object, cache, speech, syntheses, disturbed>>
      BY <2>12 DEF speechVars
    <3>2. ASSUME NEW s, SentenceInv(s) PROVE SentenceInv(s)'
      <4>1. Making(s)' = Making(s) /\ \A q : Writes(q, s)' = Writes(q, s) /\ Makes(q, s)' = Makes(q, s)
        BY <3>1 DEF Making, Writes, Makes, Current, Whole
      <4>2. Stored(s)' = Stored(s)
        BY <3>1, <4>1 DEF Stored, StoredIsCoherent, Whole
      <4>3. (\A q \in SpeechRequests : IF q \in Making(s) THEN Makes(q, s) ELSE Own(s, speech[q].assets[s]))'
        BY <3>1, <3>2, <4>1 DEF SentenceInv, Own
      <4>4. Own(s, cache.entries[s])'
        BY <3>1, <3>2 DEF SentenceInv, Own
      <4>. QED  BY <3>2, <4>1, <4>2, <4>3, <4>4 DEF SentenceInv
    <3>. QED  BY <3>1, <3>2 DEF SpeechInv
  <2>. QED  BY <2>1, <2>2, <2>3, <2>4, <2>5, <2>6, <2>7, <2>8, <2>9, <2>10, <2>11, <2>12 DEF SpeechNext
<1>. QED  BY <1>1, <1>2, PTL DEF SpeechSpec

\* Audio that is kept, cached or stored is whole and its words' times are its own, and the
\* cache holds what it says it holds (reader_speech.go), for any sentences, requests and
\* limits of the cache.
THEOREM SpeechStaysCoherent == SpeechSpec => []SpeechIsCoherent
<1>1. SpeechInv => SpeechIsCoherent
  <2>. SUFFICES ASSUME SpeechInv PROVE SpeechIsCoherent
    OBVIOUS
  <2>1. CacheInv(cache)
    BY DEF SpeechInv
  <2>2. CacheIsAccounted
    BY <2>1 DEF CacheInv, CacheIsAccounted
  <2>3. ASSUME NEW s \in SpeechSentences \ disturbed, s \in KeysOf(cache.order) PROVE Coherent(cache.entries[s])
    <3>1. SentenceInv(s) /\ cache.entries[s] # NoAsset
      BY <2>1, <2>3 DEF SpeechInv, CacheInv
    <3>. QED  BY <3>1 DEF SentenceInv, Own
  <2>4. ASSUME NEW s \in SpeechSentences \ disturbed, Idle(s) PROVE StoredIsCoherent(s)
    <3>1. SentenceInv(s)
      BY DEF SpeechInv
    <3>2. ASSUME NEW q \in SpeechRequests, speech[q].pc # "idle" PROVE Current(q) # s
      BY <2>4, <3>2 DEF Idle, SpeechInv, Asking
    <3>3. Making(s) = {} /\ \A q \in SpeechRequests : ~Writes(q, s)
      BY <3>2 DEF Making, Writes
    <3>. QED  BY <3>1, <3>3 DEF SentenceInv, Stored
  <2>. QED  BY <2>2, <2>3, <2>4 DEF SpeechIsCoherent
<1>. QED  BY <1>1, SpeechInvariant, PTL
=============================================================================
