----------------------------- MODULE Breakdowns -----------------------------
(***************************************************************************)
(* The cached breakdowns of sentences and words (reader/definitions.go     *)
(* SentenceBreakdown, WordBreakdown, cachedBreakdown): requests of one     *)
(* process share a model call, its answer is stored for everyone, and the  *)
(* analysis of a sentence leaves phrases and a sentence structure behind.  *)
(***************************************************************************)
EXTENDS Naturals, FiniteSets

CONSTANTS
    BreakdownReaders,   \* the requests
    Sentences, Word,    \* what is broken down; the sentences share one template
    PhrasesOf,          \* the phrases of a sentence's analysis
    MaxLost             \* bound: answers that were paid for and lost, of one breakdown

ASSUME ReaderAssumption == "none" \notin BreakdownReaders

VARIABLES
    breakdowns,   \* stored breakdowns
    phrases,      \* stored phrases
    structure,    \* the phrase keys of the template's structure, {} without a row
    request,      \* request -> its place
    flight,       \* breakdown -> the request that leads its flight, or "none"
    paid,         \* breakdown -> model calls that were answered
    lost          \* breakdown -> of these, the ones whose answer was not stored

breakdownVars == <<breakdowns, phrases, structure, request, flight, paid, lost>>

Breakable == Sentences \cup {Word}
NoBreakdown == [pc |-> "idle", of |-> "none", todo |-> {}]

BreakdownInit ==
    /\ breakdowns = {}
    /\ phrases = {}
    /\ structure = {}
    /\ request = [r \in BreakdownReaders |-> NoBreakdown]
    /\ flight = [b \in Breakable |-> "none"]
    /\ paid = [b \in Breakable |-> 0]
    /\ lost = [b \in Breakable |-> 0]

\* A stored breakdown answers at once.
AskBreakdown(r, b) ==
    /\ request[r].pc = "idle"
    /\ b \notin breakdowns
    /\ request' = [request EXCEPT ![r] = [NoBreakdown EXCEPT !.pc = "hints", !.of = b]]
    /\ UNCHANGED <<breakdowns, phrases, structure, flight, paid, lost>>

\* The structure and the phrases that go into the prompt, or a failed read.
ReadHints(r) ==
    /\ request[r].pc = "hints"
    /\ request' \in {[request EXCEPT ![r].pc = "join"], [request EXCEPT ![r] = NoBreakdown]}
    /\ UNCHANGED <<breakdowns, phrases, structure, flight, paid, lost>>

JoinBreakdown(r) ==
    LET b == request[r].of
    IN  /\ request[r].pc = "join"
        /\ request' = [request EXCEPT ![r].pc = IF flight[b] = "none" THEN "recheck" ELSE "wait"]
        /\ flight' = [flight EXCEPT ![b] = IF @ = "none" THEN r ELSE @]
        /\ UNCHANGED <<breakdowns, phrases, structure, paid, lost>>

\* The flight of r ends, and everyone who waited for it has the answer.
Land(r) ==
    LET b == request[r].of
    IN  /\ request' = [q \in BreakdownReaders |->
                          IF q = r \/ (request[q].pc = "wait" /\ request[q].of = b) THEN NoBreakdown ELSE request[q]]
        /\ flight' = [flight EXCEPT ![b] = "none"]

X_NoRecheck(r) ==
    /\ request[r].pc = "recheck"
    /\ request' = [request EXCEPT ![r].pc = "model"]
    /\ UNCHANGED <<breakdowns, phrases, structure, flight, paid, lost>>

\* The leader looks again: a flight that ended meanwhile may have stored the answer.
Recheck(r) ==
    /\ request[r].pc = "recheck"
    /\ IF request[r].of \in breakdowns
       THEN Land(r)
       ELSE request' = [request EXCEPT ![r].pc = "model"] /\ UNCHANGED flight
    /\ UNCHANGED <<breakdowns, phrases, structure, paid, lost>>

AskModel(r) ==
    LET b == request[r].of
    IN  /\ request[r].pc = "model"
        /\ \/ /\ paid' = [paid EXCEPT ![b] = @ + 1]
              /\ request' = [request EXCEPT ![r].pc = "store"]
              /\ UNCHANGED flight
           \/ Land(r) /\ UNCHANGED paid
        /\ UNCHANGED <<breakdowns, phrases, structure, lost>>

\* The error of the upsert is dropped; a word's flight is over, a sentence's goes on.
StoreBreakdown(r) ==
    LET b == request[r].of
    IN  /\ request[r].pc = "store"
        /\ \/ breakdowns' = breakdowns \cup {b} /\ UNCHANGED lost
           \/ lost[b] < MaxLost /\ lost' = [lost EXCEPT ![b] = @ + 1] /\ UNCHANGED breakdowns
        /\ IF b = Word
           THEN Land(r)
           ELSE /\ request' = [request EXCEPT ![r].pc = "phrases", ![r].todo = PhrasesOf[b]]
                /\ UNCHANGED flight
        /\ UNCHANGED <<phrases, structure, paid>>

X_SkipFailed(r) ==
    /\ request[r].pc = "phrases"
    /\ \E p \in request[r].todo :
          /\ phrases' \in {phrases, phrases \cup {p}}
          /\ request' = [request EXCEPT ![r].todo = @ \ {p}]
    /\ UNCHANGED <<breakdowns, structure, flight, paid, lost>>

\* persistSentenceAnalysis stores phrase by phrase and gives up at the first failure,
\* which nobody hears of.
StorePhrase(r) ==
    /\ request[r].pc = "phrases"
    /\ \E p \in request[r].todo :
          \/ /\ phrases' = phrases \cup {p}
             /\ request' = [request EXCEPT ![r].todo = @ \ {p}]
             /\ UNCHANGED flight
          \/ Land(r) /\ UNCHANGED phrases
    /\ UNCHANGED <<breakdowns, structure, paid, lost>>

StoreStructure(r) ==
    /\ request[r].pc = "phrases"
    /\ request[r].todo = {}
    /\ structure' \in {structure, PhrasesOf[request[r].of]}
    /\ Land(r)
    /\ UNCHANGED <<breakdowns, phrases, paid, lost>>

\* The process restarts: every request and flight is gone, and an answer that was not
\* stored yet is lost.
RestartReader ==
    LET unsaved == {b \in Breakable : \E r \in BreakdownReaders : request[r].pc = "store" /\ request[r].of = b}
    IN  /\ \E r \in BreakdownReaders : request[r].pc # "idle"
        /\ \A b \in unsaved : lost[b] < MaxLost
        /\ request' = [r \in BreakdownReaders |-> NoBreakdown]
        /\ flight' = [b \in Breakable |-> "none"]
        /\ lost' = [b \in Breakable |-> IF b \in unsaved THEN lost[b] + 1 ELSE lost[b]]
        /\ UNCHANGED <<breakdowns, phrases, structure, paid>>

BreakdownStep(r) == \/ \E b \in Breakable : AskBreakdown(r, b)
                    \/ ReadHints(r) \/ JoinBreakdown(r) \/ Recheck(r) \/ AskModel(r)
                    \/ StoreBreakdown(r) \/ StorePhrase(r) \/ StoreStructure(r)

BreakdownNext == (\E r \in BreakdownReaders : BreakdownStep(r)) \/ RestartReader

BreakdownSpec == BreakdownInit /\ [][BreakdownNext]_breakdownVars

-----------------------------------------------------------------------------
\* definitions.go:49 and :453: readers who hit one uncached sentence, at once or one just
\* after the other, produce one model call.  A breakdown is paid for once, and again only
\* for an answer that a failed store or a restart lost.
BreakdownPaidOnce == \A b \in Breakable : paid[b] <= 1 + lost[b]

\* A sentence structure names phrases that are stored, whatever failed while they were.
StructureNamesPhrases == structure \subseteq phrases
=============================================================================
