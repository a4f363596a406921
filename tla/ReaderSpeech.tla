---------------------------- MODULE ReaderSpeech ----------------------------
(***************************************************************************)
(* Audio of a story's sentences and the times of their words               *)
(* (handler/reader_speech.go): a cache of the process over objects in the  *)
(* media store, which are synthesized and aligned when they are missing.   *)
(* The store is the local one (objectstore/local.go): it writes an object  *)
(* in place and removes it when that fails.                                *)
(*                                                                         *)
(* Synthesis answers with other audio every time: audio is the number of   *)
(* the synthesis it comes from, and an alignment is known by the audio it  *)
(* was made of.                                                            *)
(***************************************************************************)
EXTENDS Naturals, Sequences, FiniteSets

CONSTANTS
    SpeechSentences,   \* sentences of the story, one cache key each
    SpeechRequests,    \* requests of the learner's tabs
    SpeechAsked,       \* what they ask for: [want: "audio" or "alignment", of: sentences]
    MaxEntries,        \* entries of the cache
    MaxBytes,          \* bytes of the cache
    MaxSyntheses,      \* bound: audio that is synthesized
    MaxSpeechFaults    \* bound: failed calls, failed writes, restarts

ASSUME SpeechAssumption ==
    /\ \A asked \in SpeechAsked : asked.of \in Seq(SpeechSentences) /\ asked.of # <<>>
    /\ MaxEntries \in Nat \ {0} /\ MaxBytes \in Nat \ {0} /\ MaxSyntheses \in Nat

VARIABLES
    object,      \* sentence -> its two objects in the media store
    cache,       \* the cache: its order, its entries and the bytes they use
    speech,      \* request -> its place
    syntheses,   \* syntheses so far
    disturbed,   \* sentences whose object was read or written while it was being written
    speechFaults

speechVars == <<object, cache, speech, syntheses, disturbed, speechFaults>>

Missing == 0
Partial == MaxSyntheses + 1   \* what is there of an object that is being written
NoAsset == [audio |-> Missing, alignment |-> Missing]
IdleSpeech == [pc |-> "idle", want |-> "audio", of |-> <<>>, todo |-> {},
               assets |-> [s \in SpeechSentences |-> NoAsset], answer |-> [s \in SpeechSentences |-> Missing],
               linked |-> FALSE]

SpeechInit ==
    /\ object = [s \in SpeechSentences |-> [audio |-> Missing, alignment |-> Missing]]
    /\ cache = [order |-> <<>>, entries |-> [s \in SpeechSentences |-> NoAsset], used |-> 0]
    /\ speech = [q \in SpeechRequests |-> IdleSpeech]
    /\ syntheses = 0
    /\ disturbed = {}
    /\ speechFaults = 0

SpeechFault == speechFaults < MaxSpeechFaults /\ speechFaults' = speechFaults + 1

\* readerSpeechAssetSize
AssetSize(asset) == (IF asset.audio = Missing THEN 0 ELSE 2) + (IF asset.alignment = Missing THEN 0 ELSE 1)

KeysOf(order) == {order[n] : n \in 1..Len(order)}
SizeOf(keys, entries) == Cardinality(UNION {{k} \X (1..AssetSize(entries[k])) : k \in keys})

Least(ns) == CHOOSE n \in ns : \A m \in ns : n <= m

\* put: the key's old entry goes, then the oldest ones until there is room; an asset that
\* is too large is not kept at all.
Put(c, s, asset) ==
    LET size == AssetSize(asset)
        at   == CHOOSE n \in 1..Len(c.order) : c.order[n] = s
        old  == IF s \notin KeysOf(c.order) THEN c.order
                ELSE [n \in 1..(Len(c.order) - 1) |-> IF n < at THEN c.order[n] ELSE c.order[n + 1]]
        Rest(n)  == [m \in 1..(Len(old) - n) |-> old[m + n]]
        Holds(n) == [k \in SpeechSentences |-> IF k \in KeysOf(Rest(n)) THEN c.entries[k] ELSE NoAsset]
        free     == c.used - AssetSize(c.entries[s])
        Used(n)  == free - SizeOf({old[m] : m \in 1..n}, c.entries)
        evicted  == Least({n \in 0..Len(old) : n = Len(old) \/ (Len(old) - n < MaxEntries /\ Used(n) + size <= MaxBytes)})
    IN  IF size > MaxBytes
        THEN [order |-> old, entries |-> Holds(0), used |-> free]
        ELSE [order   |-> Append(Rest(evicted), s),
              entries |-> [Holds(evicted) EXCEPT ![s] = asset],
              used    |-> Used(evicted) + size]

\* A request goes through positions of the sentences it asks for, in their order.
Current(q) == speech[q].of[Least(speech[q].todo)]
Refuse(q) == speech' = [speech EXCEPT ![q] = IdleSpeech]

\* The request goes on with its next sentence, or with what it wants of all of them.
Advanced(r) ==
    LET rest == r.todo \ {Least(r.todo)}
        unaligned == {n \in 1..Len(r.of) : r.assets[r.of[n]].alignment = Missing}
    IN  IF rest # {} THEN [r EXCEPT !.todo = rest, !.pc = IF @ = "aligned" THEN "keep" ELSE "get"]
        ELSE IF r.pc # "aligned" /\ r.want = "alignment" /\ unaligned # {}
        THEN [r EXCEPT !.todo = unaligned, !.pc = "align"]
        ELSE IdleSpeech

-----------------------------------------------------------------------------
\* One sentence's audio, or the alignment of one or more of them.
AskSpeech(q, want, of) ==
    /\ speech[q].pc = "idle"
    /\ speech' = [speech EXCEPT ![q] = [IdleSpeech EXCEPT !.pc = "get", !.want = want, !.of = of, !.todo = 1..Len(of)]]
    /\ UNCHANGED <<object, cache, syntheses, disturbed, speechFaults>>

GetCached(q) ==
    LET s == Current(q)
        r == [speech[q] EXCEPT !.assets[s] = cache.entries[s]]
    IN  /\ speech[q].pc = "get"
        /\ speech' = [speech EXCEPT ![q] = IF s \in KeysOf(cache.order) THEN Advanced(r) ELSE [@ EXCEPT !.pc = "load"]]
        /\ UNCHANGED <<object, cache, syntheses, disturbed, speechFaults>>

\* Others who have found that there is no audio, or write it.
Making(s) == {q \in SpeechRequests : speech[q].pc \in {"synthesize", "audio_open", "audio_write"}
                                     /\ Current(q) = s}

\* loadPersistedReaderSpeech reads what is there, be it half of the audio (an empty object
\* is an error).
LoadAudio(q) ==
    LET s == Current(q)
        found == object[s].audio
    IN  /\ speech[q].pc = "load"
        /\ \/ /\ found = Missing
              /\ speech' = [speech EXCEPT ![q].pc = "synthesize"]
           \/ /\ found # Missing
              /\ speech' = [speech EXCEPT ![q].pc = "load_alignment", ![q].assets[s].audio = found]
           \/ found = Partial /\ Refuse(q)
        /\ disturbed' = IF Making(s) = {} THEN disturbed ELSE disturbed \cup {s}
        /\ UNCHANGED <<object, cache, syntheses, speechFaults>>

\* A half-written alignment cannot be decoded.
LoadAlignment(q) ==
    LET s == Current(q)
        found == object[s].alignment
        r == [speech[q] EXCEPT !.assets[s].alignment = found]
    IN  /\ speech[q].pc = "load_alignment"
        /\ IF found = Partial THEN Refuse(q) /\ UNCHANGED cache
           ELSE /\ speech' = [speech EXCEPT ![q] = Advanced(r)]
                /\ cache' = Put(cache, s, r.assets[s])
        /\ UNCHANGED <<object, syntheses, disturbed, speechFaults>>

Synthesize(q) ==
    /\ speech[q].pc = "synthesize"
    /\ \/ /\ syntheses < MaxSyntheses
          /\ syntheses' = syntheses + 1
          /\ speech' = [speech EXCEPT ![q].pc = "audio_open",
                                      ![q].assets[Current(q)] = [NoAsset EXCEPT !.audio = syntheses + 1]]
          /\ UNCHANGED speechFaults
       \/ Refuse(q) /\ SpeechFault /\ UNCHANGED syntheses
    /\ UNCHANGED <<object, cache, disturbed>>

\* One call for everything that is not aligned; its answer may leave sentences out.
AlignBatch(q) ==
    LET r == speech[q]
    IN  /\ r.pc = "align"
        /\ \/ \E answered \in SUBSET {r.of[n] : n \in r.todo} :
                 /\ IF answered = {r.of[n] : n \in r.todo} THEN UNCHANGED speechFaults ELSE SpeechFault
                 /\ speech' = [speech EXCEPT ![q].pc = "keep", ![q].answer =
                        [s \in SpeechSentences |-> IF s \in answered THEN r.assets[s].audio ELSE Missing]]
           \/ Refuse(q) /\ SpeechFault
        /\ UNCHANGED <<object, cache, syntheses, disturbed>>

X_InOrder(q) ==
    LET r == speech[q]
        got == {n \in 1..Len(r.of) : r.answer[r.of[n]] # Missing}
        last == CHOOSE n \in got : \A m \in got : m <= n
    IN  /\ r.pc = "keep"
        /\ IF got = {} THEN Refuse(q)
           ELSE speech' = [speech EXCEPT ![q].pc = "alignment_open", ![q].assets[Current(q)].alignment = r.answer[r.of[last]]]
        /\ UNCHANGED <<object, cache, syntheses, disturbed, speechFaults>>

\* The alignments are kept one by one, each under the sentence whose number it answers.
KeepAlignment(q) ==
    LET r == speech[q]
        s == Current(q)
    IN  /\ r.pc = "keep"
        /\ IF r.answer[s] = Missing THEN Refuse(q)
           ELSE speech' = [speech EXCEPT ![q].pc = "alignment_open", ![q].assets[s].alignment = r.answer[s]]
        /\ UNCHANGED <<object, cache, syntheses, disturbed, speechFaults>>

-----------------------------------------------------------------------------
Places == [audio |-> [open |-> "audio_open", write |-> "audio_write"],
           alignment |-> [open |-> "alignment_open", write |-> "alignment_write"]]

\* LocalStore.Put truncates the object, writes it, and then its metadata.  Who removes an
\* object leaves the others who write it with a file that has no name.
OpenObject(q, kind) ==
    LET s == Current(q)
    IN  /\ speech[q].pc = Places[kind].open
        /\ \/ /\ object' = [object EXCEPT ![s][kind] = Partial]
              /\ speech' = [speech EXCEPT ![q].pc = Places[kind].write, ![q].linked = TRUE]
              /\ UNCHANGED speechFaults
           \/ Refuse(q) /\ SpeechFault /\ UNCHANGED object
        /\ UNCHANGED <<cache, syntheses, disturbed>>

\* The object is complete and the asset is cached.
EndPut(q, kind) ==
    LET s == Current(q)
    IN  /\ speech[q].pc = Places[kind].write
        /\ object' = IF speech[q].linked THEN [object EXCEPT ![s][kind] = speech[q].assets[s][kind]] ELSE object
        /\ cache' = Put(cache, s, speech[q].assets[s])
        /\ speech' = [speech EXCEPT ![q] = Advanced([@ EXCEPT !.linked = FALSE, !.pc = IF kind = "audio" THEN "get" ELSE "aligned"])]
        /\ UNCHANGED <<syntheses, disturbed, speechFaults>>

FailPut(q, kind) ==
    LET s == Current(q)
        alike == {p \in SpeechRequests \ {q} : speech[p].pc = Places[kind].write /\ Current(p) = s}
    IN  /\ speech[q].pc = Places[kind].write
        /\ SpeechFault
        /\ object' = [object EXCEPT ![s][kind] = Missing]
        /\ speech' = [p \in SpeechRequests |-> IF p = q THEN IdleSpeech
                                               ELSE IF p \in alike THEN [speech[p] EXCEPT !.linked = FALSE] ELSE speech[p]]
        /\ UNCHANGED <<cache, syntheses, disturbed>>

\* The process restarts: what was being written stays as it is.
RestartSpeech ==
    /\ \E q \in SpeechRequests : speech[q].pc # "idle"
    /\ SpeechFault
    /\ speech' = [q \in SpeechRequests |-> IdleSpeech]
    /\ cache' = [order |-> <<>>, entries |-> [s \in SpeechSentences |-> NoAsset], used |-> 0]
    /\ disturbed' = disturbed \cup {s \in SpeechSentences : \E q \in SpeechRequests :
                        speech[q].pc \notin {"idle", "get", "load"} /\ Current(q) = s}
    /\ UNCHANGED <<object, syntheses>>

SpeechNext ==
    \/ \E q \in SpeechRequests :
        \/ \E asked \in SpeechAsked : AskSpeech(q, asked.want, asked.of)
        \/ GetCached(q) \/ LoadAudio(q) \/ LoadAlignment(q) \/ Synthesize(q) \/ AlignBatch(q) \/ KeepAlignment(q)
        \/ \E kind \in {"audio", "alignment"} : OpenObject(q, kind) \/ EndPut(q, kind) \/ FailPut(q, kind)
    \/ RestartSpeech

SpeechSpec == SpeechInit /\ [][SpeechNext]_speechVars

-----------------------------------------------------------------------------
Whole(audio) == audio \in 1..MaxSyntheses
Coherent(asset) == Whole(asset.audio) /\ asset.alignment \in {Missing, asset.audio}
Idle(s) == \A q \in SpeechRequests : speech[q].todo = {} \/ Current(q) # s

\* What is stored is all of one synthesis, with the times of its own words.
StoredIsCoherent(s) ==
    \/ object[s] = [audio |-> Missing, alignment |-> Missing]
    \/ Whole(object[s].audio) /\ object[s].alignment \in {Missing, object[s].audio}

\* The cache knows what it holds, and holds no more than it may.
CacheIsAccounted ==
    /\ KeysOf(cache.order) = {s \in SpeechSentences : cache.entries[s] # NoAsset}
    /\ \A m, n \in 1..Len(cache.order) : cache.order[m] = cache.order[n] => m = n
    /\ cache.used = SizeOf(KeysOf(cache.order), cache.entries)
    /\ Len(cache.order) <= MaxEntries
    /\ cache.used <= MaxBytes

\* Whatever fails on the way and in whatever order answers come, audio that is kept, cached
\* or stored, is whole and its words' times are its own, provided no other request came for
\* the sentence while its audio was being made and the process did not die in the middle
\* (there is no lock on the key, and the store writes in place).
SpeechIsCoherent ==
    /\ CacheIsAccounted
    /\ \A s \in SpeechSentences \ disturbed :
          /\ s \in KeysOf(cache.order) => Coherent(cache.entries[s])
          /\ Idle(s) => StoredIsCoherent(s)
=============================================================================
