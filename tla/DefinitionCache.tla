-------------------------- MODULE DefinitionCache --------------------------
(***************************************************************************)
(* The definitions all readers share (reader/definitions.go, db/sql.go)    *)
(* and who writes them: the lookups of readers, the import of a            *)
(* Wiktionary dump (kaikki/importer.go) and the translator of its native   *)
(* glosses (cmd/kaikki-translate).                                         *)
(*                                                                         *)
(* A definition is known by its key and its source; what it says, and the  *)
(* lemma it is an alias of, do not matter here.                            *)
(***************************************************************************)
EXTENDS Naturals, FiniteSets

CONSTANTS
    Lemma, Form,    \* a word and an inflected form of it, which may be a word of its own
    Lookups,        \* the readers' lookups
    BatchSize,      \* glosses the translator sends at a time
    MaxImports      \* bound: imports

VARIABLES
    definitions,    \* rows: [key, source]
    overrides,      \* keys in the learner's own dictionary
    lookup,         \* lookup -> its place in ResolveWithTrace
    defFlight,      \* key -> the lookup whose model call the others share, or "none"
    import,         \* the import that runs
    imports,        \* how many ran
    translator      \* the translator's place and batch

definitionVars == <<definitions, overrides, lookup, defFlight, import, imports, translator>>

WordKeys == {Lemma, Form}
Def(key, source) == [key |-> key, source |-> source]

ListDefinitions(key) == {d \in definitions : d.key = key}

\* A row replaces the one of its key and source.
Upserted(new) ==
    {d \in definitions : \A n \in new : n.key # d.key \/ n.source # d.source} \cup new

NoLookup == [pc |-> "idle", key |-> "none", stored |-> {}]
NoImport == [pc |-> "idle", native |-> FALSE, batch |-> {}, failed |-> FALSE, record |-> "none"]

DefinitionInit ==
    /\ definitions = {}
    /\ overrides = {}
    /\ lookup = [l \in Lookups |-> NoLookup]
    /\ defFlight = [k \in WordKeys |-> "none"]
    /\ import = NoImport
    /\ imports = 0
    /\ translator = [pc |-> "list", batch |-> {}]

-----------------------------------------------------------------------------
\* putDictionaryEntry and deleteDictionaryEntry.
SaveOverride(key) ==
    /\ overrides' = overrides \cup {key}
    /\ UNCHANGED <<definitions, lookup, defFlight, import, imports, translator>>

DeleteOverride(key) ==
    /\ overrides' = overrides \ {key}
    /\ UNCHANGED <<definitions, lookup, defFlight, import, imports, translator>>

\* The stored rows are read once, before anything else, and used to the end.
ReadStored(l, key) ==
    /\ lookup[l].pc = "idle"
    /\ lookup' = [lookup EXCEPT ![l] = [pc |-> "own", key |-> key, stored |-> ListDefinitions(key)]]
    /\ UNCHANGED <<definitions, overrides, defFlight, import, imports, translator>>

\* The learner's dictionary, then the story's glossary and the item's metadata, which
\* carry a gloss or not.
ResolveOwn(l) ==
    \E carried \in BOOLEAN :
        /\ lookup[l].pc = "own"
        /\ lookup' = [lookup EXCEPT ![l] = IF carried \/ @.key \in overrides THEN NoLookup ELSE [@ EXCEPT !.pc = "shared"]]
        /\ UNCHANGED <<definitions, overrides, defFlight, import, imports, translator>>

\* What was stored answers, otherwise the model has to.
ResolveShared(l) ==
    /\ lookup[l].pc = "shared"
    /\ lookup' = [lookup EXCEPT ![l] = IF @.stored # {} THEN NoLookup ELSE [@ EXCEPT !.pc = "call"]]
    /\ UNCHANGED <<definitions, overrides, defFlight, import, imports, translator>>

\* One model call for all who look a key up at a time.
JoinFlight(l) ==
    LET key == lookup[l].key
    IN  /\ lookup[l].pc = "call"
        /\ lookup' = [lookup EXCEPT ![l].pc = IF defFlight[key] = "none" THEN "model" ELSE "wait"]
        /\ defFlight' = [defFlight EXCEPT ![key] = IF @ = "none" THEN l ELSE @]
        /\ UNCHANGED <<definitions, overrides, import, imports, translator>>

\* The call succeeds and its definition is stored (or not: the error is dropped), or the
\* call fails; all who wait get the same.
EndFlight(l) ==
    LET key == lookup[l].key
        all == {m \in Lookups : m = l \/ (lookup[m].pc = "wait" /\ lookup[m].key = key)}
    IN  /\ lookup[l].pc = "model"
        /\ definitions' \in {definitions, Upserted({Def(key, "llm")})}
        /\ lookup' = [m \in Lookups |-> IF m \in all THEN NoLookup ELSE lookup[m]]
        /\ defFlight' = [defFlight EXCEPT ![key] = "none"]
        /\ UNCHANGED <<overrides, import, imports, translator>>

LookupStep(l) == (\E k \in WordKeys : ReadStored(l, k)) \/ ResolveOwn(l) \/ ResolveShared(l)
                 \/ JoinFlight(l) \/ EndFlight(l)

-----------------------------------------------------------------------------
\* What a dump with these headwords defines: a lemma brings its forms, which may be
\* headwords themselves.
Imported(headwords, source) ==
    {Def(key, source) : key \in headwords \cup IF Lemma \in headwords THEN {Form} ELSE {}}

StartImport(native) ==
    /\ import.pc = "idle"
    /\ imports < MaxImports
    /\ imports' = imports + 1
    /\ import' = [NoImport EXCEPT !.pc = "read", !.native = native, !.record = "running"]
    /\ UNCHANGED <<definitions, overrides, lookup, defFlight, translator>>

\* The whole dump is read before anything is stored; a bad line ends it.
ReadDump ==
    /\ import.pc = "read"
    /\ \/ import' = [import EXCEPT !.pc = "record", !.failed = TRUE]
       \/ \E headwords \in SUBSET WordKeys : import' = [import EXCEPT !.pc = "flush",
              !.batch = Imported(headwords, IF import.native THEN "native" ELSE "wiktionary")]
    /\ UNCHANGED <<definitions, overrides, lookup, defFlight, imports, translator>>

\* One transaction for all definitions.
FlushDefinitions ==
    /\ import.pc = "flush"
    /\ \/ /\ definitions' = Upserted(import.batch)
          /\ import' = [import EXCEPT !.pc = "record"]
       \/ /\ import' = [import EXCEPT !.pc = "record", !.failed = TRUE]
          /\ UNCHANGED definitions
    /\ UNCHANGED <<overrides, lookup, defFlight, imports, translator>>

\* The deferred update of the import's record, which may fail as well.
RecordImport ==
    /\ import.pc = "record"
    /\ \E record \in {import.record, IF import.failed THEN "failed" ELSE "complete"} :
          import' = [NoImport EXCEPT !.record = record]
    /\ UNCHANGED <<definitions, overrides, lookup, defFlight, imports, translator>>

\* The tool is stopped; its record stays running.
ImportDies ==
    /\ import.pc # "idle"
    /\ import' = [NoImport EXCEPT !.record = import.record]
    /\ UNCHANGED <<definitions, overrides, lookup, defFlight, imports, translator>>

ImportStep == (\E native \in BOOLEAN : StartImport(native)) \/ ReadDump \/ FlushDefinitions \/ RecordImport \/ ImportDies

-----------------------------------------------------------------------------
\* Native definitions of keys without an English one.
Untranslated == {d \in definitions : d.source = "native"
                    /\ \A e \in ListDefinitions(d.key) : e.source \notin {"wiktionary", "translated"}}

ListUntranslated ==
    /\ translator.pc = "list"
    /\ \E batch \in SUBSET Untranslated :
          /\ Cardinality(batch) = IF Cardinality(Untranslated) < BatchSize THEN Cardinality(Untranslated) ELSE BatchSize
          /\ translator' = IF batch = {} THEN [pc |-> "over", batch |-> {}] ELSE [pc |-> "model", batch |-> batch]
    /\ UNCHANGED <<definitions, overrides, lookup, defFlight, import, imports>>

X_AnyAnswer ==
    /\ translator.pc = "model"
    /\ \E usable \in SUBSET translator.batch : translator' = [pc |-> "store", batch |-> usable]
    /\ UNCHANGED <<definitions, overrides, lookup, defFlight, import, imports>>

\* The model may leave entries out; an answer without any ends the program.
TranslateBatch ==
    /\ translator.pc = "model"
    /\ \E usable \in SUBSET translator.batch :
          translator' = IF usable = {} THEN [pc |-> "over", batch |-> {}] ELSE [pc |-> "store", batch |-> usable]
    /\ UNCHANGED <<definitions, overrides, lookup, defFlight, import, imports>>

\* A translation is a row beside the native one; a failure ends the program.
StoreTranslations ==
    /\ translator.pc = "store"
    /\ \/ /\ definitions' = Upserted({Def(d.key, "translated") : d \in translator.batch})
          /\ translator' = [pc |-> "list", batch |-> {}]
       \/ /\ translator' = [pc |-> "over", batch |-> {}]
          /\ UNCHANGED definitions
    /\ UNCHANGED <<overrides, lookup, defFlight, import, imports>>

TranslateStep == ListUntranslated \/ TranslateBatch \/ StoreTranslations

\* The tool is run again.
TranslateAgain ==
    /\ translator.pc = "over"
    /\ translator' = [pc |-> "list", batch |-> {}]
    /\ UNCHANGED <<definitions, overrides, lookup, defFlight, import, imports>>

DefinitionNext ==
    \/ SaveOverride(Form) \/ DeleteOverride(Form)
    \/ \E l \in Lookups : LookupStep(l)
    \/ ImportStep \/ TranslateStep \/ TranslateAgain

-----------------------------------------------------------------------------
\* kaikki-translate's loop ends, although the model may leave entries untranslated and
\* an import may add new ones meanwhile: every round stores a translation or stops.
TranslatorEnds == (translator.pc = "list") ~> (translator.pc = "over")
=============================================================================
