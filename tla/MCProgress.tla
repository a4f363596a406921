----------------------------- MODULE MCProgress -----------------------------
(***************************************************************************)
(* The two services whose work has to come to an end: the progress stream  *)
(* of a session, and the tool that translates definitions while learners   *)
(* look them up and a dump is imported.  They share no state; the initial  *)
(* state chooses the one that acts.                                        *)
(***************************************************************************)
EXTENDS ProgressStream, DefinitionCache

CONSTANTS lemma, form, l1, l2

VARIABLE watching    \* whether the stream acts

MCStages == <<"a", "b">>

vars == <<watching, streamVars, definitionVars>>

\* What does not act begins in one way.
Init ==
    /\ watching \in BOOLEAN
    /\ StreamInit /\ DefinitionInit
    /\ ~watching => samePlace

Watching(A) == watching /\ A /\ UNCHANGED <<watching, definitionVars>>
Defining(A) == ~watching /\ A /\ UNCHANGED <<watching, streamVars>>

Next == Watching(StreamNext) \/ Defining(DefinitionNext)

\* River keeps a run going, the stream's goroutine polls, and the tool that translates runs.
Fairness ==
    /\ WF_vars(Watching(RunStep))
    /\ WF_vars(Watching(StreamStep))
    /\ WF_vars(Defining(TranslateStep))

Spec == Init /\ [][Next]_vars /\ Fairness

-----------------------------------------------------------------------------
\* ProgressStream.StreamEnds where the session's run and its stream act: a stream does not
\* outlive the last run.
StreamsEnd == watching => StreamEnds

\* DefinitionCache.TranslatorEnds where definitions are imported, looked up and translated:
\* kaikki-translate's loop comes to an end.
TranslationEnds == ~watching => TranslatorEnds
=============================================================================
