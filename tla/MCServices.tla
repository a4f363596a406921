----------------------------- MODULE MCServices -----------------------------
(***************************************************************************)
(* The services that share no state with one another.  The initial state   *)
(* chooses one of them, which then acts alone; the others stay as they     *)
(* begin.                                                                  *)
(***************************************************************************)
EXTENDS Conversation, Breakdowns, ModelCalls, ReaderClient,
        ReaderSpeech, ReaderText, SignIn,
        Profile, SessionPlan, Predictions, TaskContent, TLC

CONSTANTS a1, a2, c1, c2, s1, s2, s3, p1, p2, p3,
          Serving    \* the services of an instance

VARIABLE service    \* the one that acts

\* Two sentences of one template have a phrase in common.
MCPhrasesOf == (s1 :> {p1, p2}) @@ (s2 :> {p2, p3})

\* The audio of a sentence, its alignment, and the alignment of the whole story.
MCAsked == {[want |-> "audio", of |-> <<s1>>], [want |-> "alignment", of |-> <<s1>>],
            [want |-> "alignment", of |-> <<s1, s2>>]}

\* The gateway tries one of the two requests again, the client the other one.
MCAttempts == (c1 :> 1) @@ (c2 :> 2)
MCTries == (c1 :> 2) @@ (c2 :> 1)

\* One tab has two requests under way, the other one.
MCCalls == {<<a1, 1>>, <<a1, 2>>, <<a2, 1>>}

\* All short texts, and two that have several pages.
MCTexts ==
    UNION {[1..n -> {"word", "abbreviation", "end", "closing", "space", "break"}] : n \in 1..3}
    \cup {<<"word", "space", "word", "end", "closing", "space", "word", "word", "word", "word", "word", "end",
            "break", "closing", "word">>,
          <<"word", "word", "word", "word", "word", "word", "word", "word", "word", "end">>}

\* A language with three levels, and three skills of which the first two are vocabulary.
MCSkillGroups == ("Vocabulary" :> <<s1, s2>>) @@ ("Cases" :> <<s3>>)
MCLevelRules == <<[from |-> "low", to |-> "high",
                   needs |-> {[category |-> "Vocabulary", tier |-> 1, count |-> 0, percent |-> 50]}],
                  [from |-> "high", to |-> "top",
                   needs |-> {[category |-> "Vocabulary", tier |-> 1, count |-> 1, percent |-> 0],
                              [category |-> "Cases", tier |-> 1, count |-> 1, percent |-> 0]}]>>
\* Several sessions while no row changes; one session among the changes that reach a level
\* and the level above.  The top level has no topics of its own.
MCMaxPlanned == (0 :> 3) @@ [n \in 1..4 |-> 1]
MCMaxSkillChanges == [n \in 0..1 |-> 4] @@ [n \in 2..4 |-> 0]
MCTopicPools == ("low" :> <<p1, p2, p3>>) @@ ("high" :> <<s1, s2>>)

\* Two calls refresh one item.
MCRefreshedBy == (a1 :> s1) @@ (a2 :> s1)

vars == <<service, conversationVars, breakdownVars, modelVars, clientVars,
          speechVars, textVars, signInVars, profileVars, planVars,
          predictionVars, contentVars>>

\* What does not act begins in one way.
Init ==
    /\ service \in Serving
    /\ ConversationInit /\ BreakdownInit /\ ModelInit
    /\ ClientInit /\ SpeechInit /\ TextInit /\ SignInInit
    /\ ProfileInit /\ PlanInit /\ PredictionInit /\ ContentInit
    /\ service # "text" => text.tokens = <<"word">>
    /\ service # "profile" => account /\ settings.old = NoFields
    /\ service # "content" => taskSet.type = "production" /\ taskSet.targets = <<>>

Conversing ==
    /\ service = "conversation"
    /\ ConversationNext
    /\ UNCHANGED <<service, breakdownVars, modelVars, clientVars, speechVars, textVars,
                   signInVars, profileVars, planVars, predictionVars, contentVars>>

BreakingDown ==
    /\ service = "breakdowns"
    /\ BreakdownNext
    /\ UNCHANGED <<service, conversationVars, modelVars, clientVars, speechVars,
                   textVars, signInVars, profileVars, planVars, predictionVars, contentVars>>

Calling ==
    /\ service = "models"
    /\ ModelNext
    /\ UNCHANGED <<service, conversationVars, breakdownVars, clientVars, speechVars,
                   textVars, signInVars, profileVars, planVars, predictionVars, contentVars>>

ReadingOn ==
    /\ service = "client"
    /\ ClientNext
    /\ UNCHANGED <<service, conversationVars, breakdownVars, modelVars, speechVars,
                   textVars, signInVars, profileVars, planVars, predictionVars, contentVars>>

Speaking ==
    /\ service = "speech"
    /\ SpeechNext
    /\ UNCHANGED <<service, conversationVars, breakdownVars, modelVars, clientVars,
                   textVars, signInVars, profileVars, planVars, predictionVars, contentVars>>

Paging ==
    /\ service = "text"
    /\ TextNext
    /\ UNCHANGED <<service, conversationVars, breakdownVars, modelVars, clientVars,
                   speechVars, signInVars, profileVars, planVars, predictionVars, contentVars>>

StayingSignedIn ==
    /\ service = "signin"
    /\ SignInNext
    /\ UNCHANGED <<service, conversationVars, breakdownVars, modelVars, clientVars,
                   speechVars, textVars, profileVars, planVars, predictionVars, contentVars>>

Patching ==
    /\ service = "profile"
    /\ ProfileNext
    /\ UNCHANGED <<service, conversationVars, breakdownVars, modelVars, clientVars,
                   speechVars, textVars, signInVars, planVars, predictionVars, contentVars>>

Planning ==
    /\ service = "plan"
    /\ PlanNext
    /\ UNCHANGED <<service, conversationVars, breakdownVars, modelVars, clientVars,
                   speechVars, textVars, signInVars, profileVars, predictionVars, contentVars>>

Predicting ==
    /\ service = "predictions"
    /\ PredictionNext
    /\ UNCHANGED <<service, conversationVars, breakdownVars, modelVars, clientVars,
                   speechVars, textVars, signInVars, profileVars, planVars, contentVars>>

Composing ==
    /\ service = "content"
    /\ ContentNext
    /\ UNCHANGED <<service, conversationVars, breakdownVars, modelVars, clientVars, speechVars,
                   textVars, signInVars, profileVars, planVars, predictionVars>>

Next ==
    \/ Conversing \/ BreakingDown \/ Calling \/ ReadingOn \/ Speaking
    \/ Paging \/ StayingSignedIn \/ Patching \/ Planning \/ Predicting
    \/ Composing

Spec == Init /\ [][Next]_vars
=============================================================================
