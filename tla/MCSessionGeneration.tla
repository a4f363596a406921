------------------------ MODULE MCSessionGeneration ------------------------
(***************************************************************************)
(* Small instances of SessionGeneration: one or two sessions of one        *)
(* learner, of the kinds each run needs.                                   *)
(***************************************************************************)
EXTENDS SessionGeneration

CONSTANTS s1, s2, learner      \* model values

AllSystem == [s \in Sessions |-> "system"]
AllTopicGuided == [s \in Sessions |-> "topic_guided"]
AllUserAdded == [s \in Sessions |-> "user_added"]
StoryAndPhrases == [s \in Sessions |-> IF s = s1 THEN "system" ELSE "phrases"]
UserAddedAndPhrases == [s \in Sessions |-> IF s = s1 THEN "user_added" ELSE "phrases"]
OneLearner == [s \in Sessions |-> learner]
============================================================================
