------------------------------ MODULE Learning ------------------------------
(***************************************************************************)
(* What happens to one learner's knowledge and skills: reading and rating  *)
(* (ReaderSignals), answering and reporting (TaskWork), composed over the  *)
(* same rows.  The two share the rows of user_knowledge and nothing else.  *)
(***************************************************************************)
EXTENDS ReaderSignals, TaskWork

learningVars == <<readerVars, taskVars, acquireVars, skillVars>>

LearningInit == AcquireInit /\ ReaderInit /\ SkillInit /\ TaskInit

\* The log, the jobs that derive signals from it, and the ratings.
ReaderNext ==
    \/ \E s \in Stories :
          \/ \E last \in StoryEvents(s), lost \in BOOLEAN : Flush(s, last, lost) /\ UNCHANGED uk
          \/ SignalStep(s) \/ FailSignals(s)
    \/ \E i \in Items : LoadForLevel(i) \/ StoreLevel(i)
    \/ \E e \in Events : SetSurfaceLevel(e)

LearningNext ==
    \/ ReaderNext /\ UNCHANGED <<signal, taskVars, skillVars>>
    \/ TaskNext /\ UNCHANGED readerVars

LearningSpec == LearningInit /\ [][LearningNext]_learningVars

-----------------------------------------------------------------------------
\* All that is in the log was read in this story.
OnlyRead(s) == \A e \in Events : InLog(e) => EventOf[e].story = s

\* The learner has neither rated the word nor answered a task about it.
OnlyReadersWrite(i) ==
    /\ rating[i].given = 0
    /\ \A q \in Signals : submission[q].pc # "idle" => i \notin TargetsOf[submission[q].task]

\* A learner who reads one story has every word of it counted that is marked as such, and
\* in the end sees the latest ratings given there: its runs may fail and be repeated, but
\* no other writer of a row comes between (ReaderSignals.ProcessedIsCounted, RatingsSettle).
OneStoryIsCounted ==
    \A s \in Stories : OnlyRead(s) =>
        \A i \in Items : RatingsSettle(i, s) /\ (OnlyReadersWrite(i) => ProcessedIsCounted(i, s))

\* An answer of a learner who does nothing else leaves its mark in the rows of its words and
\* their skills (TaskWork.AloneIsCredited).
OneAnswerIsCredited ==
    (\A e \in Events : ~InLog(e)) /\ (\A i \in Items : rating[i].given = 0) => AloneIsCredited
=============================================================================
