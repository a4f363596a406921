----------------------------- MODULE MCLearning -----------------------------
(***************************************************************************)
(* Instances of Learning: the learner is busy with a part of it, chosen in *)
(* the initial state, so that each part can be given larger bounds than    *)
(* all of them at once.  The steps are those of LearningNext.              *)
(***************************************************************************)
EXTENDS Learning, TLC

CONSTANTS w1, w2, storyA, storyB, skill, t1, t2, q1, q2, r1, r2, Busy

VARIABLE busy    \* what the learner is busy with

vars == <<learningVars, busy>>

MCGates == [recognizingExposure |-> 2, recognizingVariety |-> 1, recognizingLookups |-> 70,
            acquiringVariety |-> 1, acquiringCorrect |-> 1, acquiringLookups |-> 60,
            acquiredTotal |-> 2, acquiredAccuracy |-> 75, acquiredLookups |-> 50, acquiredVariety |-> 1]

MCEventOf == <<[story |-> storyA, kind |-> "lookup", item |-> w1],
               [story |-> storyA, kind |-> "rate", item |-> w1],
               [story |-> storyA, kind |-> "rate", item |-> w1],
               [story |-> storyB, kind |-> "not_ready", item |-> w1],
               [story |-> storyB, kind |-> "reference_peek", item |-> w1]>>

MCWords == (storyA :> (w1 :> 2 @@ w2 :> 0)) @@ (storyB :> (w1 :> 1 @@ w2 :> 1))
MCSessionTargets == (storyA :> {w2}) @@ (storyB :> {w1})
MCSkillsOf == (w1 :> {skill}) @@ (w2 :> {})
MCTargetsOf == (t1 :> {w1}) @@ (t2 :> {w1, w2})
MCRuleGraded == (t1 :> TRUE) @@ (t2 :> FALSE)
MCBaseXP == (t1 :> 10) @@ (t2 :> 20)
MCReportOf == (r1 :> t1) @@ (r2 :> t2)

MCMaxFaults == [kind \in TaskFaults |-> IF kind = "generation" THEN 2 ELSE 1]

\* Who acts in each part.
May(actor) ==
    actor \in CASE busy = "reading"   -> {storyA}
                [] busy = "rereading" -> {storyA, storyB}
                [] busy = "rating"    -> {storyA, "level"}
                [] busy = "studying"  -> {storyB, q1}
                [] busy = "answering" -> {q1, q2}
                [] busy = "reporting" -> {r1, r2, q1}

Init ==
    /\ LearningInit
    /\ busy \in Busy
    /\ busy \notin {"answering", "reporting"} => faultKind = "none" /\ verifier = "none"
    /\ busy = "answering" => faultKind = "none" \/ (faultKind = "crash" /\ verifier = "none")
    /\ busy = "reporting" => verifier = "none"

\* With two stories at once no run fails.
Reading(s) ==
    /\ May(s)
    /\ \/ \E last \in StoryEvents(s), lost \in BOOLEAN : Flush(s, last, lost) /\ UNCHANGED uk
       \/ busy # "rereading" /\ FailSignals(s)
    /\ UNCHANGED <<signal, taskVars, skillVars, busy>>

Derive(s) == SignalStep(s) /\ UNCHANGED <<signal, taskVars, skillVars, busy>>

Rating(i) ==
    /\ \/ May("level") /\ LoadForLevel(i)
       \/ StoreLevel(i)
    /\ UNCHANGED <<signal, taskVars, skillVars, busy>>

RatingForm(e) ==
    /\ May(EventOf[e].story)
    /\ SetSurfaceLevel(e)
    /\ UNCHANGED <<signal, taskVars, skillVars, busy>>

\* The first submission answers the first task; the second one follows the first.
Answering(q) ==
    /\ \/ /\ May(q)
          /\ q = q2 => submission[q1].pc # "idle"
          /\ \E t \in IF q = q1 THEN {t1} ELSE Tasks : Submit(q, t)
       \/ SubmitStep(q)
       \/ SubmissionDies(q)
    /\ UNCHANGED <<readerVars, busy>>

Verifying(k) == VerifyStep(k) /\ UNCHANGED <<readerVars, busy>>

Reporting(r) ==
    /\ \/ May(r) /\ ReportTask(r)
       \/ EnqueueRegenerationFails(r) \/ ReportDies(r) \/ RegenDies(r)
    /\ UNCHANGED <<readerVars, busy>>

Regenerating(r) == (ReportStep(r) \/ RegenStep(r)) /\ UNCHANGED <<readerVars, busy>>

Next ==
    \/ \E s \in Stories : Reading(s) \/ Derive(s)
    \/ \E i \in Items : Rating(i)
    \/ \E e \in Events : RatingForm(e)
    \/ \E q \in Signals : Answering(q)
    \/ \E k \in Skills : Verifying(k)
    \/ \E r \in Reports : Reporting(r) \/ Regenerating(r)

\* River keeps its workers going, and a handler that runs goes on to its next statement.
Fairness ==
    /\ \A s \in Stories : WF_vars(Derive(s))
    /\ \A r \in Reports : WF_vars(Regenerating(r))

Spec == Init /\ [][Next]_vars /\ Fairness

=============================================================================
