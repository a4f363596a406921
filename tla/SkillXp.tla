------------------------------ MODULE SkillXp ------------------------------
(***************************************************************************)
(* Skill experience (internal/skills): the rows of user_skill_xp of one    *)
(* learner, the deltas a graded task makes in them, and the job that       *)
(* confirms or rejects a tier that was crossed.                            *)
(*                                                                         *)
(* XPService reads the rows of the skills a task exercises, computes the   *)
(* changes and writes all rows in one transaction, with an audit log that  *)
(* nothing reads back; the read is outside it.  VerifySkill reads a row,   *)
(* asks the model (or nobody), and writes the whole row back.  Nothing     *)
(* compares what is overwritten.                                           *)
(***************************************************************************)
EXTENDS Integers, FiniteSets, Sequences

CONSTANTS
    Skills,        \* skills of the language
    SkillsOf,      \* item -> skills it is declared to exercise
    XPPerTier, TierCount, WrongAnswerPenalty,
    Learners       \* submissions that may earn experience

ASSUME XPAssumption ==
    XPPerTier \in Nat \ {0} /\ TierCount \in Nat /\ WrongAnswerPenalty \in Nat

VARIABLES
    xp,           \* skill -> row of user_skill_xp
    xpRun,        \* submission -> its place in XPService.ApplyTaskSignal
    verify,       \* skill -> its verification job
    verifier,     \* "none" when no model is configured, else "llm"
    confirmed     \* skill -> highest tier a verification has confirmed

skillVars == <<xp, xpRun, verify, verifier, confirmed>>

AtLeast(n, low) == IF n < low THEN low ELSE n
Clamp(n, low, high) == IF n < low THEN low ELSE IF n > high THEN high ELSE n

ZeroXP == [xp |-> 0, tier |-> 0, pending |-> FALSE]

SkillsOfItems(items) == UNION {SkillsOf[i] : i \in items}

\* The engine: skills that were demonstrated earn, the others pay for a wrong answer
\* once they have a tier to lose.
XPDelta(row, demonstrated, correct, base) ==
    IF demonstrated THEN base
    ELSE IF ~correct /\ row.tier >= 1 THEN -WrongAnswerPenalty
    ELSE 0

X_PendingOnRise(row, delta) ==
    LET after == AtLeast(row.xp + delta, 0)
        tier  == Clamp(after \div XPPerTier, 0, TierCount)
    IN  [xp |-> after, tier |-> tier, pending |-> tier > Clamp(row.tier, 0, TierCount)]

BuildXPChange(row, delta) ==
    LET after == AtLeast(row.xp + delta, 0)
        tier  == Clamp(after \div XPPerTier, 0, TierCount)
    IN  [xp |-> after, tier |-> tier,
         pending |-> row.pending \/ tier > Clamp(row.tier, 0, TierCount)]

NoXPRun == [pc |-> "idle", items |-> {}, shown |-> {}, correct |-> FALSE, base |-> 0,
            current |-> [k \in Skills |-> ZeroXP], left |-> {}]

NoVerify == [status |-> "none", copy |-> ZeroXP]

SkillInit ==
    /\ xp = [k \in Skills |-> ZeroXP]
    /\ xpRun = [q \in Learners |-> NoXPRun]
    /\ verify = [k \in Skills |-> NoVerify]
    /\ verifier \in {"none", "llm"}
    /\ confirmed = [k \in Skills |-> 0]

\* The task service calls with the targets of the task, those the answer demonstrated, its
\* verdict and the experience the task is worth.
BeginXPRun(q, items, shown, correct, base) ==
    xpRun' = [xpRun EXCEPT ![q] = [NoXPRun EXCEPT !.pc = "load", !.items = items, !.shown = shown,
                                                  !.correct = correct, !.base = base]]

\* The associations of the targets are materialised and the current rows are read.
LoadCurrent(q) ==
    /\ xpRun[q].pc = "load"
    /\ xpRun' = [xpRun EXCEPT ![q].pc = "store", ![q].current = xp]
    /\ UNCHANGED <<xp, verify, verifier, confirmed>>

Deltas(q) ==
    LET run == xpRun[q]
    IN  [k \in SkillsOfItems(run.items) |->
            XPDelta(run.current[k], k \in SkillsOfItems(run.shown), run.correct, run.base)]

\* The transaction over all changed skills; the changes left pending are then to be
\* enqueued for verification.
StoreXP(q) ==
    LET run     == xpRun[q]
        changed == {k \in DOMAIN Deltas(q) : Deltas(q)[k] # 0}
        after   == [k \in changed |-> BuildXPChange(run.current[k], Deltas(q)[k])]
    IN  /\ run.pc = "store"
        /\ xp' = [k \in Skills |-> IF k \in changed THEN after[k] ELSE xp[k]]
        /\ xpRun' = [xpRun EXCEPT ![q] = [NoXPRun EXCEPT
                        !.pc = "enqueue", !.left = {k \in changed : after[k].pending}]]
        /\ UNCHANGED <<verify, verifier, confirmed>>

\* One job per skill while one is pending or running: a second insertion is dropped.
EnqueueSkillVerify(q, k) ==
    /\ xpRun[q].pc = "enqueue"
    /\ k \in xpRun[q].left
    /\ xpRun' = [xpRun EXCEPT ![q].left = @ \ {k}]
    /\ verify' = [verify EXCEPT ![k].status = IF @ = "none" THEN "queued" ELSE @]
    /\ UNCHANGED <<xp, verifier, confirmed>>

XPApplied(q) ==
    /\ xpRun[q].pc = "enqueue"
    /\ xpRun[q].left = {}
    /\ xpRun' = [xpRun EXCEPT ![q].pc = "done"]
    /\ UNCHANGED <<xp, verify, verifier, confirmed>>

\* The worker reads the row; nothing pending ends the job.
StartVerify(k) ==
    /\ verify[k].status = "queued"
    /\ verify' = [verify EXCEPT ![k] = IF xp[k].pending
                                       THEN [status |-> "running", copy |-> xp[k]]
                                       ELSE NoVerify]
    /\ UNCHANGED <<xp, xpRun, verifier, confirmed>>

Promote(k) ==
    /\ verify[k].status = "running"
    /\ xp' = [xp EXCEPT ![k] = [verify[k].copy EXCEPT !.pending = FALSE]]
    /\ confirmed' = [confirmed EXCEPT ![k] = AtLeast(verify[k].copy.tier, @)]
    /\ verify' = [verify EXCEPT ![k] = NoVerify]
    /\ UNCHANGED <<xpRun, verifier>>

X_KeepTier(row) == [xp |-> AtLeast(row.tier * XPPerTier - 1, 0), tier |-> row.tier, pending |-> FALSE]

RejectedRow(row) ==
    LET below == AtLeast(row.tier * XPPerTier - 1, 0)
    IN  [xp |-> below, tier |-> below \div XPPerTier, pending |-> FALSE]

Reject(k) ==
    /\ verify[k].status = "running"
    /\ verifier = "llm"
    /\ xp' = [xp EXCEPT ![k] = RejectedRow(verify[k].copy)]
    /\ verify' = [verify EXCEPT ![k] = NoVerify]
    /\ UNCHANGED <<xpRun, verifier, confirmed>>

\* The model cannot be reached: the job is retried or, after its last attempt (the
\* attempts are not counted), discarded.
VerifyFails(k) ==
    /\ verify[k].status = "running"
    /\ verifier = "llm"
    /\ \E next \in {"queued", "none"} : verify' = [verify EXCEPT ![k] = [NoVerify EXCEPT !.status = next]]
    /\ UNCHANGED <<xp, xpRun, verifier, confirmed>>

VerifySkill(k) == StartVerify(k) \/ Promote(k) \/ Reject(k) \/ VerifyFails(k)

ApplyXP(q) == LoadCurrent(q) \/ StoreXP(q) \/ XPApplied(q) \/ \E k \in Skills : EnqueueSkillVerify(q, k)

\* The rows under any grades, and under the verifications they bring about.
SkillNext ==
    \/ \E q \in Learners : \/ ApplyXP(q)
                           \/ \E items, shown \in SUBSET DOMAIN SkillsOf, correct \in BOOLEAN, base \in Nat :
                                 BeginXPRun(q, items, shown, correct, base) /\ UNCHANGED <<xp, verify, verifier, confirmed>>
    \/ \E k \in Skills : VerifySkill(k)

SkillSpec == SkillInit /\ [][SkillNext]_skillVars

\* What the level of the profile is derived from.
EffectiveTier(row) == IF row.pending \/ row.tier < 0 THEN 0 ELSE row.tier

-----------------------------------------------------------------------------
\* Tier and experience never disagree, whichever of the two writers wrote a row last and
\* whatever it had read (xp.go buildXPChange and verify.go both derive the tier).
TierAgreesWithXp ==
    \A k \in Skills : xp[k].tier = Clamp(xp[k].xp \div XPPerTier, 0, TierCount)

\* Without a model a tier counts for the learner's level only after a verification of that
\* tier or a higher one, however grades and verifications overlap (level.go effectiveTier).
ConfirmedBeforeEffective ==
    verifier = "none" => \A k \in Skills : EffectiveTier(xp[k]) <= confirmed[k]
=============================================================================
