---------------------------- MODULE StudySession ----------------------------
(***************************************************************************)
(* What the study server promises about a session, as its learner sees it: *)
(* the status pill (being prepared, readable, failed) and the text behind  *)
(* it.  A session the learner ordered is prepared once and is readable for *)
(* good; a failed one can be tried again.  A text the learner brought is   *)
(* there from the start and only the learner changes it; preparing its     *)
(* tasks hides it for a while and never loses it.                          *)
(*                                                                         *)
(* SessionGeneration implements this while learners do not start reading   *)
(* a generated session and the database answers (see the README).          *)
(***************************************************************************)
EXTENDS Naturals

CONSTANTS Sessions,
          Brought,      \* the sessions whose text the learner brings
          MaxText       \* bound: the texts of one session

VARIABLES view,         \* what the session's pill says
          text          \* the text the learner can read, 0 for none

Views == {"absent", "preparing", "readable", "failed", "gone"}

Init == view = [s \in Sessions |-> "absent"] /\ text = [s \in Sessions |-> 0]

Show(s, v, x) == /\ view' = [view EXCEPT ![s] = v]
                 /\ text' = [text EXCEPT ![s] = x]

Order(s) == /\ view[s] = "absent"
            /\ s \notin Brought
            /\ Show(s, "preparing", 0)

Bring(s) == /\ view[s] = "absent"
            /\ s \in Brought
            /\ Show(s, "readable", 1)

Publish(s) == /\ view[s] = "preparing"
              /\ \E x \in 1..MaxText :
                    /\ text[s] # 0 => x = text[s]
                    /\ Show(s, "readable", x)

Fail(s) == /\ view[s] = "preparing"
           /\ s \notin Brought
           /\ Show(s, "failed", text[s])

Prepare(s) == /\ view[s] = IF s \in Brought THEN "readable" ELSE "failed"
              /\ Show(s, "preparing", text[s])

Edit(s) == /\ view[s] = "readable"
           /\ s \in Brought
           /\ \E x \in 1..MaxText : x > text[s] /\ Show(s, "readable", x)

Remove(s) == /\ view[s] \notin {"absent", "gone"}
             /\ Show(s, "gone", 0)

Next == \E s \in Sessions :
            \/ Order(s) \/ Bring(s) \/ Publish(s) \/ Fail(s)
            \/ Prepare(s) \/ Edit(s) \/ Remove(s)

Spec == Init /\ [][Next]_<<view, text>>
=============================================================================
