---------------------------- MODULE ReaderClient ----------------------------
(***************************************************************************)
(* The reader in the browser (web/src/views/reader.tsx) and the two        *)
(* requests it sends while a story is read: batches of reader events and   *)
(* bookmarks.  Requests may fail, and a request that was served may lose   *)
(* its answer.  Events wait for a flush and are put back when it fails;    *)
(* bookmarks are saved one after the other, except the ones that are sent  *)
(* as the page is hidden or left, which wait for nobody.                   *)
(*                                                                         *)
(* An event and a queued bookmark are known by their numbers; the word a   *)
(* bookmark is at is left out.  One page of one story is modelled, until   *)
(* it is left or the learner edits the story.                              *)
(***************************************************************************)
EXTENDS Naturals, Sequences, SequencesExt

CONSTANTS
    MaxEvents,        \* bound: events of the page
    MaxSaves,         \* bound: bookmarks that are queued
    MaxNetFailures    \* bound: requests that fail or lose their answer

VARIABLES
    page,       \* open, finish, the batch the finish or the edit waits for, edit
    made,       \* events that happened so far
    pending,    \* events that wait for a flush
    batches,    \* batches on their way: the events, and what became of them
    chain,      \* queued bookmarks, the first one on its way
    leaving,    \* a bookmark was sent as the page was left or hidden, and is on its way
    server,     \* what the server has: finished, events, edited, the last queued save it stored
    queued,     \* bookmarks queued so far
    netFailures

clientVars == <<page, made, pending, batches, chain, leaving, server, queued, netFailures>>

ClientInit ==
    /\ page = [open |-> TRUE, finish |-> "idle", awaits |-> {}, edit |-> "none"]
    /\ made = 0
    /\ pending = {}
    /\ batches = {}
    /\ chain = <<>>
    /\ leaving = FALSE
    /\ server = [finished |-> FALSE, events |-> {}, edited |-> FALSE, save |-> 0]
    /\ queued = 0
    /\ netFailures = 0

Reading == page.open /\ page.edit = "none"

\* A save that is queued starts when the one before it has settled, however it did.
Queue(finished) ==
    /\ queued < MaxSaves
    /\ queued' = queued + 1
    /\ chain' = Append(chain, [no |-> queued + 1, finished |-> finished, at |-> "queued"])

FlushPending ==
    /\ batches' = IF pending = {} THEN batches ELSE batches \cup {[events |-> pending, at |-> "sent"]}
    /\ pending' = {}

\* flush() has settled for whoever awaits it.
FlushSettled == \A b \in batches : b.events # page.awaits

EnqueueEvent ==
    /\ Reading
    /\ made < MaxEvents
    /\ made' = made + 1
    /\ pending' = pending \cup {made + 1}
    /\ UNCHANGED <<page, batches, chain, leaving, server, queued, netFailures>>

\* The timer of the flush, or the page is hidden.
Flush ==
    /\ page.open
    /\ pending # {}
    /\ FlushPending
    /\ UNCHANGED <<page, made, chain, leaving, server, queued, netFailures>>

\* The timer of the bookmark, a new page, the bookmark button, the way to the tasks.
QueueProgressSave ==
    /\ Reading
    /\ Queue(FALSE)
    /\ UNCHANGED <<page, made, pending, batches, leaving, server, netFailures>>

HidePage ==
    /\ page.open
    /\ leaving' = TRUE
    /\ FlushPending
    /\ UNCHANGED <<page, made, chain, server, queued, netFailures>>

\* onCleanup: a last bookmark and a last flush, which nobody will put back.  After an
\* edit neither is sent.
LeavePage ==
    /\ page.open
    /\ page.edit \in {"none", "done"}
    /\ page' = [page EXCEPT !.open = FALSE]
    /\ leaving' = (leaving \/ page.edit # "done")
    /\ FlushPending
    /\ UNCHANGED <<made, chain, server, queued, netFailures>>

-----------------------------------------------------------------------------
\* A request fails: the server refuses it, or it never gets there.
NetFails == netFailures < MaxNetFailures /\ netFailures' = netFailures + 1

\* A batch is stored as a whole, and an event that is stored already is skipped.
StoreEvents(b) ==
    /\ b.at = "sent"
    /\ \/ /\ server' = [server EXCEPT !.events = @ \cup b.events]
          /\ \/ batches' = (batches \ {b}) \cup {[b EXCEPT !.at = "stored"]} /\ UNCHANGED netFailures
             \/ batches' = (batches \ {b}) \cup {[b EXCEPT !.at = "failed"]} /\ NetFails
       \/ /\ batches' = (batches \ {b}) \cup {[b EXCEPT !.at = "failed"]}
          /\ NetFails
          /\ UNCHANGED server
    /\ UNCHANGED <<page, made, pending, chain, leaving, queued>>

X_DropFailed(b) ==
    /\ b.at \in {"stored", "failed"}
    /\ batches' = batches \ {b}
    /\ UNCHANGED <<page, made, pending, chain, leaving, server, queued, netFailures>>

\* A failed batch is put back for the next flush, if there is still a page to send it.
SettleFlush(b) ==
    /\ b.at \in {"stored", "failed"}
    /\ batches' = batches \ {b}
    /\ pending' = IF b.at = "failed" /\ page.open THEN pending \cup b.events ELSE pending
    /\ UNCHANGED <<page, made, chain, leaving, server, queued, netFailures>>

SendSave ==
    /\ chain # <<>>
    /\ Head(chain).at = "queued"
    /\ chain' = [chain EXCEPT ![1].at = "sent"]
    /\ UNCHANGED <<page, made, pending, batches, leaving, server, queued, netFailures>>

\* UpsertReadingProgress: the bookmark is overwritten, a finish is kept.
Upsert(finished) == [server EXCEPT !.finished = @ \/ finished]

StoreSave(i) ==
    LET s == chain[i]
        stored == [Upsert(s.finished) EXCEPT !.save = s.no]
    IN  /\ s.at = "sent"
        /\ \/ /\ server' = stored
              /\ \/ /\ chain' = [chain EXCEPT ![i].at = "answered", ![i].finished = stored.finished]
                    /\ UNCHANGED netFailures
                 \/ chain' = [chain EXCEPT ![i].at = "failed"] /\ NetFails
           \/ chain' = [chain EXCEPT ![i].at = "failed"] /\ NetFails /\ UNCHANGED server
        /\ UNCHANGED <<page, made, pending, batches, leaving, queued>>

\* The answer tells whether the story is finished; the learner may try again to finish it
\* when the save fails.
SettleSave ==
    LET s == Head(chain)
    IN  /\ chain # <<>>
        /\ s.at \in {"answered", "failed"}
        /\ chain' = Tail(chain)
        /\ page' = [page EXCEPT !.finish = CASE s.at = "answered" /\ s.finished /\ page.open -> "done"
                                             [] s.at = "failed" /\ s.finished /\ @ = "saving" -> "idle"
                                             [] OTHER -> @]
        /\ UNCHANGED <<made, pending, batches, leaving, server, queued, netFailures>>

\* A bookmark of a page that is left or hidden: nobody waits for it.
StoreLeaving ==
    /\ leaving
    /\ leaving' = FALSE
    /\ \/ server' = Upsert(FALSE) /\ UNCHANGED netFailures
       \/ NetFails /\ UNCHANGED server
    /\ UNCHANGED <<page, made, pending, batches, chain, queued>>

-----------------------------------------------------------------------------
\* finishReading: the events first, then the bookmark of the last word.
FinishReading ==
    /\ Reading
    /\ page.finish = "idle"
    /\ page' = [page EXCEPT !.finish = "flushing", !.awaits = pending]
    /\ FlushPending
    /\ UNCHANGED <<made, chain, leaving, server, queued, netFailures>>

SaveFinished ==
    /\ page.finish = "flushing"
    /\ FlushSettled
    /\ Queue(TRUE)
    /\ page' = [page EXCEPT !.finish = "saving"]
    /\ UNCHANGED <<made, pending, batches, leaving, server, netFailures>>

\* saveStoryEdit: a flush, the queued bookmarks, then the edit, which takes the story's
\* events and bookmark away.
SaveStoryEdit ==
    /\ Reading
    /\ page.finish # "flushing"
    /\ page' = [page EXCEPT !.edit = "flushing", !.awaits = pending]
    /\ FlushPending
    /\ UNCHANGED <<made, chain, leaving, server, queued, netFailures>>

SendEdit ==
    /\ page.edit = "flushing"
    /\ FlushSettled
    /\ chain = <<>>
    /\ page' = [page EXCEPT !.edit = "sent"]
    /\ UNCHANGED <<made, pending, batches, chain, leaving, server, queued, netFailures>>

StoreEdit ==
    /\ page.edit = "sent"
    /\ \/ /\ server' = [server EXCEPT !.finished = FALSE, !.events = {}, !.edited = TRUE]
          /\ \/ /\ page' = [page EXCEPT !.edit = "done", !.finish = "idle"]
                /\ pending' = {}
                /\ UNCHANGED netFailures
             \/ page' = [page EXCEPT !.edit = "none"] /\ NetFails /\ UNCHANGED pending
       \/ page' = [page EXCEPT !.edit = "none"] /\ NetFails /\ UNCHANGED <<server, pending>>
    /\ UNCHANGED <<made, batches, chain, leaving, queued>>

ClientNext ==
    \/ EnqueueEvent \/ Flush \/ QueueProgressSave \/ HidePage \/ LeavePage
    \/ \E b \in batches : StoreEvents(b) \/ SettleFlush(b)
    \/ SendSave \/ (\E i \in DOMAIN chain : StoreSave(i)) \/ SettleSave
    \/ StoreLeaving \/ FinishReading \/ SaveFinished \/ SaveStoryEdit \/ SendEdit \/ StoreEdit

ClientSpec == ClientInit /\ [][ClientNext]_clientVars

-----------------------------------------------------------------------------
OnTheirWay == UNION {b.events : b \in batches}

\* Whatever fails, an event of the page is stored, on its way or waiting for the next flush;
\* a page that was left has none waiting.
EventsAreKept ==
    IF page.open THEN 1..made = server.events \cup OnTheirWay \cup pending ELSE pending = {}

\* What the learner was told is finished is finished.
FinishIsKept == page.finish = "done" => server.finished

\* A queued bookmark is never overwritten by one that was queued before it.
SavesInOrder == \A i \in DOMAIN chain : chain[i].at \in {"queued", "sent"} => server.save < chain[i].no

\* reader.tsx "requeue for the next flush": nothing the learner did in the reader is lost on
\* its way to the server before the story is edited.
NothingReadIsLost == ~server.edited => EventsAreKept /\ FinishIsKept /\ SavesInOrder
=============================================================================
