--------------------------- MODULE Clients_proofs ---------------------------
(***************************************************************************)
(* What is proved about the four components that a client and the server   *)
(* are both in: reading a session in a browser, staying signed in, the     *)
(* patches of a profile, and the progress stream of a generation.          *)
(***************************************************************************)
EXTENDS ReaderClient, ReaderText, SignIn, Profile, ProgressStream, FiniteSetTheorems, TLAPS

(***************************************************************************)
(* ReaderClient: what was read gets there.  Of a page that may be reloaded *)
(* any number of times each event waits, is on its way or is stored        *)
(* (EventInv), and of the bookmarks only the first in the chain is on its  *)
(* way, so that none is stored after a newer one (SaveInv).                *)
(***************************************************************************)

Batch == [events : SUBSET Nat, at : {"sent", "stored", "failed"}]
Save == [no : Nat, finished : BOOLEAN, at : {"queued", "sent", "answered", "failed"}]

ClientTypeOK ==
    /\ DOMAIN page = {"open", "finish", "awaits", "edit"} /\ page.open \in BOOLEAN
    /\ made \in Nat /\ queued \in Nat
    /\ pending \in SUBSET Nat
    /\ batches \in SUBSET Batch
    /\ chain \in Seq(Save)
    /\ server \in [finished : BOOLEAN, events : SUBSET Nat, edited : BOOLEAN, save : Nat]

\* Until the story is edited every event is somewhere; what a batch has stored is there.
EventInv == ~server.edited =>
    /\ EventsAreKept
    /\ \A b \in batches : b.at = "stored" => b.events \subseteq server.events

\* The chain is in the order of its numbers, and only its head is on its way.
SaveInv ==
    /\ \A i, j \in 1..Len(chain) : i < j => chain[i].no < chain[j].no
    /\ \A i \in 1..Len(chain) : chain[i].no <= queued
    /\ \A i \in 2..Len(chain) : chain[i].at = "queued"
    /\ server.save <= queued
    /\ SavesInOrder
    /\ \A i \in 2..Len(chain) : server.save < chain[i].no

\* An answer that says finished is true.
FinishInv == ~server.edited =>
    /\ FinishIsKept
    /\ \A i \in 1..Len(chain) : chain[i].at = "answered" /\ chain[i].finished => server.finished

ClientInv == ClientTypeOK /\ EventInv /\ SaveInv /\ FinishInv

\* A page that was just loaded has read nothing yet.
LEMMA InitialClient == ClientInit => ClientInv
  BY DEF ClientInit, ClientInv, ClientTypeOK, EventInv, SaveInv, FinishInv, EventsAreKept,
         OnTheirWay, SavesInOrder, FinishIsKept

\* What a flush takes from those that wait is on its way.
LEMMA FlushMoves ==
    ASSUME ClientInv, FlushPending
    PROVE  /\ batches' \in SUBSET Batch /\ pending' = {}
           /\ OnTheirWay' = OnTheirWay \cup pending
           /\ \A b \in batches' : b \in batches \/ b.at = "sent"
<1>1. CASE pending = {}
  BY <1>1 DEF FlushPending, ClientInv, ClientTypeOK, OnTheirWay
<1>2. CASE pending # {}
  <2>1. batches' = batches \cup {[events |-> pending, at |-> "sent"]} /\ pending' = {}
    BY <1>2 DEF FlushPending
  <2>2. [events |-> pending, at |-> "sent"] \in Batch
    BY DEF ClientInv, ClientTypeOK, Batch
  <2>. QED  BY <2>1, <2>2 DEF OnTheirWay, ClientInv, ClientTypeOK
<1>. QED  BY <1>1, <1>2

\* Steps that leave the bookmarks alone.
LEMMA SavesStay ==
    ASSUME ClientInv, UNCHANGED <<chain, queued>>, server'.save = server.save
    PROVE  SaveInv'
  BY DEF ClientInv, SaveInv, SavesInOrder

\* Steps of the page on events.
LEMMA PageKeeps ==
    ASSUME ClientInv,
           \/ EnqueueEvent \/ Flush \/ HidePage \/ LeavePage \/ FinishReading
           \/ SaveStoryEdit \/ SendEdit
    PROVE  ClientInv'
<1>1. /\ UNCHANGED <<chain, queued, server>>
      /\ DOMAIN page' = {"open", "finish", "awaits", "edit"} /\ page'.open \in BOOLEAN
      /\ page'.finish = page.finish \/ page'.finish = "flushing"
  BY DEF EnqueueEvent, Flush, HidePage, LeavePage, FinishReading, SaveStoryEdit, SendEdit,
         ClientInv, ClientTypeOK
<1>2. SaveInv' /\ FinishInv'
  BY <1>1, SavesStay DEF FinishInv, FinishIsKept, ClientInv
<1>3. CASE EnqueueEvent
  <2>1. /\ page.open /\ UNCHANGED <<page, batches>>
        /\ made' = made + 1 /\ pending' = pending \cup {made + 1}
    BY <1>3 DEF EnqueueEvent, Reading
  <2>2. 1..(made + 1) = 1..made \cup {made + 1}
    BY DEF ClientInv, ClientTypeOK
  <2>3. OnTheirWay' = OnTheirWay
    BY <2>1 DEF OnTheirWay
  <2>. QED  BY <1>1, <1>2, <2>1, <2>2, <2>3 DEF ClientInv, ClientTypeOK, EventInv, EventsAreKept
<1>4. CASE Flush \/ HidePage \/ LeavePage \/ FinishReading \/ SaveStoryEdit
  <2>1. page.open /\ FlushPending /\ made' = made
    BY <1>4 DEF Flush, HidePage, LeavePage, FinishReading, SaveStoryEdit, Reading
  <2>. QED  BY <1>1, <1>2, <2>1, FlushMoves DEF ClientInv, ClientTypeOK, EventInv, EventsAreKept
<1>5. CASE SendEdit
  <2>1. UNCHANGED <<made, pending, batches>> /\ page'.open = page.open
    BY <1>5 DEF SendEdit, ClientInv, ClientTypeOK
  <2>. QED  BY <1>1, <1>2, <2>1 DEF ClientInv, ClientTypeOK, EventInv, EventsAreKept, OnTheirWay
<1>. QED  BY <1>3, <1>4, <1>5

\* A batch is served or fails, and settles.
LEMMA StoreEventsKeeps ==
    ASSUME ClientInv, NEW b \in batches, StoreEvents(b)
    PROVE  ClientInv'
<1>1. PICK at \in {"stored", "failed"} :
        /\ batches' = (batches \ {b}) \cup {[b EXCEPT !.at = at]}
        /\ \/ server' = [server EXCEPT !.events = @ \cup b.events]
           \/ server' = server /\ at = "failed"
        /\ UNCHANGED <<page, made, pending, chain, queued>>
  BY DEF StoreEvents
<1>2. b \in Batch /\ [b EXCEPT !.at = at] = [events |-> b.events, at |-> at]
  BY DEF ClientInv, ClientTypeOK, Batch
<1>3. [events |-> b.events, at |-> at] \in Batch
  BY <1>2 DEF Batch
<1>4. OnTheirWay' = OnTheirWay
  BY <1>1, <1>2 DEF OnTheirWay
<1>5. /\ server' \in [finished : BOOLEAN, events : SUBSET Nat, edited : BOOLEAN, save : Nat]
      /\ server'.finished = server.finished /\ server'.edited = server.edited
      /\ server'.save = server.save /\ server.events \subseteq server'.events
      /\ server'.events \subseteq server.events \cup b.events
      /\ at = "stored" => b.events \subseteq server'.events
  BY <1>1, <1>2 DEF ClientInv, ClientTypeOK, Batch
<1>6. ClientTypeOK'
  BY <1>1, <1>2, <1>3, <1>5 DEF ClientInv, ClientTypeOK
<1>7. b.events \subseteq OnTheirWay
  BY DEF OnTheirWay
<1>8. EventInv'
  BY <1>1, <1>2, <1>4, <1>5, <1>7 DEF ClientInv, EventInv, EventsAreKept
<1>9. FinishInv'
  BY <1>1, <1>5 DEF ClientInv, FinishInv, FinishIsKept
<1>. QED  BY <1>1, <1>5, <1>6, <1>8, <1>9, SavesStay DEF ClientInv

\* A batch is answered, or comes to nothing: its events wait again.
LEMMA SettleFlushKeeps ==
    ASSUME ClientInv, NEW b \in batches, SettleFlush(b)
    PROVE  ClientInv'
<1>1. /\ b.at \in {"stored", "failed"} /\ b \in Batch
      /\ batches' = batches \ {b}
      /\ pending' = IF b.at = "failed" /\ page.open THEN pending \cup b.events ELSE pending
      /\ UNCHANGED <<page, made, chain, server, queued>>
  BY DEF SettleFlush, ClientInv, ClientTypeOK
<1>2. OnTheirWay = OnTheirWay' \cup b.events
  BY <1>1 DEF OnTheirWay
<1>3. ClientTypeOK'
  BY <1>1 DEF ClientInv, ClientTypeOK, Batch
<1>4. EventInv'
  BY <1>1, <1>2 DEF ClientInv, EventInv, EventsAreKept
<1>. QED  BY <1>1, <1>3, <1>4, SavesStay DEF ClientInv, FinishInv, FinishIsKept

\* A bookmark is queued.
LEMMA QueueKeeps ==
    ASSUME ClientInv, QueueProgressSave \/ SaveFinished
    PROVE  ClientInv'
<1>1. PICK finished \in BOOLEAN : Queue(finished)
  BY DEF QueueProgressSave, SaveFinished
<1>2. /\ UNCHANGED <<made, pending, batches, server>>
      /\ DOMAIN page' = DOMAIN page /\ page'.open = page.open
      /\ page'.finish = page.finish \/ page'.finish = "saving"
  BY DEF QueueProgressSave, SaveFinished, ClientInv, ClientTypeOK
<1>. DEFINE s == [no |-> queued + 1, finished |-> finished, at |-> "queued"]
<1>3. s \in Save /\ s.no = queued + 1 /\ s.at = "queued"
  BY DEF Save, ClientInv, ClientTypeOK
<1>4. chain' = Append(chain, s) /\ queued' = queued + 1
  BY <1>1 DEF Queue
<1>. HIDE DEF s
<1>5. /\ chain' \in Seq(Save) /\ Len(chain') = Len(chain) + 1
      /\ \A i \in 1..Len(chain) : chain'[i] = chain[i] /\ chain[i] \in Save
      /\ chain'[Len(chain) + 1] = s
      /\ Len(chain) \in Nat
  BY <1>3, <1>4 DEF ClientInv, ClientTypeOK
<1>6. ClientTypeOK' /\ EventInv'
  BY <1>2, <1>4, <1>5 DEF ClientInv, ClientTypeOK, EventInv, EventsAreKept, OnTheirWay
<1>7. \A i \in 1..Len(chain') : i \in 1..Len(chain) \/ i = Len(chain) + 1
  BY <1>5
<1>8. DOMAIN chain = 1..Len(chain) /\ DOMAIN chain' = 1..Len(chain')
  BY <1>5 DEF ClientInv, ClientTypeOK
<1>9. SaveInv'
  <2>1. server.save \in Nat /\ queued \in Nat /\ \A i \in 1..Len(chain) : chain[i].no \in Nat
    BY <1>5 DEF ClientInv, ClientTypeOK, Save
  <2>2. SaveInv
    BY DEF ClientInv
  <2>. QED  BY <1>2, <1>3, <1>4, <1>5, <1>7, <1>8, <2>1, <2>2 DEF SaveInv, SavesInOrder
<1>10. FinishInv'
  BY <1>2, <1>3, <1>5, <1>7 DEF ClientInv, FinishInv, FinishIsKept
<1>. QED  BY <1>6, <1>9, <1>10 DEF ClientInv

\* The head of the chain is sent, is served or fails, and settles.
LEMMA SendSaveKeeps ==
    ASSUME ClientInv, SendSave
    PROVE  ClientInv'
<1>1. /\ chain # <<>> /\ chain[1].at = "queued"
      /\ chain' = [chain EXCEPT ![1].at = "sent"]
      /\ UNCHANGED <<page, made, pending, batches, server, queued>>
  BY DEF SendSave, ClientInv, ClientTypeOK
<1>2. /\ Len(chain) \in Nat /\ 1 \in 1..Len(chain) /\ DOMAIN chain = 1..Len(chain)
      /\ \A i \in 1..Len(chain) : chain[i] \in Save
  BY <1>1 DEF ClientInv, ClientTypeOK
<1>3. /\ chain' \in Seq(Save) /\ Len(chain') = Len(chain) /\ DOMAIN chain' = DOMAIN chain
      /\ \A i \in 1..Len(chain) : /\ chain'[i].no = chain[i].no
                                  /\ chain'[i].finished = chain[i].finished
                                  /\ chain'[i].at = IF i = 1 THEN "sent" ELSE chain[i].at
  BY <1>1, <1>2 DEF ClientInv, ClientTypeOK, Save
<1>4. ClientTypeOK' /\ EventInv'
  BY <1>1, <1>3 DEF ClientInv, ClientTypeOK, EventInv, EventsAreKept, OnTheirWay
<1>5. SaveInv'
  BY <1>1, <1>2, <1>3 DEF ClientInv, SaveInv, SavesInOrder
<1>6. FinishInv'
  BY <1>1, <1>2, <1>3 DEF ClientInv, FinishInv, FinishIsKept
<1>. QED  BY <1>4, <1>5, <1>6 DEF ClientInv

\* What the head of the chain becomes has its number.
LEMMA HeadIsReplaced ==
    ASSUME NEW c \in Seq(Save), c # <<>>, NEW v \in Save
    PROVE  LET d == [c EXCEPT ![1] = v]
           IN  /\ d \in Seq(Save) /\ Len(d) = Len(c) /\ DOMAIN d = DOMAIN c
               /\ d[1] = v /\ \A i \in 2..Len(c) : d[i] = c[i]
  OBVIOUS

\* The server stores a bookmark, and what its answer says is so.
LEMMA StoreSaveKeeps ==
    ASSUME ClientInv, NEW k \in DOMAIN chain, StoreSave(k)
    PROVE  ClientInv'
<1>1. /\ Len(chain) \in Nat /\ DOMAIN chain = 1..Len(chain)
      /\ \A i \in 1..Len(chain) : chain[i] \in Save
      /\ SaveInv /\ FinishInv
  BY DEF ClientInv, ClientTypeOK
<1>2. k = 1 /\ chain[1].at = "sent"
  BY <1>1 DEF StoreSave, SaveInv
<1>. DEFINE stored == [Upsert(chain[1].finished) EXCEPT !.save = chain[1].no]
<1>3. /\ stored.save = chain[1].no /\ stored.events = server.events
      /\ stored.finished = (server.finished \/ chain[1].finished)
      /\ stored.edited = server.edited
      /\ stored \in [finished : BOOLEAN, events : SUBSET Nat, edited : BOOLEAN, save : Nat]
  BY <1>1, <1>2 DEF Upsert, ClientInv, ClientTypeOK, Save
<1>4. \/ /\ server' = stored
         /\ \/ chain' = [chain EXCEPT ![1].at = "answered", ![1].finished = stored.finished]
            \/ chain' = [chain EXCEPT ![1].at = "failed"]
      \/ server' = server /\ chain' = [chain EXCEPT ![1].at = "failed"]
  BY <1>2 DEF StoreSave
<1>. HIDE DEF stored
<1>5. UNCHANGED <<page, made, pending, batches, queued>>
  BY DEF StoreSave
<1>6. /\ chain' \in Seq(Save) /\ Len(chain') = Len(chain) /\ DOMAIN chain' = DOMAIN chain
      /\ \A i \in 1..Len(chain) : chain'[i].no = chain[i].no
      /\ \A i \in 2..Len(chain) : chain'[i] = chain[i]
      /\ chain'[1].at \in {"answered", "failed"}
      /\ chain'[1].at = "answered" /\ chain'[1].finished => server' = stored /\ stored.finished
  <2>1. CASE /\ server' = stored
             /\ chain' = [chain EXCEPT ![1].at = "answered", ![1].finished = stored.finished]
    <3>. DEFINE v == [chain[1] EXCEPT !.at = "answered", !.finished = stored.finished]
    <3>1. chain' = [chain EXCEPT ![1] = v]
      BY <2>1, <1>1, <1>2
    <3>2. chain[1] \in Save /\ stored.finished \in BOOLEAN
      BY <1>1, <1>2, <1>3
    <3>3. v \in Save /\ v.no = chain[1].no /\ v.at = "answered" /\ v.finished = stored.finished
      <4>1. PICK w \in Save : w = chain[1]
        BY <3>2
      <4>2. PICK f \in BOOLEAN : f = stored.finished
        BY <3>2
      <4>3. LET u == [w EXCEPT !.at = "answered", !.finished = f]
            IN  u \in Save /\ u.no = w.no /\ u.at = "answered" /\ u.finished = f
        BY DEF Save
      <4>. QED  BY <4>1, <4>2, <4>3, Zenon
    <3>4. chain' = [chain EXCEPT ![1] = v]
      BY <3>1
    <3>. HIDE DEF v
    <3>5. /\ chain' \in Seq(Save) /\ Len(chain') = Len(chain) /\ DOMAIN chain' = DOMAIN chain
          /\ chain'[1] = v /\ \A i \in 2..Len(chain) : chain'[i] = chain[i]
      BY <1>1, <1>2, <3>3, <3>4, HeadIsReplaced DEF ClientInv, ClientTypeOK
    <3>6. \A i \in 1..Len(chain) : i = 1 \/ i \in 2..Len(chain)
      BY <1>1
    <3>. QED  BY <1>1, <2>1, <3>3, <3>5, <3>6
  <2>2. CASE chain' = [chain EXCEPT ![1].at = "failed"]
    <3>. DEFINE v == [no |-> chain[1].no, finished |-> chain[1].finished, at |-> "failed"]
    <3>1. chain' = [chain EXCEPT ![1] = [chain[1] EXCEPT !.at = "failed"]]
      BY <2>2, <1>1, <1>2
    <3>2. [chain[1] EXCEPT !.at = "failed"] = v /\ v \in Save
      BY <1>1, <1>2 DEF Save
    <3>3. chain' = [chain EXCEPT ![1] = v] /\ v.no = chain[1].no /\ v.at = "failed"
      BY <3>1, <3>2
    <3>4. v \in Save
      BY <3>2
    <3>. HIDE DEF v
    <3>5. /\ chain' \in Seq(Save) /\ Len(chain') = Len(chain) /\ DOMAIN chain' = DOMAIN chain
          /\ chain'[1] = v /\ \A i \in 2..Len(chain) : chain'[i] = chain[i]
      BY <1>1, <1>2, <3>3, <3>4, HeadIsReplaced DEF ClientInv, ClientTypeOK
    <3>6. \A i \in 1..Len(chain) : i = 1 \/ i \in 2..Len(chain)
      BY <1>1
    <3>. QED  BY <1>1, <3>3, <3>5, <3>6
  <2>. QED  BY <1>4, <2>1, <2>2
<1>7. ClientTypeOK' /\ EventInv'
  BY <1>3, <1>4, <1>5, <1>6 DEF ClientInv, ClientTypeOK, EventInv, EventsAreKept, OnTheirWay
<1>8. SaveInv'
  <2>1. queued \in Nat /\ server.save \in Nat /\ \A i \in 1..Len(chain) : chain[i].no \in Nat
    BY <1>1 DEF ClientInv, ClientTypeOK, Save
  <2>2. 1 \in 1..Len(chain)
    BY <1>1, <1>2
  <2>3. server'.save \in {server.save, chain[1].no}
    BY <1>3, <1>4
  <2>4. \A i \in 2..Len(chain) : server'.save < chain[i].no
    BY <1>1, <2>1, <2>2, <2>3 DEF SaveInv
  <2>5. server'.save <= queued
    BY <1>1, <2>2, <2>3 DEF SaveInv
  <2>6. SavesInOrder'
    BY <1>1, <1>6, <2>1, <2>4 DEF SavesInOrder
  <2>. QED  BY <1>1, <1>5, <1>6, <2>4, <2>5, <2>6 DEF SaveInv
<1>9. FinishInv'
  BY <1>1, <1>3, <1>4, <1>5, <1>6 DEF FinishInv, FinishIsKept, SaveInv
<1>. QED  BY <1>7, <1>8, <1>9 DEF ClientInv

\* The head is answered or fails, and leaves the chain.
LEMMA SettleSaveKeeps ==
    ASSUME ClientInv, SettleSave
    PROVE  ClientInv'
<1>1. /\ chain # <<>> /\ chain' = Tail(chain)
      /\ UNCHANGED <<made, pending, batches, server, queued>>
      /\ DOMAIN page' = DOMAIN page /\ page'.open = page.open
      /\ page'.finish = "done" =>
            page.finish = "done" \/ (chain[1].at = "answered" /\ chain[1].finished)
  BY DEF SettleSave, ClientInv, ClientTypeOK
<1>2. /\ Len(chain) \in Nat /\ 1 \in 1..Len(chain) /\ DOMAIN chain = 1..Len(chain)
      /\ \A i \in 1..Len(chain) : chain[i] \in Save
      /\ chain' \in Seq(Save) /\ Len(chain') = Len(chain) - 1
      /\ \A i \in 1..Len(chain') : chain'[i] = chain[i + 1] /\ i + 1 \in 2..Len(chain)
      /\ DOMAIN chain' = 1..Len(chain')
  BY <1>1 DEF ClientInv, ClientTypeOK
<1>3. ClientTypeOK' /\ EventInv'
  BY <1>1, <1>2 DEF ClientInv, ClientTypeOK, EventInv, EventsAreKept, OnTheirWay
<1>4. SaveInv'
  BY <1>1, <1>2 DEF ClientInv, SaveInv, SavesInOrder
<1>5. FinishInv'
  BY <1>1, <1>2 DEF ClientInv, FinishInv, FinishIsKept
<1>. QED  BY <1>3, <1>4, <1>5 DEF ClientInv

\* The server stores what a page sent as it was left.
LEMMA StoreLeavingKeeps ==
    ASSUME ClientInv, StoreLeaving
    PROVE  ClientInv'
<1>1. /\ UNCHANGED <<page, made, pending, batches, chain, queued>>
      /\ server' = Upsert(FALSE) \/ server' = server
  BY DEF StoreLeaving
<1>2. server' = server
  BY <1>1 DEF Upsert, ClientInv, ClientTypeOK
<1>. QED  BY <1>1, <1>2, SavesStay
          DEF ClientInv, ClientTypeOK, EventInv, EventsAreKept,
           OnTheirWay, FinishInv, FinishIsKept

\* The edit takes all of it away; if it is refused nothing changed.
LEMMA StoreEditKeeps ==
    ASSUME ClientInv, StoreEdit
    PROVE  ClientInv'
<1>1. UNCHANGED <<made, batches, chain, queued>>
  BY DEF StoreEdit
<1>2. /\ DOMAIN page' = DOMAIN page /\ page'.open = page.open
      /\ page'.finish \in {page.finish, "idle"}
      /\ pending' \in {pending, {}}
      /\ \/ server' = [server EXCEPT !.finished = FALSE, !.events = {}, !.edited = TRUE]
         \/ server' = server /\ pending' = pending
  BY DEF StoreEdit, ClientInv, ClientTypeOK
<1>3. /\ server' \in [finished : BOOLEAN, events : SUBSET Nat, edited : BOOLEAN, save : Nat]
      /\ server'.save = server.save
      /\ server'.edited \/ (server' = server /\ pending' = pending)
  BY <1>2 DEF ClientInv, ClientTypeOK
<1>4. ClientTypeOK' /\ EventInv'
  BY <1>1, <1>2, <1>3 DEF ClientInv, ClientTypeOK, EventInv, EventsAreKept, OnTheirWay
<1>5. FinishInv'
  BY <1>1, <1>2, <1>3 DEF ClientInv, FinishInv, FinishIsKept
<1>. QED  BY <1>1, <1>3, <1>4, <1>5, SavesStay DEF ClientInv

\* ClientInv, for any number of events, bookmarks, reloads and faults.
THEOREM ClientInvariant == ClientSpec => []ClientInv
<1>1. ClientInv /\ [ClientNext]_clientVars => ClientInv'
  <2>. SUFFICES ASSUME ClientInv, [ClientNext]_clientVars PROVE ClientInv'
    OBVIOUS
  <2>1. CASE UNCHANGED clientVars
    BY <2>1, SavesStay
       DEF clientVars, ClientInv, ClientTypeOK, EventInv, EventsAreKept,
           OnTheirWay, FinishInv, FinishIsKept
  <2>2. CASE ClientNext
    BY <2>2, PageKeeps, StoreEventsKeeps, SettleFlushKeeps, QueueKeeps, SendSaveKeeps,
       StoreSaveKeeps, SettleSaveKeeps, StoreLeavingKeeps, StoreEditKeeps DEF ClientNext
  <2>. QED  BY <2>1, <2>2
<1>. QED  BY <1>1, InitialClient, PTL DEF ClientSpec

\* NothingReadIsLost: however many events, bookmarks and lost answers there are.
THEOREM ReadingIsKept == ClientSpec => []NothingReadIsLost
<1>1. ClientInv => NothingReadIsLost
  BY DEF ClientInv, EventInv, SaveInv, FinishInv, NothingReadIsLost
<1>. QED  BY <1>1, ClientInvariant, PTL

-----------------------------------------------------------------------------
(***************************************************************************)
(* SignIn: nobody who stays away from a second tab is taken for a thief,   *)
(* nor signed out before the server has ended a session itself.  While     *)
(* requests have not crossed one request renews at a time, and a token     *)
(* that was replaced is neither in the cookie nor sent (OneRenews); while  *)
(* no family expired and no refresh failed, there is always one that is    *)
(* accepted (NobodyIsRefused).                                             *)
(***************************************************************************)

Request == [pc : {"idle", "sent", "unauthorized", "waiting", "renewing", "renewed", "refused",
                  "again", "resent", "lost"},
            access : BOOLEAN, token : Nat]

SignInTypeOK ==
    /\ \E n \in Nat : Issued = 1..n
    /\ cookie \in Nat
    /\ failedRefreshes \in Nat
    /\ tab \in [Tabs -> [signedIn : BOOLEAN, access : BOOLEAN]]
    /\ call \in [Calls -> Request]
    /\ crossed \in BOOLEAN

\* A refresh is under way.
Renew(c) == call[c].pc \in {"renewing", "renewed", "refused"}
Live(n) == n \in Issued /\ token[n].state = "live"

\* The answer that is on its way sets the cookie, or clears the one that was sent.
SetsCookie(c) == call[c].pc = "renewed" \/ (call[c].pc = "refused" /\ call[c].token # 0)

\* Until requests cross one request renews at a time, and what is sent as a token is live: so
\* is the cookie, unless an answer to the contrary is on its way, and nothing was revoked.
OneRenews ==
    /\ \A c, d \in Calls : Renew(c) /\ Renew(d) => c = d
    /\ \A c \in Calls : call[c].pc = "renewing" => call[c].token = 0 \/ Live(call[c].token)
    /\ \A c \in Calls : call[c].pc = "renewed" => Live(call[c].token)
    /\ (\A c \in Calls : ~SetsCookie(c)) => cookie = 0 \/ Live(cookie)
    /\ \A n \in Issued : token[n].state # "revoked"

\* While the server ends nothing either, there is a token and nobody is refused; a request is
\* sent again with an access token that is accepted.
Calm == ~crossed /\ expired = {} /\ failedRefreshes = 0
NobodyIsRefused ==
    /\ \A c \in Calls : call[c].pc \notin {"refused", "lost"}
    /\ \A c \in Calls : call[c].pc = "renewing" => call[c].token # 0
    /\ (\A c \in Calls : call[c].pc # "renewed") => cookie # 0
    /\ \A c \in Calls : /\ call[c].pc = "again" => tab[c[1]].access
                        /\ call[c].pc = "resent" => call[c].access
    /\ \A t \in Tabs : tab[t].signedIn

SignInInv ==
    /\ SignInTypeOK
    /\ ~crossed => OneRenews
    /\ Calm => NobodyIsRefused

\* One token, which is live and in the cookie.
LEMMA InitialSignIn == SignInInit => SignInInv
<1>. SUFFICES ASSUME SignInInit PROVE SignInInv
  OBVIOUS
<1>1. Issued = 1..1 /\ Live(1)
  BY DEF SignInInit, Issued, Live
<1>2. SignInTypeOK
  BY <1>1 DEF SignInInit, SignInTypeOK, NoRequest, Request
<1>3. OneRenews /\ NobodyIsRefused
  BY <1>1 DEF SignInInit, OneRenews, NobodyIsRefused, NoRequest, Renew
<1>. QED  BY <1>2, <1>3 DEF SignInInv

\* The next number is new.
LEMMA NextIsNew ==
    ASSUME SignInTypeOK
    PROVE  NextToken \in Nat \ {0} /\ NextToken \notin Issued
           /\ \E n \in Nat : Issued \cup {NextToken} = 1..n
<1>1. PICK n \in Nat : Issued = 1..n
  BY DEF SignInTypeOK
<1>2. Cardinality(Issued) = n
  BY <1>1, FS_Interval
<1>3. NextToken = n + 1
  BY <1>2 DEF NextToken
<1>. QED  BY <1>1, <1>3

\* A request is sent, served and sent again.
LEMMA ServingKeeps ==
    ASSUME SignInInv, NEW c \in Calls, SendCall(c) \/ ServeCall(c) \/ ResendCall(c) \/ ServeAgain(c)
    PROVE  SignInInv'
<1>1. /\ UNCHANGED <<serverVars, cookie, tab, crossed>>
      /\ c[1] \in Tabs
  BY CallAssumption DEF SendCall, ServeCall, ResendCall, ServeAgain
<1>2. call \in [Calls -> Request] /\ call[c] \in Request
      /\ tab[c[1]].access \in BOOLEAN /\ NoRequest \in Request
  BY <1>1 DEF SignInInv, SignInTypeOK, NoRequest, Request
<1>3. /\ call' \in [Calls -> Request]
      /\ \A d \in Calls \ {c} : call'[d] = call[d]
      /\ call[c].pc \in {"idle", "sent", "again", "resent"}
      /\ call'[c].pc \in {"idle", "sent", "unauthorized", "resent", "lost"}
      /\ Calm => /\ call'[c].pc # "lost"
                 /\ call'[c].pc = "resent" => call'[c].access
  <2>1. CASE SendCall(c)
    BY <1>2, <2>1 DEF SendCall, NoRequest, Request
  <2>2. CASE ServeCall(c)
    BY <1>2, <2>2 DEF ServeCall, NoRequest, Request
  <2>3. CASE ResendCall(c)
    BY <1>2, <2>3 DEF ResendCall, SignInInv, Request, NobodyIsRefused
  <2>4. CASE ServeAgain(c)
    BY <1>2, <2>4 DEF ServeAgain, NoRequest, SignInInv, Request, NobodyIsRefused
  <2>. QED  BY <2>1, <2>2, <2>3, <2>4
<1>4. SignInTypeOK'
  BY <1>1, <1>3 DEF SignInInv, SignInTypeOK, Issued, serverVars
<1>5. OneRenews => OneRenews'
  BY <1>1, <1>3 DEF OneRenews, Renew, SetsCookie, Live, Issued, serverVars
<1>6. Calm /\ NobodyIsRefused => NobodyIsRefused'
  BY <1>1, <1>3 DEF NobodyIsRefused
<1>. QED  BY <1>1, <1>4, <1>5, <1>6 DEF SignInInv, Calm, serverVars

\* A refresh begins, or the request waits for the one of its tab.
LEMMA RefreshKeeps ==
    ASSUME SignInInv, NEW c \in Calls, RefreshAccessToken(c)
    PROVE  SignInInv'
<1>1. /\ UNCHANGED <<serverVars, cookie, tab>> /\ call \in [Calls -> Request]
      /\ cookie \in Nat /\ crossed \in BOOLEAN /\ call[c].pc = "unauthorized"
  BY DEF RefreshAccessToken, SignInInv, SignInTypeOK
<1>2. /\ \A d \in Calls \ {c} : call'[d] = call[d]
      /\ \/ call'[c].pc = "waiting" /\ crossed' = crossed
         \/ /\ call'[c].pc = "renewing" /\ call'[c].token = cookie
            /\ crossed' \in BOOLEAN /\ (crossed => crossed')
            /\ ~crossed' => \A d \in Calls : ~Renew(d)
      /\ call' \in [Calls -> Request]
  <2>1. CASE Renewing(c[1]) = {}
    <3>1. /\ call' = [call EXCEPT ![c] = [call[c] EXCEPT !.pc = "renewing", !.token = cookie]]
          /\ crossed' = (crossed \/ \E t \in Tabs \ {c[1]} : Renewing(t) # {})
      BY <2>1, <1>1 DEF RefreshAccessToken, Renews
    <3>2. ~crossed' => \A d \in Calls : ~Renew(d)
      BY <2>1, <3>1, CallAssumption DEF Renewing, CallsOf, Renew
    <3>. QED  BY <1>1, <3>1, <3>2 DEF Request
  <2>2. CASE Renewing(c[1]) # {}
    BY <1>1, <2>2 DEF RefreshAccessToken, Request
  <2>. QED  BY <2>1, <2>2
<1>3. SignInTypeOK'
  BY <1>1, <1>2 DEF SignInInv, SignInTypeOK, Issued, serverVars
<1>4. ~crossed' => OneRenews'
  <2>. SUFFICES ASSUME ~crossed' PROVE OneRenews'
    OBVIOUS
  <2>1. OneRenews
    BY <1>1, <1>2 DEF SignInInv
  <2>2. \A d \in Calls : SetsCookie(d)' <=> SetsCookie(d)
    BY <1>1, <1>2 DEF SetsCookie
  <2>3. call'[c].pc = "renewing" => cookie = 0 \/ Live(cookie)
    BY <1>2, <2>1 DEF OneRenews, Renew, SetsCookie
  <2>. QED  BY <1>1, <1>2, <2>1, <2>2, <2>3 DEF OneRenews, Renew, Live, Issued, serverVars
<1>5. Calm' => NobodyIsRefused'
  <2>. SUFFICES ASSUME Calm' PROVE NobodyIsRefused'
    OBVIOUS
  <2>1. NobodyIsRefused
    BY <1>1, <1>2 DEF SignInInv, Calm, serverVars
  <2>2. call'[c].pc = "renewing" => cookie # 0
    BY <1>2, <2>1 DEF Calm, NobodyIsRefused, Renew
  <2>. QED  BY <1>1, <1>2, <2>1, <2>2 DEF NobodyIsRefused
<1>. QED  BY <1>3, <1>4, <1>5 DEF SignInInv

\* The server replaces a token.
LEMMA RotateType ==
    ASSUME SignInTypeOK, NEW old, Rotate(old)
    PROVE  /\ \E n \in Nat : Issued' = 1..n
           /\ \A n \in Issued \ {old} : Live(n) => Live(n)'
           /\ NextToken \in Issued' /\ token'[NextToken].state = "live"
           /\ (\A n \in Issued : token[n].state # "revoked")
                  => \A n \in Issued' : token'[n].state # "revoked"
<1>. PICK new \in Nat : new = NextToken
  BY NextIsNew
<1>1. /\ token' = [n \in Issued \cup {new} |->
            IF n = new THEN [state |-> "live", family |-> token[old].family]
            ELSE IF n = old THEN [token[n] EXCEPT !.state = "replaced"] ELSE token[n]]
      /\ new \notin Issued
  BY NextIsNew DEF Rotate
<1>2. Issued' = Issued \cup {new}
  BY <1>1 DEF Issued
<1>3. \A n \in Issued : token'[n].state \in {token[n].state, "replaced"}
  <2>. TAKE n \in Issued
  <2>1. CASE n = old
    BY <1>1, <2>1 DEF Issued
  <2>2. CASE n # old
    BY <1>1, <2>2
  <2>. QED  BY <2>1, <2>2
<1>4. \A n \in Issued \ {old} : token'[n] = token[n]
  BY <1>1
<1>5. token'[new].state = "live"
  BY <1>1
<1>6. \E n \in Nat : Issued' = 1..n
  BY <1>2, NextIsNew
<1>7. \A n \in Issued \ {old} : Live(n) => Live(n)'
  BY <1>2, <1>4 DEF Live
<1>8. ASSUME \A n \in Issued : token[n].state # "revoked", NEW n \in Issued'
      PROVE  token'[n].state # "revoked"
  BY <1>2, <1>3, <1>5, <1>8
<1>. QED  BY <1>2, <1>5, <1>6, <1>7, <1>8

\* The server answers a refresh: with another token, or with a refusal.
LEMMA RotateKeeps ==
    ASSUME SignInInv, NEW c \in Calls, RotateRefreshToken(c) \/ RefreshFails(c)
    PROVE  SignInInv'
<1>. DEFINE old == call[c].token
<1>1. /\ UNCHANGED <<expired, cookie, tab, crossed>> /\ call[c].pc = "renewing"
      /\ call \in [Calls -> Request] /\ SignInTypeOK /\ old \in Nat
      /\ failedRefreshes' \in Nat
      /\ Calm' => Calm /\ RotateRefreshToken(c)
  BY DEF RotateRefreshToken, RefreshFails, SignInInv, SignInTypeOK, Request, Calm
<1>. PICK new \in Nat : new = NextToken /\ new # 0
  BY <1>1, NextIsNew
<1>2. /\ \A d \in Calls \ {c} : call'[d] = call[d]
      /\ \/ call'[c].pc = "renewed" /\ call'[c].token = new /\ Valid(old) /\ Rotate(old)
         \/ /\ call'[c].pc = "refused" /\ call'[c].token = old
            /\ token' = token \/ (Reused(old) /\ token' = RevokeFamily(token[old].family))
                  \/ (Valid(old) /\ Rotate(old))
            /\ RotateRefreshToken(c) => ~Valid(old)
      /\ call' \in [Calls -> Request]
  <2>1. CASE RotateRefreshToken(c) /\ Valid(old)
    <3>1. /\ call' = [call EXCEPT ![c] = [call[c] EXCEPT !.pc = "renewed", !.token = new]]
          /\ Rotate(old)
      BY <2>1, <1>1 DEF RotateRefreshToken
    <3>. QED  BY <1>1, <2>1, <3>1 DEF Request
  <2>2. CASE (RotateRefreshToken(c) /\ ~Valid(old)) \/ RefreshFails(c)
    <3>1. /\ call' = [call EXCEPT ![c] = [call[c] EXCEPT !.pc = "refused"]]
          /\ token' = token \/ (Reused(old) /\ token' = RevokeFamily(token[old].family))
                \/ (Valid(old) /\ Rotate(old))
          /\ RotateRefreshToken(c) => ~Valid(old)
      BY <2>2, <1>1 DEF RotateRefreshToken, RefreshFails, RefuseRefresh
    <3>. QED  BY <1>1, <3>1 DEF Request
  <2>. QED  BY <2>1, <2>2
<1>3. SignInTypeOK'
  <2>1. \E n \in Nat : Issued' = 1..n
    <3>1. CASE token' = token \/ token' = RevokeFamily(token[old].family)
      BY <1>1, <3>1 DEF Issued, RevokeFamily, SignInTypeOK
    <3>2. CASE Rotate(old)
      BY <1>1, <3>2, RotateType
    <3>. QED  BY <1>2, <3>1, <3>2
  <2>. QED  BY <1>1, <1>2, <2>1 DEF SignInTypeOK
<1>4. ~crossed' => OneRenews'
  <2>. SUFFICES ASSUME ~crossed' PROVE OneRenews'
    OBVIOUS
  <2>1. OneRenews /\ (old = 0 \/ Live(old)) /\ \A d \in Calls \ {c} : ~Renew(d)
    BY <1>1 DEF SignInInv, OneRenews, Renew
  <2>2. ~Reused(old)
    BY <2>1 DEF Reused, Counts, Live
  <2>3. /\ token' = token \/ (old # 0 /\ Rotate(old))
        /\ call'[c].pc = "renewed" => Rotate(old)
    BY <1>2, <2>2 DEF Valid, Counts
  <2>4. \A n \in Issued' : token'[n].state # "revoked"
    BY <1>1, <2>1, <2>3, RotateType DEF OneRenews, Issued
  <2>5. \A d, e \in Calls : Renew(d)' /\ Renew(e)' => d = e
    BY <1>2, <2>1 DEF Renew
  <2>6. \A d \in Calls : call'[d].pc # "renewing" /\ (call'[d].pc = "renewed" => Live(call[d].token)')
    <3>1. Rotate(old) => Live(new)'
      BY <1>1, RotateType DEF Live
    <3>. QED  BY <1>2, <2>1, <2>3, <3>1 DEF Renew
  <2>7. (\A d \in Calls : ~SetsCookie(d)') => cookie' = 0 \/ Live(cookie)'
    <3>. SUFFICES ASSUME \A d \in Calls : ~SetsCookie(d)' PROVE cookie = 0 \/ Live(cookie)'
      BY <1>1
    <3>1. call'[c].pc = "refused" /\ old = 0
      BY <1>2 DEF SetsCookie
    <3>2. token' = token
      BY <2>3, <3>1
    <3>3. cookie = 0 \/ Live(cookie)
      BY <1>1, <2>1 DEF OneRenews, Renew, SetsCookie
    <3>. QED  BY <1>1, <3>2, <3>3 DEF Live, Issued
  <2>. QED  BY <2>4, <2>5, <2>6, <2>7 DEF OneRenews
<1>5. Calm' => NobodyIsRefused'
  <2>. SUFFICES ASSUME Calm' PROVE NobodyIsRefused'
    OBVIOUS
  <2>1. NobodyIsRefused /\ RotateRefreshToken(c) /\ expired = {} /\ ~crossed
    BY <1>1 DEF SignInInv, Calm
  <2>2. Valid(old)
    BY <1>1, <2>1 DEF SignInInv, NobodyIsRefused, OneRenews, Valid, Counts, Live
  <2>3. call'[c].pc = "renewed"
    BY <1>2, <2>1, <2>2
  <2>. QED  BY <1>1, <1>2, <2>1, <2>3 DEF NobodyIsRefused
<1>. QED  BY <1>3, <1>4, <1>5 DEF SignInInv

\* The answers of a refresh.
LEMMA SettleType ==
    ASSUME call \in [Calls -> Request], NEW c \in Calls, NEW pc \in {"again", "lost"}
    PROVE  /\ Settle(c, pc) \in [Calls -> Request]
           /\ \A d \in Calls : \/ Settle(c, pc)[d] = call[d] /\ d # c
                               \/ Settle(c, pc)[d].pc = pc /\ (d = c \/ d[1] = c[1])
  BY DEF Settle, Request

\* The answer of a renewal arrives.
LEMMA AnswerKeeps ==
    ASSUME SignInInv, NEW c \in Calls, AcceptRefresh(c) \/ RefreshRefused(c) \/ RefreshAnswerLost(c)
    PROVE  SignInInv'
<1>1. call \in [Calls -> Request] /\ SignInTypeOK /\ c[1] \in Tabs /\ Renew(c)
      /\ UNCHANGED serverVars
  BY CallAssumption DEF SignInInv, SignInTypeOK, AcceptRefresh, RefreshRefused, RefreshAnswerLost, Renew
<1>2. CASE AcceptRefresh(c)
  <2>1. /\ call[c].pc = "renewed" /\ cookie' = call[c].token
        /\ tab' = [tab EXCEPT ![c[1]] = [signedIn |-> TRUE, access |-> TRUE]]
        /\ call' = Settle(c, "again") /\ UNCHANGED crossed
    BY <1>2 DEF AcceptRefresh
  <2>2. SignInTypeOK'
    BY <1>1, <2>1, SettleType DEF SignInTypeOK, Request, Issued, serverVars
  <2>3. \A d \in Calls : (call'[d] = call[d] /\ d # c) \/ (call'[d].pc = "again" /\ d[1] = c[1])
    BY <1>1, <2>1, SettleType
  <2>4. /\ \A t \in Tabs : tab'[t] = tab[t] \/ (tab'[t].access /\ tab'[t].signedIn)
        /\ tab'[c[1]].access
    BY <1>1, <2>1 DEF SignInTypeOK
  <2>5. OneRenews => OneRenews'
    BY <1>1, <2>1, <2>3 DEF OneRenews, Renew, SetsCookie, Live, Issued, serverVars
  <2>6. OneRenews /\ NobodyIsRefused => NobodyIsRefused'
    <3>. SUFFICES ASSUME OneRenews, NobodyIsRefused PROVE NobodyIsRefused'
      OBVIOUS
    <3>1. cookie' # 0
      BY <1>1, <2>1 DEF OneRenews, Live, SignInTypeOK
    <3>. QED  BY <2>3, <2>4, <3>1, CallAssumption DEF NobodyIsRefused
  <2>. QED  BY <1>1, <2>1, <2>2, <2>5, <2>6 DEF SignInInv, Calm, serverVars
<1>3. CASE RefreshRefused(c)
  <2>1. /\ ~Calm /\ UNCHANGED <<tab, crossed>> /\ call' = Settle(c, "lost")
        /\ cookie' = (IF call[c].token = 0 THEN cookie ELSE 0) /\ call[c].pc = "refused"
    BY <1>3 DEF RefreshRefused, SignInInv, NobodyIsRefused
  <2>2. \A d \in Calls : (call'[d] = call[d] /\ d # c) \/ call'[d].pc = "lost"
    BY <1>1, <2>1, SettleType
  <2>3. OneRenews => OneRenews'
    <3>. SUFFICES ASSUME OneRenews PROVE OneRenews'
      OBVIOUS
    <3>1. cookie' = 0 \/ Live(cookie)'
      BY <1>1, <2>1 DEF OneRenews, Renew, SetsCookie, Live, Issued, serverVars
    <3>. QED  BY <1>1, <2>2, <3>1 DEF OneRenews, Renew, Live, Issued, serverVars
  <2>4. SignInTypeOK'
    BY <1>1, <2>1, SettleType DEF SignInTypeOK, Issued, serverVars
  <2>. QED  BY <1>1, <2>1, <2>3, <2>4 DEF SignInInv, Calm, serverVars
<1>4. CASE RefreshAnswerLost(c)
  BY <1>1, <1>4, SettleType DEF RefreshAnswerLost, SignInInv, SignInTypeOK, Issued, Calm, serverVars
<1>. QED  BY <1>2, <1>3, <1>4

\* Nobody is signed out while all is calm.
LEMMA LostKeeps ==
    ASSUME SignInInv, NEW c \in Calls, AuthenticationLost(c)
    PROVE  SignInInv'
<1>1. /\ ~Calm /\ call[c].pc = "lost" /\ UNCHANGED <<serverVars, cookie, crossed>>
      /\ call' = [call EXCEPT ![c] = NoRequest] /\ call \in [Calls -> Request]
      /\ NoRequest \in Request /\ NoRequest.pc = "idle" /\ c[1] \in Tabs
  BY CallAssumption
     DEF AuthenticationLost, SignInInv, SignInTypeOK, NobodyIsRefused, NoRequest, Request
<1>2. SignInTypeOK'
  BY <1>1 DEF AuthenticationLost, SignInInv, SignInTypeOK, Issued, serverVars
<1>3. OneRenews => OneRenews'
  BY <1>1 DEF OneRenews, Renew, SetsCookie, Live, Issued, serverVars
<1>. QED  BY <1>1, <1>2, <1>3 DEF SignInInv, Calm, serverVars

\* What happens to a tab.
LEMMA AccessExpiresKeeps ==
    ASSUME SignInInv, NEW t \in Tabs, AccessExpires(t)
    PROVE  SignInInv'
<1>1. /\ UNCHANGED <<serverVars, cookie, call, crossed>>
      /\ tab' = [tab EXCEPT ![t] = [tab[t] EXCEPT !.access = FALSE]]
      /\ \A c \in Calls : c[1] = t => call[c].pc # "again"
      /\ tab \in [Tabs -> [signedIn : BOOLEAN, access : BOOLEAN]]
  BY DEF AccessExpires, CallsOf, SignInInv, SignInTypeOK
<1>2. \A u \in Tabs : /\ tab'[u].signedIn = tab[u].signedIn
                      /\ u # t => tab'[u] = tab[u]
  BY <1>1
<1>3. SignInTypeOK'
  BY <1>1 DEF SignInInv, SignInTypeOK, Issued, serverVars
<1>4. OneRenews => OneRenews'
  BY <1>1 DEF OneRenews, Renew, SetsCookie, Live, Issued, serverVars
<1>5. NobodyIsRefused => NobodyIsRefused'
  BY <1>1, <1>2, CallAssumption DEF NobodyIsRefused
<1>. QED  BY <1>1, <1>3, <1>4, <1>5 DEF SignInInv, Calm, serverVars

\* A tab is loaded again, without its access token.
LEMMA LoadPageKeeps ==
    ASSUME SignInInv, NEW t \in Tabs, LoadPage(t)
    PROVE  SignInInv'
<1>1. /\ UNCHANGED <<serverVars, cookie>>
      /\ tab' = [tab EXCEPT ![t] = [tab[t] EXCEPT !.access = FALSE]]
      /\ tab \in [Tabs -> [signedIn : BOOLEAN, access : BOOLEAN]]
      /\ call' = [c \in Calls |-> IF c[1] = t THEN NoRequest ELSE call[c]]
      /\ crossed' = (crossed \/ Renewing(t) # {})
      /\ call \in [Calls -> Request] /\ crossed \in BOOLEAN
  BY DEF LoadPage, SignInInv, SignInTypeOK
<1>2. \A u \in Tabs : /\ tab'[u].signedIn = tab[u].signedIn
                      /\ u # t => tab'[u] = tab[u]
  BY <1>1
<1>3. NoRequest \in Request /\ NoRequest.pc = "idle"
  BY DEF NoRequest, Request
<1>4. SignInTypeOK'
  BY <1>1, <1>3 DEF SignInInv, SignInTypeOK, Issued, serverVars
<1>5. \A c \in Calls : call'[c] = call[c] \/ (c[1] = t /\ call'[c] = NoRequest)
  BY <1>1
<1>6. ~crossed' => ~crossed /\ \A c \in Calls : c[1] = t => ~Renew(c)
  BY <1>1 DEF Renewing, CallsOf, Renew
<1>7. ~crossed' => \A c \in Calls : (Renew(c) => call'[c] = call[c]) /\ (Renew(c)' => Renew(c))
  BY <1>3, <1>5, <1>6 DEF Renew
<1>8. ~crossed' => OneRenews'
  <2>. SUFFICES ASSUME ~crossed' PROVE OneRenews'
    OBVIOUS
  <2>1. OneRenews
    BY <1>6 DEF SignInInv
  <2>2. \A c \in Calls : SetsCookie(c)' <=> SetsCookie(c)
    BY <1>7 DEF SetsCookie, Renew
  <2>. QED  BY <1>1, <1>3, <1>5, <2>1, <2>2 DEF OneRenews, Renew, Live, Issued, serverVars
<1>9. Calm' => NobodyIsRefused'
  <2>. SUFFICES ASSUME Calm' PROVE NobodyIsRefused'
    OBVIOUS
  <2>1. NobodyIsRefused
    BY <1>1, <1>6 DEF SignInInv, Calm, serverVars
  <2>2. \A c \in Calls : call[c].pc = "renewed" => call'[c].pc = "renewed"
    BY <1>7 DEF Calm, Renew
  <2>. QED  BY <1>1, <1>2, <1>3, <1>5, <2>1, <2>2, CallAssumption DEF NobodyIsRefused
<1>. QED  BY <1>4, <1>8, <1>9 DEF SignInInv

\* A learner signs out, which ends what is claimed.
LEMMA SignOutKeeps ==
    ASSUME SignInInv, NEW t \in Tabs, NEW everywhere \in BOOLEAN, SignOut(t, everywhere)
    PROVE  SignInInv'
<1>1. Issued' = Issued /\ crossed' = TRUE
  BY DEF SignOut, Issued
<1>. QED  BY <1>1 DEF SignOut, SignInInv, SignInTypeOK, Calm

\* A learner signs in again, with a family of tokens of its own.
LEMMA SignInAgainKeeps ==
    ASSUME SignInInv, NEW t \in Tabs, SignInAgain(t)
    PROVE  SignInInv'
<1>. PICK new \in Nat : new = NextToken /\ new # 0
  BY NextIsNew DEF SignInInv
<1>1. /\ ~crossed /\ ~Calm
      /\ UNCHANGED <<expired, failedRefreshes, call, crossed>>
      /\ token' = [n \in Issued \cup {new} |->
            IF n = new THEN [state |-> "live", family |-> n] ELSE token[n]]
      /\ cookie' = new
      /\ tab' = [tab EXCEPT ![t] = [signedIn |-> TRUE, access |-> TRUE]]
  BY DEF SignInAgain, SignInInv, NobodyIsRefused
<1>2. Issued' = Issued \cup {new} /\ new \notin Issued /\ \E n \in Nat : Issued' = 1..n
  BY <1>1, NextIsNew DEF Issued, SignInInv
<1>3. SignInTypeOK'
  BY <1>1, <1>2 DEF SignInInv, SignInTypeOK
<1>4. (\A n \in Issued : token'[n] = token[n]) /\ token'[new].state = "live"
  BY <1>1, <1>2
<1>5. OneRenews'
  BY <1>1, <1>2, <1>4 DEF SignInInv, OneRenews, Renew, Live
<1>. QED  BY <1>1, <1>3, <1>5 DEF SignInInv, Calm

\* Time passes: a family is over, and the browser drops its cookie.
LEMMA ExpiryKeeps ==
    ASSUME SignInInv, CookieExpires \/ \E n \in Issued : FamilyExpires(token[n].family)
    PROVE  SignInInv'
<1>1. /\ UNCHANGED <<token, failedRefreshes, tab, call, crossed>>
      /\ \/ cookie' = cookie /\ expired' # {}
         \/ cookie' = 0 /\ expired' = expired /\ cookie # 0 /\ ~Counts(cookie)
  BY DEF CookieExpires, FamilyExpires, serverVars
<1>2. SignInTypeOK'
  BY <1>1 DEF SignInInv, SignInTypeOK, Issued
<1>3. OneRenews => OneRenews'
  BY <1>1 DEF OneRenews, Renew, SetsCookie, Live, Issued
<1>4. ~Calm'
  BY <1>1 DEF Calm, Counts
<1>. QED  BY <1>1, <1>2, <1>3, <1>4 DEF SignInInv

\* SignInInv, for any tabs and requests.
THEOREM SignInInvariant == SignInSpec => []SignInInv
<1>1. SignInInv /\ [SignInNext]_signInVars => SignInInv'
  <2>. SUFFICES ASSUME SignInInv, [SignInNext]_signInVars PROVE SignInInv'
    OBVIOUS
  <2>1. CASE UNCHANGED signInVars
    BY <2>1 DEF signInVars, serverVars, SignInInv, SignInTypeOK, OneRenews, NobodyIsRefused, Calm,
       Renew, SetsCookie, Live, Issued
  <2>2. CASE SignInNext
    BY <2>2, ServingKeeps, RefreshKeeps, RotateKeeps, AnswerKeeps, LostKeeps, AccessExpiresKeeps,
       LoadPageKeeps, SignOutKeeps, SignInAgainKeeps, ExpiryKeeps DEF SignInNext
  <2>. QED  BY <2>1, <2>2
<1>. QED  BY <1>1, InitialSignIn, PTL DEF SignInSpec

\* StaysSignedIn, for any number of tabs, requests and tokens.
THEOREM LearnersStaySignedIn == SignInSpec => []StaysSignedIn
<1>1. SignInInv => StaysSignedIn
  BY DEF SignInInv, OneRenews, NobodyIsRefused, Calm, StaysSignedIn
<1>. QED  BY <1>1, SignInInvariant, PTL

-----------------------------------------------------------------------------
(***************************************************************************)
(* Profile: a patch that was acknowledged sticks.  The copy that a patch   *)
(* stores is the profile as it stands unless another one crossed it        *)
(* (PatchInv), and storing what was read changes nothing else.             *)
(***************************************************************************)

\* The patch of a tab as far as it is known: an enabled language is looked up before
\* anything is read, and a copy that nobody crossed is the profile as it stands.
PatchInv(t) ==
    /\ DOMAIN patch[t] = {"pc", "field", "value", "copy", "crossed"}
    /\ patch[t].field \in Fields
    /\ patch[t].crossed \in BOOLEAN
    /\ DOMAIN patch[t].copy = Fields
    /\ patch[t].pc # "idle" => patch[t].value \in PatchValues(patch[t].field)
    /\ patch[t].pc \in {"read", "store"} /\ patch[t].field = "active_language"
          => patch[t].value \in EnabledLanguages
    /\ patch[t].pc = "store" /\ ~patch[t].crossed => patch[t].copy = ProfileFromSettings(settings)

ProfileInv ==
    /\ DOMAIN patch = ProfileTabs
    /\ \A t \in ProfileTabs : PatchInv(t)
    /\ DOMAIN settings = {"old", "new", "saved"}
    /\ DOMAIN settings.old = Fields /\ DOMAIN settings.new = Fields
    /\ DOMAIN said = Fields
    /\ PatchesStick

\* What is stored is what the settings then stand for, but for a cleared model that an
\* old key brings back.
LEMMA StoredIsRead ==
    ASSUME NEW s, DOMAIN s = {"old", "new", "saved"}, NEW profile, NEW f \in Fields,
           f = "active_language" => HasSetting(f, profile[f]),
           f = "llm_model" /\ ~HasSetting(f, profile[f]) =>
              profile[f] = Empty /\ ~HasSetting(f, s.old[f]),
           f = "tts_model" => HasSetting(f, profile[f])
    PROVE  ProfileFromSettings(SettingsWithProfile(s, profile))[f] = profile[f]
  BY FieldAssumption DEF ProfileFromSettings, SettingsWithProfile, Fields, OwnFields,
                            DefaultValue, HasSetting

\* A profile that was read may be stored again as it is.
LEMMA ReadIsStorable ==
    ASSUME NEW s, NEW f \in Fields
    PROVE  LET profile == ProfileFromSettings(s)
           IN  /\ f = "active_language" => HasSetting(f, profile[f])
               /\ f = "llm_model" /\ ~HasSetting(f, profile[f])
                     => profile[f] = Empty /\ ~HasSetting(f, s.old[f])
               /\ f = "tts_model" => HasSetting(f, profile[f])
  BY FieldAssumption, LanguageAssumption
     DEF ProfileFromSettings, Fields, OwnFields, DefaultValue, HasSetting, Unset, Empty

\* Settings under the old keys or none, and no patch.
LEMMA InitialProfile == ProfileInit => ProfileInv
<1>. SUFFICES ASSUME ProfileInit PROVE ProfileInv
  OBVIOUS
<1>1. /\ DOMAIN NoFields = Fields /\ DOMAIN OldKeys = Fields
      /\ "active_language" \in Fields
  BY DEF OldKeys, NoFields, Fields, OwnFields
<1>2. PICK o \in {NoFields, OldKeys} : settings = [old |-> o, new |-> NoFields, saved |-> FALSE]
  BY DEF ProfileInit
<1>3. \A t \in ProfileTabs : PatchInv(t)
  BY <1>1 DEF ProfileInit, PatchInv, NoPatch
<1>. QED  BY <1>1, <1>2, <1>3 DEF ProfileInit, ProfileInv, PatchesStick

\* Who only moves on in its own patch.
LEMMA PatchMoves ==
    ASSUME ProfileInv, NEW t \in ProfileTabs,
           \/ DecodeProfilePatch(t) \/ CheckLanguage(t) \/ ReadSettings(t) \/ EnsureLocalUser(t)
           \/ CreateUser(t) \/ PatchDies(t)
    PROVE  ProfileInv'
<1>1. /\ UNCHANGED <<settings, said>>
      /\ \E p : patch' = [patch EXCEPT ![t] = p]
  BY DEF DecodeProfilePatch, CheckLanguage, ReadSettings, EnsureLocalUser, CreateUser, PatchDies
<1>2. PatchInv(t)'
  <2>1. CASE DecodeProfilePatch(t)
    <3>1. PICK f \in Fields : \E v \in PatchValues(f) :
             patch' = [patch EXCEPT ![t] = [NoPatch EXCEPT !.pc = "check", !.field = f, !.value = v]]
      BY <2>1 DEF DecodeProfilePatch
    <3>2. PICK v \in PatchValues(f) :
             patch'[t] = [pc |-> "check", field |-> f, value |-> v, copy |-> NoFields,
                         crossed |-> FALSE]
      BY <3>1 DEF ProfileInv, NoPatch
    <3>. QED  BY <3>2 DEF PatchInv, NoFields
  <2>2. CASE CheckLanguage(t)
    BY <2>2 DEF CheckLanguage, ProfileInv, PatchInv, NoPatch, NoFields, Fields, OwnFields
  <2>3. CASE ReadSettings(t)
    <3>1. DOMAIN ProfileFromSettings(settings) = Fields
      BY DEF ProfileFromSettings
    <3>. QED  BY <2>3, <3>1, <1>1 DEF ReadSettings, ProfileInv, PatchInv, ProfileFromSettings
  <2>4. CASE EnsureLocalUser(t)
    BY <2>4 DEF EnsureLocalUser, ProfileInv, PatchInv
  <2>5. CASE CreateUser(t)
    BY <2>5 DEF CreateUser, ProfileInv, PatchInv, NoPatch, NoFields, Fields, OwnFields
  <2>6. CASE PatchDies(t)
    BY <2>6 DEF PatchDies, ProfileInv, PatchInv, NoPatch, NoFields, Fields, OwnFields
  <2>. QED  BY <2>1, <2>2, <2>3, <2>4, <2>5, <2>6
<1>3. \A u \in ProfileTabs \ {t} : PatchInv(u)'
  BY <1>1 DEF ProfileInv, PatchInv, ProfileFromSettings
<1>4. PatchesStick'
  BY <1>1 DEF ProfileInv, PatchesStick, Resurfaces, ProfileFromSettings
<1>. QED  BY <1>1, <1>2, <1>3, <1>4 DEF ProfileInv

\* The one step that stores: the others who hold a copy are crossed by it.
LEMMA UpdateKeeps ==
    ASSUME ProfileInv, NEW t \in ProfileTabs, UpdateUserProfile(t)
    PROVE  ProfileInv'
<1>. DEFINE p == patch[t]
            profile == ApplyProfilePatch(p.copy, p.field, p.value)
<1>1. /\ p.pc = "store" /\ PatchInv(t) /\ p.field \in Fields
      /\ settings' = SettingsWithProfile(settings, profile)
      /\ DOMAIN settings = {"old", "new", "saved"}
      /\ \A f \in Fields : said'[f] = IF f = p.field THEN p.value
                                      ELSE IF p.crossed THEN Uncertain ELSE said[f]
      /\ DOMAIN said' = Fields
      /\ DOMAIN patch' = ProfileTabs
  BY DEF UpdateUserProfile, ProfileInv, PatchInv
<1>2. /\ DOMAIN profile = Fields /\ profile[p.field] = p.value
      /\ \A f \in Fields \ {p.field} : profile[f] = p.copy[f]
  BY <1>1 DEF ApplyProfilePatch, PatchInv
<1>3. \A u \in ProfileTabs : PatchInv(u)'
  <2>. SUFFICES ASSUME NEW u \in ProfileTabs PROVE PatchInv(u)'
    OBVIOUS
  <2>1. CASE u = t
    BY <2>1 DEF UpdateUserProfile, ProfileInv, PatchInv, NoPatch, NoFields, Fields, OwnFields
  <2>2. CASE u # t
    <3>1. patch'[u] = [patch[u] EXCEPT !.crossed = @ \/ patch[u].pc = "store"]
      BY <2>2 DEF UpdateUserProfile
    <3>. QED  BY <3>1 DEF ProfileInv, PatchInv
  <2>. QED  BY <2>1, <2>2
<1>4. DOMAIN settings' = {"old", "new", "saved"} /\ settings'.old = settings.old
      /\ settings'.new = profile
  BY <1>1 DEF SettingsWithProfile
<1>5. PatchesStick'
  <2>. SUFFICES ASSUME NEW f \in Fields, said'[f] # Uncertain, ~Resurfaces(f)'
                PROVE  ProfileFromSettings(settings)'[f] = said'[f]
    BY DEF PatchesStick
  <2>1. CASE f = p.field
    <3>1. /\ said'[f] = p.value /\ profile[f] = p.value
          /\ p.value \in PatchValues(f)
          /\ f = "active_language" => p.value \in EnabledLanguages
      BY <1>1, <1>2, <2>1 DEF PatchInv
    <3>2. /\ f = "active_language" => HasSetting(f, profile[f])
          /\ f = "tts_model" => HasSetting(f, profile[f])
      BY <3>1, FieldAssumption DEF HasSetting, PatchValues, Unset, Empty
    <3>3. f = "llm_model" /\ ~HasSetting(f, profile[f]) =>
             profile[f] = Empty /\ ~HasSetting(f, settings.old[f])
      BY <3>1, <1>4 DEF HasSetting, PatchValues, Unset, Empty, Resurfaces
    <3>. HIDE DEF p, profile
    <3>4. ProfileFromSettings(SettingsWithProfile(settings, profile))[f] = profile[f]
      BY <1>1, <3>2, <3>3, StoredIsRead
    <3>. QED  BY <1>1, <3>1, <3>4
  <2>2. CASE f # p.field
    <3>1. ~p.crossed /\ said'[f] = said[f] /\ ~Resurfaces(f)
      BY <1>1, <1>4, <2>2 DEF Resurfaces
    <3>2. p.copy = ProfileFromSettings(settings)
      BY <3>1, <1>1 DEF PatchInv
    <3>3. profile[f] = ProfileFromSettings(settings)[f]
      BY <1>2, <2>2, <3>2
    <3>. HIDE DEF p, profile
    <3>4. ProfileFromSettings(SettingsWithProfile(settings, profile))[f] = profile[f]
      BY <1>1, <3>3, ReadIsStorable, StoredIsRead
    <3>5. ProfileFromSettings(settings)[f] = said[f]
      BY <3>1 DEF ProfileInv, PatchesStick
    <3>. QED  BY <1>1, <3>1, <3>3, <3>4, <3>5
  <2>. QED  BY <2>1, <2>2
<1>. QED  BY <1>1, <1>2, <1>3, <1>4, <1>5 DEF ProfileInv

\* ProfileInv, for any tabs, preferences and languages.
THEOREM ProfileInvariant == ProfileSpec => []ProfileInv
<1>1. ProfileInv /\ [ProfileNext]_profileVars => ProfileInv'
  <2>. SUFFICES ASSUME ProfileInv, [ProfileNext]_profileVars PROVE ProfileInv'
    OBVIOUS
  <2>1. CASE UNCHANGED profileVars
    BY <2>1 DEF profileVars, ProfileInv, PatchInv, PatchesStick, Resurfaces, ProfileFromSettings
  <2>2. CASE ProfileNext
    BY <2>2, PatchMoves, UpdateKeeps DEF ProfileNext
  <2>. QED  BY <2>1, <2>2
<1>. QED  BY <1>1, InitialProfile, PTL DEF ProfileSpec

\* PatchesStick: what a patch acknowledged stays for every set of tabs, preferences and languages.
THEOREM PatchesAreKept == ProfileSpec => []PatchesStick
<1>1. ProfileInv => PatchesStick
  BY DEF ProfileInv
<1>. QED  BY <1>1, ProfileInvariant, PTL

-----------------------------------------------------------------------------
(***************************************************************************)
(* ProgressStream: a stream that ends by the table has told the rows.  What *)
(* a row says, what a channel holds and what was told of a stage is never  *)
(* ahead of the run (ToldInOrder), which goes through the stages in their  *)
(* order (RunInOrder), so that two statuses of one rank are the same.      *)
(***************************************************************************)

Statuses == {"none", "in_progress", "complete", "failed"}

Event == [stage : StageNames, status : Statuses] \cup {DoneEvent}

StreamTypeOK ==
    /\ stageRow \in [StageNames -> Statuses] /\ told \in [StageNames -> Statuses]
    /\ reached \in [StageNames -> Statuses]
    /\ DOMAIN writer = {"at", "pc", "runs"}
    /\ writer.at \in 1..Len(StreamStages) /\ writer.runs \in Nat \ {0}
    /\ writer.pc \in {"begin", "begun", "work", "ended", "fail", "finish", "done", "over"}
    /\ channel \in Seq(Event)
    /\ ending # "none" => stream = "over"

\* The run goes through the stages in their order.
Stage(i) == reached[StreamStages[i]]
RunInOrder ==
    /\ \A i \in 1..Len(StreamStages) : i > writer.at => Stage(i) = "none"
    /\ writer.pc = "begin" => Stage(writer.at) = "none"
    /\ writer.pc \in {"begun", "work"} => Stage(writer.at) = "in_progress"
    /\ Terminal(sessionRow) => writer.pc \in {"done", "over"}

\* Nothing is written, told or on its way that the run is not at; the last look is at rows
\* that stay.
ToldInOrder ==
    /\ \A g \in StageNames : AtMost(told[g], reached[g]) /\ AtMost(stageRow[g], reached[g])
    /\ \A n \in 1..Len(channel) :
          channel[n] # DoneEvent => AtMost(channel[n].status, reached[channel[n].stage])
    /\ stream = "last" \/ ending = "table" => writer.pc \in {"done", "over"}
    /\ ending = "table" => \A g \in StageNames : AtMost(stageRow[g], told[g])

StreamInv == StreamTypeOK /\ (writer.runs = 1 => RunInOrder /\ ToldInOrder)

\* The stages, in their order.
LEMMA Stages ==
    /\ \A i \in 1..Len(StreamStages) : StreamStages[i] \in StageNames
    /\ \A i, j \in 1..Len(StreamStages) : StreamStages[i] = StreamStages[j] => i = j
    /\ Len(StreamStages) \in Nat /\ Len(StreamStages) > 0
    /\ \A g \in StageNames : \E i \in 1..Len(StreamStages) : g = StreamStages[i]
  BY StageAssumption DEF StageNames

\* Nothing is written, and nothing is told.
LEMMA InitialStream == StreamInit => StreamInv
<1>. SUFFICES ASSUME StreamInit PROVE StreamInv
  OBVIOUS
<1>1. StreamTypeOK
  BY Stages DEF StreamInit, StreamTypeOK, Statuses
<1>. QED  BY <1>1, Stages DEF StreamInit, StreamInv, RunInOrder, ToldInOrder, AtMost, Stage, Terminal

\* The run writes the row of a stage: first that it began, then how it ended.
LEMMA WriteKeeps ==
    ASSUME StreamInv, RunBeginsStage \/ RunEndsStage("complete") \/ RunEndsStage("failed")
    PROVE  StreamInv'
<1>1. PICK status \in {"in_progress", "complete", "failed"} :
        /\ WriteStageRow(status)
        /\ writer.pc = IF status = "in_progress" THEN "begin" ELSE "work"
        /\ writer' = [writer EXCEPT !.pc = IF status = "in_progress" THEN "begun" ELSE "ended"]
  BY DEF RunBeginsStage, RunEndsStage
<1>. DEFINE g == StreamStages[writer.at]
<1>2. /\ UNCHANGED <<sessionRow, channel, stream, told, ending>>
      /\ reached' = [reached EXCEPT ![g] = status]
      /\ stageRow' = [stageRow EXCEPT ![g] = status] \/ stageRow' = stageRow
      /\ g \in StageNames
  BY <1>1, Stages DEF WriteStageRow, StreamInv, StreamTypeOK
<1>3. /\ writer'.at = writer.at /\ writer'.runs = writer.runs /\ DOMAIN writer' = DOMAIN writer
      /\ writer'.pc = IF status = "in_progress" THEN "begun" ELSE "ended"
  BY <1>1 DEF StreamInv, StreamTypeOK
<1>4. StreamTypeOK'
  BY <1>2, <1>3 DEF StreamInv, StreamTypeOK, Statuses
<1>. SUFFICES ASSUME writer.runs = 1 PROVE RunInOrder' /\ ToldInOrder'
  BY <1>3, <1>4 DEF StreamInv
<1>5. /\ \A h \in StageNames : reached'[h] = IF h = g THEN status ELSE reached[h]
      /\ \A h \in StageNames : stageRow'[h] = stageRow[h] \/ (h = g /\ stageRow'[h] = status)
      /\ reached[g] = IF status = "in_progress" THEN "none" ELSE "in_progress"
  BY <1>1, <1>2 DEF StreamInv, StreamTypeOK, RunInOrder, Stage
<1>6. \A s : AtMost(s, reached[g]) => AtMost(s, status)
  BY <1>5 DEF AtMost, Rank
<1>7. RunInOrder'
  BY <1>1, <1>2, <1>3, <1>5, Stages DEF StreamInv, StreamTypeOK, RunInOrder, Stage, Terminal
<1>8. \A h \in StageNames : AtMost(told[h], reached'[h]) /\ AtMost(stageRow'[h], reached'[h])
  <2>. TAKE h \in StageNames
  <2>1. AtMost(told[h], reached[h]) /\ AtMost(stageRow[h], reached[h]) /\ AtMost(status, status)
    BY DEF StreamInv, ToldInOrder, AtMost
  <2>2. CASE h = g
    BY <1>5, <1>6, <2>1, <2>2
  <2>3. CASE h # g
    BY <1>5, <2>1, <2>3
  <2>. QED  BY <2>2, <2>3
<1>9. \A n \in 1..Len(channel) : channel[n] # DoneEvent
          => AtMost(channel[n].status, reached'[channel[n].stage])
  <2>. TAKE n \in 1..Len(channel)
  <2>1. channel[n] # DoneEvent => channel[n].stage \in StageNames
    BY DEF StreamInv, StreamTypeOK, Event
  <2>. QED  BY <2>1, <1>5, <1>6 DEF StreamInv, ToldInOrder
<1>10. stream # "last" /\ ending # "table"
  BY <1>1 DEF StreamInv, ToldInOrder
<1>. QED  BY <1>2, <1>7, <1>8, <1>9, <1>10 DEF ToldInOrder

\* The run publishes what it is at.
LEMMA PublishKeeps ==
    ASSUME StreamInv, RunPublishesBegin \/ RunPublishesEnd \/ RunPublishesDone
    PROVE  StreamInv'
<1>1. UNCHANGED <<stageRow, reached, sessionRow, stream, told, ending>>
  BY DEF RunPublishesBegin, RunPublishesEnd, RunPublishesDone, PublishStage
<1>. DEFINE g == StreamStages[writer.at]
            stageEvent == [stage |-> g, status |-> reached[g]]
<1>2. g \in StageNames /\ stageEvent \in Event /\ stageEvent.status = reached[stageEvent.stage]
      /\ DoneEvent \in Event
  BY Stages DEF StreamInv, StreamTypeOK, Event
<1>3. PICK ev \in Event : /\ PublishEvent(ev)
                          /\ ev = DoneEvent \/ ev.status = reached[ev.stage]
  <2>1. CASE RunPublishesBegin \/ RunPublishesEnd
    <3>1. PublishEvent(stageEvent)
      BY <2>1 DEF RunPublishesBegin, RunPublishesEnd, PublishStage
    <3>. HIDE DEF stageEvent
    <3>. QED  BY <3>1, <1>2
  <2>2. CASE RunPublishesDone
    BY <2>2, <1>2 DEF RunPublishesDone
  <2>. QED  BY <2>1, <2>2
<1>4. /\ channel' \in Seq(Event)
      /\ \A n \in 1..Len(channel') : \/ n \in 1..Len(channel) /\ channel'[n] = channel[n]
                                     \/ channel'[n] = ev
  <2>1. channel \in Seq(Event)
    BY DEF StreamInv, StreamTypeOK
  <2>2. channel' = channel \/ channel' = Append(channel, ev)
    BY <1>3 DEF PublishEvent
  <2>. QED  BY <2>1, <2>2
<1>5. /\ DOMAIN writer' = DOMAIN writer /\ writer'.runs = writer.runs
      /\ writer'.at \in 1..Len(StreamStages)
      /\ \/ writer'.at = writer.at /\ writer.pc = "begun" /\ writer'.pc = "work"
         \/ writer'.at = writer.at + 1 /\ writer.pc = "ended" /\ writer'.pc = "begin"
         \/ writer'.at = writer.at /\ writer.pc = "ended" /\ writer'.pc \in {"fail", "finish"}
         \/ writer'.at = writer.at /\ writer.pc = "done" /\ writer'.pc = "over"
  <2>1. CASE RunPublishesBegin
    BY <2>1 DEF RunPublishesBegin, StreamInv, StreamTypeOK
  <2>2. CASE RunPublishesEnd
    BY <2>2, Stages DEF RunPublishesEnd, StreamInv, StreamTypeOK
  <2>3. CASE RunPublishesDone
    BY <2>3 DEF RunPublishesDone, StreamInv, StreamTypeOK
  <2>. QED  BY <2>1, <2>2, <2>3
<1>6. StreamTypeOK'
  BY <1>1, <1>4, <1>5 DEF StreamInv, StreamTypeOK
<1>. SUFFICES ASSUME writer.runs = 1 PROVE RunInOrder' /\ ToldInOrder'
  BY <1>5, <1>6 DEF StreamInv
<1>7. RunInOrder'
  BY <1>1, <1>5 DEF StreamInv, StreamTypeOK, RunInOrder, Stage, Terminal
<1>8. ToldInOrder'
  <2>1. \A n \in 1..Len(channel') : channel'[n] # DoneEvent
            => AtMost(channel'[n].status, reached[channel'[n].stage])
    BY <1>3, <1>4 DEF StreamInv, ToldInOrder, AtMost
  <2>. QED  BY <1>1, <1>5, <2>1 DEF StreamInv, ToldInOrder
<1>. QED  BY <1>7, <1>8

\* The session's status: the run ends, another begins, the learner reads.
LEMMA SessionKeeps ==
    ASSUME StreamInv, RunMarksSession \/ RunAgain \/ JobTriesAgain \/ LearnerReads
    PROVE  StreamInv'
<1>1. UNCHANGED <<stageRow, reached, channel, stream, told, ending>>
  BY DEF RunMarksSession, RunAgain, JobTriesAgain, StartRun, LearnerReads, runVars
<1>2. StreamTypeOK'
  <2>1. /\ DOMAIN writer' = {"at", "pc", "runs"} /\ writer'.at \in 1..Len(StreamStages)
        /\ writer'.runs \in Nat \ {0} /\ writer'.pc \in {writer.pc, "done", "begin", "finish"}
    <3>1. CASE RunMarksSession
      BY <3>1 DEF RunMarksSession, StreamInv, StreamTypeOK
    <3>2. CASE RunAgain \/ JobTriesAgain
      BY <3>2, Stages DEF RunAgain, JobTriesAgain, StartRun, Remaining, StreamInv, StreamTypeOK
    <3>3. CASE LearnerReads
      BY <3>3 DEF LearnerReads, runVars, StreamInv, StreamTypeOK
    <3>. QED  BY <3>1, <3>2, <3>3
  <2>. QED  BY <1>1, <2>1 DEF StreamInv, StreamTypeOK
<1>3. CASE RunMarksSession
  <2>1. /\ writer'.at = writer.at /\ writer'.runs = writer.runs /\ writer'.pc = "done"
        /\ writer.pc \in {"fail", "finish"}
    BY <1>3 DEF RunMarksSession, StreamInv, StreamTypeOK
  <2>. QED  BY <1>1, <1>2, <2>1 DEF StreamInv, RunInOrder, ToldInOrder, Stage
<1>4. CASE RunAgain \/ JobTriesAgain
  <2>1. ~(writer'.runs = 1)
    BY <1>4 DEF RunAgain, JobTriesAgain, StartRun, StreamInv, StreamTypeOK
  <2>. QED  BY <1>2, <2>1 DEF StreamInv
<1>5. CASE LearnerReads
  BY <1>1, <1>2, <1>5 DEF LearnerReads, runVars, StreamInv, RunInOrder, ToldInOrder, Stage, Terminal
<1>. QED  BY <1>3, <1>4, <1>5

\* A look at the table tells everything, and nothing that the run is not at.
LEMMA EmittedIsRow ==
    ASSUME StreamTypeOK
    PROVE  /\ Emitted \in [StageNames -> Statuses]
           /\ \A g \in StageNames :
                 AtMost(told[g], reached[g]) /\ AtMost(stageRow[g], reached[g])
                     => AtMost(Emitted[g], reached[g]) /\ AtMost(stageRow[g], Emitted[g])
<1>1. Emitted \in [StageNames -> Statuses]
  BY DEF Emitted, StreamTypeOK
<1>2. ASSUME NEW g \in StageNames, AtMost(told[g], reached[g]), AtMost(stageRow[g], reached[g])
      PROVE  AtMost(Emitted[g], reached[g]) /\ AtMost(stageRow[g], Emitted[g])
  <2>1. told[g] \in Statuses /\ stageRow[g] \in Statuses /\ reached[g] \in Statuses
    BY DEF StreamTypeOK
  <2>2. Emitted[g] = IF Rank(stageRow[g]) > Rank(told[g]) THEN stageRow[g] ELSE told[g]
    BY DEF Emitted
  <2>. QED  BY <1>2, <2>1, <2>2 DEF Statuses, AtMost, Rank
<1>. QED  BY <1>1, <1>2

\* The stream looks at the rows and tells what is new in them, if it can read them.
LEMMA LookKeeps ==
    ASSUME StreamInv, Replay \/ Poll \/ LastLook
    PROVE  StreamInv'
<1>1. /\ UNCHANGED <<stageRow, reached, sessionRow, writer>>
      /\ told' = Emitted \/ told' = told
      /\ \/ channel' = channel /\ ending' = ending /\ stream' \in {"check", "polled"}
            /\ stream \in {"replay", "tail"}
         \/ channel' = <<>> /\ ending' \in {"table", "blind"} /\ stream' = "over" /\ stream = "last"
      /\ ending' = "table" => told' = Emitted \/ ending = "table"
  BY DEF Replay, Poll, LastLook, EmitStages, runVars
<1>2. StreamTypeOK'
  <2>1. told' \in [StageNames -> Statuses]
    BY <1>1, EmittedIsRow DEF StreamInv, StreamTypeOK
  <2>2. ending' # "none" => stream' = "over"
    BY <1>1 DEF StreamInv, StreamTypeOK
  <2>3. channel' \in Seq(Event)
    <3>1. <<>> \in Seq(Event) /\ channel \in Seq(Event)
      BY DEF StreamInv, StreamTypeOK
    <3>. QED  BY <1>1, <3>1
  <2>. QED  BY <1>1, <2>1, <2>2, <2>3 DEF StreamInv, StreamTypeOK
<1>. SUFFICES ASSUME writer.runs = 1 PROVE RunInOrder' /\ ToldInOrder'
  BY <1>1, <1>2 DEF StreamInv
<1>3. \A g \in StageNames : AtMost(told'[g], reached[g]) /\ AtMost(stageRow[g], reached[g])
  BY <1>1, EmittedIsRow DEF StreamInv, ToldInOrder
<1>4. ending # "table"
  BY <1>1 DEF StreamInv, StreamTypeOK
<1>5. ending' = "table" => \A g \in StageNames : AtMost(stageRow[g], told'[g])
  BY <1>1, <1>4, EmittedIsRow DEF StreamInv, ToldInOrder
<1>. QED  BY <1>1, <1>3, <1>4, <1>5 DEF StreamInv, RunInOrder, ToldInOrder, Stage

\* The stream's other steps tell nothing or an event.
LEMMA TerminalKeeps ==
    ASSUME StreamInv, CheckAtConnect \/ CheckAfterSubscribe \/ CheckAfterPoll \/ Subscribe
    PROVE  StreamInv'
<1>1. /\ UNCHANGED <<stageRow, reached, sessionRow, writer, channel, told, ending>>
      /\ stream' = "last" => Terminal(sessionRow)
      /\ stream # "over"
  BY DEF CheckAtConnect, CheckAfterSubscribe, CheckAfterPoll, Subscribe, TerminalIfDone, runVars
<1>. QED  BY <1>1 DEF StreamInv, StreamTypeOK, RunInOrder, ToldInOrder, Stage

\* The stream tells what the channel has.
LEMMA TellKeeps ==
    ASSUME StreamInv, TellEvent
    PROVE  StreamInv'
<1>. DEFINE ev == channel[1]
<1>1. /\ UNCHANGED <<stageRow, reached, sessionRow, writer>> /\ stream = "tail"
      /\ channel # <<>> /\ channel \in Seq(Event) /\ ev \in Event /\ Len(channel) \in Nat
      /\ 1 \in 1..Len(channel)
      /\ ending # "table"
  BY DEF TellEvent, runVars, StreamInv, StreamTypeOK
<1>2. CASE ev = DoneEvent
  <2>1. stream' = "over" /\ ending' = "event" /\ channel' = <<>> /\ told' = told
    BY <1>1, <1>2 DEF TellEvent
  <2>. QED  BY <1>1, <2>1 DEF StreamInv, StreamTypeOK, RunInOrder, ToldInOrder, Stage
<1>3. CASE ev # DoneEvent
  <2>1. /\ stream' = stream /\ ending' = ending /\ channel' = Tail(channel)
        /\ told' = IF Rank(ev.status) > Rank(told[ev.stage])
                   THEN [told EXCEPT ![ev.stage] = ev.status] ELSE told
    BY <1>1, <1>3 DEF TellEvent
  <2>2. ev.stage \in StageNames /\ ev.status \in Statuses
    BY <1>1, <1>3 DEF Event
  <2>3. /\ channel' \in Seq(Event) /\ Len(channel') = Len(channel) - 1
        /\ \A n \in 1..Len(channel') : n + 1 \in 1..Len(channel) /\ channel'[n] = channel[n + 1]
    BY <1>1, <2>1
  <2>4. StreamTypeOK'
    BY <1>1, <2>1, <2>2, <2>3 DEF StreamInv, StreamTypeOK
  <2>5. writer.runs = 1 => ToldInOrder'
    BY <1>1, <1>3, <2>1, <2>2, <2>3 DEF StreamInv, StreamTypeOK, ToldInOrder
  <2>. QED  BY <1>1, <2>4, <2>5 DEF StreamInv, RunInOrder, Stage
<1>. QED  BY <1>2, <1>3

\* The reader goes away.
LEMMA LeaveKeeps ==
    ASSUME StreamInv, ClientLeaves
    PROVE  StreamInv'
  BY DEF ClientLeaves, runVars, StreamInv, StreamTypeOK, RunInOrder, ToldInOrder, Stage

\* StreamInv, for any stages and any number of runs.
THEOREM StreamInvariant == StreamSpec => []StreamInv
<1>1. StreamInv /\ [StreamNext]_streamVars => StreamInv'
  <2>. SUFFICES ASSUME StreamInv, [StreamNext]_streamVars PROVE StreamInv'
    OBVIOUS
  <2>1. CASE UNCHANGED streamVars
    BY <2>1 DEF streamVars, runVars, StreamInv, StreamTypeOK, RunInOrder, ToldInOrder, Stage
  <2>2. CASE StreamNext
    BY <2>2, WriteKeeps, PublishKeeps, SessionKeeps, LookKeeps, TerminalKeeps, TellKeeps, LeaveKeeps
       DEF StreamNext, RunStep, StreamStep
  <2>. QED  BY <2>1, <2>2
<1>. QED  BY <1>1, InitialStream, PTL DEF StreamSpec

\* TableEndIsExact, for any stages, size of the channel and number of runs.
THEOREM TableTellsExactly == StreamSpec => []TableEndIsExact
<1>1. StreamInv => TableEndIsExact
  BY DEF StreamInv, ToldInOrder, TableEndIsExact
<1>. QED  BY <1>1, StreamInvariant, PTL
-----------------------------------------------------------------------------
(***************************************************************************)
(* ReaderText: however the learner turns the pages and scrolls, the reader *)
(* shows a seamless stretch of the text.  What the server finds in a text  *)
(* is what two recursive functions make of its tokens; that the functions  *)
(* are there, and what they give, is shown by looking at the least         *)
(* position at which it would fail (LeastPosition).                        *)
(***************************************************************************)

SpanOrPage == [first : Nat, last : Nat]

\* Stretches of a text of so many tokens, one after the other.
InOrder(stretches, length) ==
    /\ stretches \in Seq(SpanOrPage)
    /\ \A k \in DOMAIN stretches :
          1 <= stretches[k].first /\ stretches[k].first <= stretches[k].last /\ stretches[k].last <= length
    /\ \A k, l \in DOMAIN stretches : k < l => stretches[k].last < stretches[l].first

\* After i tokens: the sentences found so far are in order, the open one comes after them,
\* and every word is in one of these.
ScanInv(tokens, scan, i) ==
    /\ scan \in [start : 0..i, closing : BOOLEAN, spans : Seq(SpanOrPage)]
    /\ InOrder(scan.spans, i)
    /\ scan.start # 0 => \A k \in DOMAIN scan.spans : scan.spans[k].last < scan.start
    /\ scan.closing => scan.start = 0 /\ scan.spans # <<>>
    /\ \A j \in 1..i : IsWord(tokens[j]) =>
          \/ \E k \in DOMAIN scan.spans : j \in scan.spans[k].first..scan.spans[k].last
          \/ scan.start # 0 /\ scan.start <= j

\* With room for n pages: they follow one another, each as long as it should be, and there
\* are n of them or they hold the whole text.
PagesInv(length, spans, pages, n) ==
    /\ InOrder(pages, length)
    /\ \A k \in DOMAIN pages :
          /\ k <= pages[k].last
          /\ pages[k].first = IF k = 1 THEN 1 ELSE pages[k - 1].last + 1
          /\ pages[k].last = PageEnd(length, spans, pages[k].first)
    /\ Len(pages) = n \/ (pages # <<>> /\ pages[Len(pages)].last = length)

\* What the server finds in a text.
WellServed(t) ==
    /\ t.tokens \in Seq(TokenKinds) \ {<<>>}
    /\ InOrder(t.spans, Len(t.tokens))
    /\ \A i \in DOMAIN t.tokens : IsWord(t.tokens[i]) => \E s \in ToSet(t.spans) : i \in s.first..s.last
    /\ PagesInv(Len(t.tokens), t.spans, t.pages, Len(t.tokens))
    /\ t.pages # <<>> /\ t.pages[Len(t.pages)].last = Len(t.tokens)

Edge(direction) == IF direction = 1 THEN Max(loaded) ELSE Min(loaded)

TextInv ==
    /\ WellServed(text)
    /\ loaded \subseteq DOMAIN text.pages
    /\ HeldTogether
    /\ turning # NoLoad => turning.to \in DOMAIN text.pages
    /\ extending # NoLoad =>
          /\ extending.to \in DOMAIN text.pages
          /\ extending.direction \in {1, -1}
          /\ ~replaced => extending.to = Edge(extending.direction) + extending.direction
    /\ replaced \in BOOLEAN

\* A set of positions has a least and a greatest one: what stands in for induction here.
LEMMA LeastPosition ==
    ASSUME NEW T \in SUBSET Nat, T # {}
    PROVE  Min(T) \in T /\ \A n \in T : Min(T) <= n
<1>. DEFINE Below == {0..n : n \in T}
<1>1. Below \subseteq FiniteSubsetsOf(Nat)
  <2>1. \A n \in T : 0..n \in SUBSET Nat /\ IsFiniteSet(0..n)
    BY FS_Interval
  <2>. QED  BY <2>1 DEF FiniteSubsetsOf
<1>2. PICK b \in Below : \A c \in Below : ~ (<<c, b>> \in StrictSubsetOrdering(Nat))
  <2>1. Below # {}
    OBVIOUS
  <2>. HIDE DEF Below
  <2>2. IsWellFoundedOn(StrictSubsetOrdering(Nat), FiniteSubsetsOf(Nat))
    BY FS_StrictSubsetOrderingWellFounded
  <2>. QED  BY <1>1, <2>1, <2>2, WFMin, Zenon
<1>3. PICK m \in T : b = 0..m
  OBVIOUS
<1>4. ASSUME NEW n \in T, n < m PROVE FALSE
  <2>1. 0..n \in Below /\ 0..n \subseteq 0..m /\ m \in 0..m /\ m \notin 0..n
    BY <1>4
  <2>2. <<0..n, b>> \in StrictSubsetOrdering(Nat)
    BY <2>1, <1>3 DEF StrictSubsetOrdering
  <2>. QED  BY <1>2, <2>1, <2>2
<1>5. \E k \in T : \A n \in T : k <= n
  BY <1>4
<1>. QED  BY <1>5, Zenon DEF Min

\* And, up to a bound, a greatest one.
LEMMA GreatestPosition ==
    ASSUME NEW L \in Nat, NEW T \in SUBSET (1..L), T # {}
    PROVE  Max(T) \in T /\ \A n \in T : Max(T) >= n
<1>. DEFINE U == {L - n : n \in T}
<1>1. U \in SUBSET Nat /\ U # {}
  <2>1. \A n \in T : L - n \in Nat
    OBVIOUS
  <2>. QED  BY <2>1
<1>2. Min(U) \in U /\ \A u \in U : Min(U) <= u
  <2>. HIDE DEF U
  <2>. QED  BY <1>1, LeastPosition
<1>3. PICK m \in T : Min(U) = L - m
  BY <1>2
<1>4. \A n \in T : L - m <= L - n
  BY <1>2, <1>3
<1>5. \A n \in T : m >= n
  BY <1>4
<1>6. \E x \in T : \A y \in T : x >= y
  BY <1>5
<1>. QED  BY <1>6, Zenon DEF Max

\* An interval begins and ends with its bounds.
LEMMA EdgesOfInterval ==
    ASSUME NEW a \in Nat, NEW b \in Nat, a <= b
    PROVE  Min(a..b) = a /\ Max(a..b) = b
<1>1. \E x \in a..b : \A y \in a..b : x <= y
  <2>1. a \in a..b /\ \A y \in a..b : a <= y
    OBVIOUS
  <2>. QED  BY <2>1
<1>2. \E x \in a..b : \A y \in a..b : x >= y
  <2>1. b \in a..b /\ \A y \in a..b : b >= y
    OBVIOUS
  <2>. QED  BY <2>1
<1>3. Min(a..b) \in a..b /\ \A y \in a..b : Min(a..b) <= y
  BY <1>1, Zenon DEF Min
<1>4. Max(a..b) \in a..b /\ \A y \in a..b : Max(a..b) >= y
  BY <1>2, Zenon DEF Max
<1>. QED  BY <1>3, <1>4

\* A sentence or a page has two positions.
LEMMA FieldsOfStretch ==
    ASSUME NEW p \in SpanOrPage
    PROVE  p.first \in Nat /\ p.last \in Nat
  BY DEF SpanOrPage

\* One stretch more, after the ones there are.
LEMMA AppendInOrder ==
    ASSUME NEW stretches, NEW limit \in Nat, InOrder(stretches, limit),
           NEW first \in Nat, NEW last \in Nat, NEW length \in Nat,
           1 <= first, first <= last, last <= length, limit <= length,
           \A k \in DOMAIN stretches : stretches[k].last < first
    PROVE  /\ InOrder(Append(stretches, Span(first, last)), length)
           /\ Len(Append(stretches, Span(first, last))) = Len(stretches) + 1
           /\ Append(stretches, Span(first, last)) # <<>>
           /\ \A k \in DOMAIN stretches :
                 /\ k \in DOMAIN Append(stretches, Span(first, last))
                 /\ Append(stretches, Span(first, last))[k] = stretches[k]
           /\ Append(stretches, Span(first, last))[Len(stretches) + 1] = Span(first, last)
<1>. DEFINE s == Span(first, last)
            more == Append(stretches, s)
<1>1. stretches \in Seq(SpanOrPage) /\ s \in SpanOrPage /\ s.first = first /\ s.last = last
  BY DEF InOrder, Span, SpanOrPage
<1>2. PICK L \in Nat : L = Len(stretches) /\ DOMAIN stretches = 1..L
  BY <1>1
<1>. HIDE DEF s
<1>3. /\ more \in Seq(SpanOrPage) /\ Len(more) = L + 1 /\ DOMAIN more = 1..(L + 1)
      /\ more[L + 1] = s /\ \A k \in 1..L : more[k] = stretches[k]
  BY <1>1, <1>2
<1>. HIDE DEF more
<1>4. \A k \in 1..L : stretches[k].first \in Nat /\ stretches[k].last \in Nat
  BY <1>1, <1>2, FieldsOfStretch
<1>5. ASSUME NEW k \in DOMAIN more
      PROVE  1 <= more[k].first /\ more[k].first <= more[k].last /\ more[k].last <= length
  <2>1. CASE k = L + 1
    BY <1>1, <1>3, <2>1
  <2>2. CASE k \in 1..L
    <3>1. 1 <= stretches[k].first /\ stretches[k].first <= stretches[k].last /\ stretches[k].last <= limit
      BY <1>2, <2>2 DEF InOrder
    <3>. QED  BY <1>3, <1>4, <2>2, <3>1
  <2>. QED  BY <1>3, <2>1, <2>2
<1>6. ASSUME NEW k \in DOMAIN more, NEW l \in DOMAIN more, k < l
      PROVE  more[k].last < more[l].first
  <2>1. k \in 1..L
    BY <1>3, <1>6
  <2>2. CASE l = L + 1
    BY <1>1, <1>2, <1>3, <2>1, <2>2
  <2>3. CASE l \in 1..L
    BY <1>2, <1>3, <1>6, <2>1, <2>3 DEF InOrder
  <2>. QED  BY <1>3, <2>2, <2>3
<1>7. InOrder(more, length)
  BY <1>3, <1>5, <1>6 DEF InOrder
<1>8. more # <<>>
  BY <1>3
<1>. QED  BY <1>2, <1>3, <1>7, <1>8 DEF more, s

\* Room for more changes nothing.
LEMMA InOrderOfLonger ==
    ASSUME NEW stretches, NEW limit \in Nat, InOrder(stretches, limit), NEW length \in Nat, limit <= length
    PROVE  InOrder(stretches, length)
<1>1. \A k \in DOMAIN stretches : stretches[k].last \in Nat
  BY FieldsOfStretch DEF InOrder
<1>. QED  BY <1>1 DEF InOrder
-----------------------------------------------------------------------------
\* What is to be shown of the scan, field by field.
LEMMA ScanInvOf ==
    ASSUME NEW tokens, NEW i \in Nat, NEW start \in 0..i, NEW closing \in BOOLEAN, NEW spans,
           InOrder(spans, i),
           start # 0 => \A k \in DOMAIN spans : spans[k].last < start,
           closing => start = 0 /\ spans # <<>>,
           \A j \in 1..i : IsWord(tokens[j]) =>
              \/ \E k \in DOMAIN spans : j \in spans[k].first..spans[k].last
              \/ start # 0 /\ start <= j
    PROVE  ScanInv(tokens, [start |-> start, closing |-> closing, spans |-> spans], i)
<1>. DEFINE scan == [start |-> start, closing |-> closing, spans |-> spans]
<1>1. scan.start = start /\ scan.closing = closing /\ scan.spans = spans
  OBVIOUS
<1>2. spans \in Seq(SpanOrPage)
  BY DEF InOrder
<1>3. scan \in [start : 0..i, closing : BOOLEAN, spans : Seq(SpanOrPage)]
  BY <1>2
<1>. HIDE DEF scan
<1>4. ScanInv(tokens, scan, i)
  BY <1>1, <1>3 DEF ScanInv
<1>. QED  BY <1>4 DEF scan

\* One token more.
LEMMA ScanStep ==
    ASSUME NEW tokens, NEW n \in Nat, NEW i \in Nat, i = n + 1, NEW scan, ScanInv(tokens, scan, n)
    PROVE  ScanInv(tokens, AfterToken(tokens, scan, i), i)
<1>. DEFINE after == AfterToken(tokens, scan, i)
<1>0. PICK t : t = tokens[i]
  OBVIOUS
<1>1. PICK start \in 0..n, closing \in BOOLEAN, spans \in Seq(SpanOrPage) :
        scan = [start |-> start, closing |-> closing, spans |-> spans]
  BY DEF ScanInv
<1>2. /\ InOrder(spans, n)
      /\ start # 0 => \A k \in DOMAIN spans : spans[k].last < start
      /\ closing => start = 0 /\ spans # <<>>
      /\ \A j \in 1..n : IsWord(tokens[j]) =>
            \/ \E k \in DOMAIN spans : j \in spans[k].first..spans[k].last
            \/ start # 0 /\ start <= j
  BY <1>1 DEF ScanInv
<1>3. PICK L \in Nat : L = Len(spans) /\ DOMAIN spans = 1..L
  BY <1>1
<1>4. \A k \in 1..L : /\ spans[k] \in SpanOrPage /\ spans[k].first \in Nat /\ spans[k].last \in Nat
                      /\ 1 <= spans[k].first /\ spans[k].first <= spans[k].last /\ spans[k].last <= n
  <2>1. \A k \in 1..L : spans[k] \in SpanOrPage
    BY <1>1, <1>3
  <2>. QED  BY <1>2, <1>3, <2>1, FieldsOfStretch DEF InOrder
<1>5. PICK open \in 1..i : open = IF start = 0 THEN i ELSE start
  BY <1>1
<1>6. \A k \in 1..L : spans[k].last < open
  BY <1>1, <1>2, <1>3, <1>4, <1>5
<1>6a. /\ closing /\ t \in {"end", "closing"} =>
             after = [[start |-> start, closing |-> closing, spans |-> spans]
                         EXCEPT !.spans[Len(spans)].last = i]
       /\ ~ (closing /\ t \in {"end", "closing"}) /\ t = "break" =>
             after = [start |-> 0, closing |-> FALSE,
                      spans |-> IF start = 0 THEN spans ELSE Append(spans, Span(start, i - 1))]
       /\ t = "space" => after = [start |-> start, closing |-> FALSE, spans |-> spans]
       /\ ~ (closing /\ t \in {"end", "closing"}) /\ IsSentenceEnd(t) =>
             after = [start |-> 0, closing |-> TRUE, spans |-> Append(spans, Span(open, i))]
       /\ ~ (closing /\ t \in {"end", "closing"}) /\ t # "break" /\ t # "space" /\ ~ IsSentenceEnd(t) =>
             after = [start |-> open, closing |-> FALSE, spans |-> spans]
  <2>1. scan.start = start /\ scan.closing = closing /\ scan.spans = spans
    BY <1>1
  <2>2. CASE closing /\ t \in {"end", "closing"}
    BY <1>0, <1>1, <2>1, <2>2 DEF AfterToken, IsSentenceEnd
  <2>3. CASE ~ (closing /\ t \in {"end", "closing"}) /\ t = "break"
    BY <1>0, <2>1, <2>3 DEF AfterToken, IsSentenceEnd
  <2>4. CASE t = "space"
    BY <1>0, <1>1, <2>1, <2>4 DEF AfterToken, IsSentenceEnd
  <2>5. CASE ~ (closing /\ t \in {"end", "closing"}) /\ IsSentenceEnd(t)
    BY <1>0, <1>5, <2>1, <2>5 DEF AfterToken, IsSentenceEnd
  <2>6. CASE ~ (closing /\ t \in {"end", "closing"}) /\ t # "break" /\ t # "space" /\ ~ IsSentenceEnd(t)
    BY <1>0, <1>1, <1>5, <2>1, <2>6 DEF AfterToken, IsSentenceEnd
  <2>. QED  BY <2>2, <2>3, <2>4, <2>5, <2>6
<1>. HIDE DEF after
<1>7. ASSUME closing, t \in {"end", "closing"}  PROVE ScanInv(tokens, after, i)
  <2>. DEFINE longer == [spans EXCEPT ![L].last = i]
  <2>2. after = [start |-> start, closing |-> closing, spans |-> longer]
    BY <1>3, <1>7, <1>6a
  <2>3. L >= 1 /\ start = 0 /\ closing = TRUE
    BY <1>1, <1>2, <1>3, <1>7
  <2>4. /\ longer \in Seq(SpanOrPage) /\ DOMAIN longer = 1..L /\ Len(longer) = L
        /\ \A k \in 1..L : longer[k].first = spans[k].first /\ longer[k].last = (IF k = L THEN i ELSE spans[k].last)
    <3>1. spans[L] \in SpanOrPage
      BY <1>4, <2>3
    <3>2. /\ [spans[L] EXCEPT !.last = i] \in SpanOrPage
          /\ [spans[L] EXCEPT !.last = i].first = spans[L].first /\ [spans[L] EXCEPT !.last = i].last = i
      <4>1. \A p \in SpanOrPage : /\ [p EXCEPT !.last = i] \in SpanOrPage
                                  /\ [p EXCEPT !.last = i].first = p.first /\ [p EXCEPT !.last = i].last = i
        BY DEF SpanOrPage
      <4>. QED  BY <3>1, <4>1
    <3>3. longer = [spans EXCEPT ![L] = [spans[L] EXCEPT !.last = i]]
      BY <1>3, <2>3
    <3>. DEFINE new == [spans[L] EXCEPT !.last = i]
    <3>. HIDE DEF longer, new
    <3>4. longer = [spans EXCEPT ![L] = new]
      BY <3>3 DEF new
    <3>5. longer \in Seq(SpanOrPage) /\ DOMAIN longer = 1..L /\ Len(longer) = L
      BY <1>1, <1>3, <2>3, <3>2, <3>4 DEF new
    <3>6. \A k \in 1..L : longer[k] = IF k = L THEN new ELSE spans[k]
      BY <1>3, <3>4
    <3>. QED  BY <3>2, <3>5, <3>6 DEF new
  <2>. HIDE DEF longer
  <2>5. InOrder(longer, i)
    <3>1. \A k \in 1..L : 1 <= longer[k].first /\ longer[k].first <= longer[k].last /\ longer[k].last <= i
      <4>. TAKE k \in 1..L
      <4>1. longer[k].first = spans[k].first /\ longer[k].last = IF k = L THEN i ELSE spans[k].last
        BY <2>4
      <4>2. /\ spans[k].first \in Nat /\ spans[k].last \in Nat
            /\ 1 <= spans[k].first /\ spans[k].first <= spans[k].last /\ spans[k].last <= n
        BY <1>4
      <4>3. CASE k = L
        BY <4>1, <4>2, <4>3
      <4>4. CASE k # L
        BY <4>1, <4>2, <4>4
      <4>. QED  BY <4>3, <4>4
    <3>2. \A k, l \in 1..L : k < l => longer[k].last < longer[l].first
      BY <1>2, <1>3, <2>4 DEF InOrder
    <3>. QED  BY <2>4, <3>1, <3>2 DEF InOrder
  <2>6. ASSUME NEW j \in 1..i, IsWord(tokens[j])
        PROVE  \E k \in 1..L : j \in longer[k].first..longer[k].last
    <3>1. j \in 1..n
      BY <1>0, <1>7, <2>6 DEF IsWord
    <3>2. PICK k \in 1..L : j \in spans[k].first..spans[k].last
      BY <1>2, <1>3, <2>3, <2>6, <3>1
    <3>3. longer[k].first = spans[k].first /\ (longer[k].last = i \/ longer[k].last = spans[k].last)
      BY <2>4
    <3>. QED  BY <1>4, <3>1, <3>2, <3>3
  <2>7. longer # <<>>
    BY <2>3, <2>4
  <2>8. start \in 0..i /\ closing \in BOOLEAN
    BY <1>1
  <2>9. \A j \in 1..i : IsWord(tokens[j]) => \E k \in DOMAIN longer : j \in longer[k].first..longer[k].last
    BY <2>4, <2>6
  <2>10. ScanInv(tokens, [start |-> start, closing |-> closing, spans |-> longer], i)
    BY <2>3, <2>5, <2>7, <2>8, <2>9, ScanInvOf
  <2>. QED  BY <2>2, <2>10
<1>8. ASSUME ~ (closing /\ t \in {"end", "closing"}), t = "break"  PROVE ScanInv(tokens, after, i)
  <2>1. after = [start |-> 0, closing |-> FALSE,
                 spans |-> IF start = 0 THEN spans ELSE Append(spans, Span(start, n))]
    <3>1. i - 1 = n
      OBVIOUS
    <3>. QED  BY <1>8, <1>6a, <3>1
  <2>2. ~ IsWord(tokens[i])
    BY <1>0, <1>8 DEF IsWord
  <2>3. CASE start = 0
    <3>1. InOrder(spans, i)
      BY <1>2, InOrderOfLonger
    <3>2. \A j \in 1..i : IsWord(tokens[j]) => \E k \in DOMAIN spans : j \in spans[k].first..spans[k].last
      BY <1>2, <2>2, <2>3
    <3>3. after = [start |-> 0, closing |-> FALSE, spans |-> spans]
      BY <2>1, <2>3
    <3>4. 0 \in 0..i /\ FALSE \in BOOLEAN
      OBVIOUS
    <3>5. ScanInv(tokens, [start |-> 0, closing |-> FALSE, spans |-> spans], i)
      BY <3>1, <3>2, <3>4, ScanInvOf
    <3>. QED  BY <3>3, <3>5
  <2>4. CASE start # 0
    <3>. DEFINE more == Append(spans, Span(start, n))
    <3>0. /\ start \in Nat /\ 1 <= start /\ start <= n /\ n <= n /\ n <= i
          /\ \A k \in DOMAIN spans : spans[k].last < start
      BY <1>1, <1>2, <2>4
    <3>1a. InOrder(more, n)
      BY <1>2, <3>0, AppendInOrder
    <3>1. /\ Len(more) = L + 1
          /\ \A k \in DOMAIN spans : k \in DOMAIN more /\ more[k] = spans[k]
          /\ more[L + 1] = Span(start, n)
      BY <1>2, <1>3, <3>0, AppendInOrder
    <3>. HIDE DEF more
    <3>1b. InOrder(more, i)
      BY <3>1a, InOrderOfLonger
    <3>2. more \in Seq(SpanOrPage) /\ L + 1 \in DOMAIN more
      BY <3>1, <3>1b DEF InOrder
    <3>3. Span(start, n).first = start /\ Span(start, n).last = n
      BY DEF Span
    <3>4. ASSUME NEW j \in 1..i, IsWord(tokens[j])
          PROVE  \E k \in DOMAIN more : j \in more[k].first..more[k].last
      <4>1. j \in 1..n
        BY <2>2, <3>4
      <4>2. CASE \E k \in DOMAIN spans : j \in spans[k].first..spans[k].last
        BY <3>1, <4>2
      <4>3. CASE start <= j
        <5>1. j \in more[L + 1].first..more[L + 1].last
          BY <1>1, <3>1, <3>3, <4>1, <4>3
        <5>. QED  BY <3>2, <5>1
      <4>. QED  BY <1>2, <3>4, <4>1, <4>2, <4>3
    <3>5. after = [start |-> 0, closing |-> FALSE, spans |-> more]
      BY <2>1, <2>4 DEF more
    <3>6. 0 \in 0..i /\ FALSE \in BOOLEAN
      OBVIOUS
    <3>7. ScanInv(tokens, [start |-> 0, closing |-> FALSE, spans |-> more], i)
      BY <3>1b, <3>4, <3>6, ScanInvOf
    <3>. QED  BY <3>5, <3>7
  <2>. QED  BY <2>3, <2>4
<1>9. ASSUME t = "space"  PROVE ScanInv(tokens, after, i)
  <2>1. after = [start |-> start, closing |-> FALSE, spans |-> spans]
    BY <1>9, <1>6a
  <2>2. ~ IsWord(tokens[i])
    BY <1>0, <1>9 DEF IsWord
  <2>3. InOrder(spans, i)
    BY <1>2, InOrderOfLonger
  <2>4. start \in 0..i /\ FALSE \in BOOLEAN
    BY <1>1
  <2>5. \A j \in 1..i : IsWord(tokens[j]) =>
          \/ \E k \in DOMAIN spans : j \in spans[k].first..spans[k].last
          \/ start # 0 /\ start <= j
    BY <1>2, <2>2
  <2>6. ScanInv(tokens, [start |-> start, closing |-> FALSE, spans |-> spans], i)
    BY <1>2, <2>3, <2>4, <2>5, ScanInvOf
  <2>. QED  BY <2>1, <2>6
<1>10. ASSUME ~ (closing /\ t \in {"end", "closing"}), IsSentenceEnd(t)  PROVE ScanInv(tokens, after, i)
  <2>. DEFINE more == Append(spans, Span(open, i))
  <2>1. after = [start |-> 0, closing |-> TRUE, spans |-> more]
    BY <1>10, <1>6a
  <2>2. /\ InOrder(more, i) /\ Len(more) = L + 1 /\ more # <<>>
        /\ \A k \in DOMAIN spans : k \in DOMAIN more /\ more[k] = spans[k]
        /\ more[L + 1] = Span(open, i)
    <3>1. open \in Nat /\ 1 <= open /\ open <= i /\ i <= i /\ n <= i
      OBVIOUS
    <3>2. \A k \in DOMAIN spans : spans[k].last < open
      BY <1>3, <1>6
    <3>3. /\ InOrder(Append(spans, Span(open, i)), i)
          /\ Len(Append(spans, Span(open, i))) = Len(spans) + 1
          /\ Append(spans, Span(open, i)) # <<>>
          /\ \A k \in DOMAIN spans : /\ k \in DOMAIN Append(spans, Span(open, i))
                                     /\ Append(spans, Span(open, i))[k] = spans[k]
          /\ Append(spans, Span(open, i))[Len(spans) + 1] = Span(open, i)
      BY <1>2, <3>1, <3>2, AppendInOrder
    <3>. QED  BY <1>3, <3>3
  <2>. HIDE DEF more
  <2>3. more \in Seq(SpanOrPage) /\ L + 1 \in DOMAIN more
    BY <2>2 DEF InOrder
  <2>4. Span(open, i).first = open /\ Span(open, i).last = i
    BY DEF Span
  <2>5. ASSUME NEW j \in 1..i, IsWord(tokens[j])
        PROVE  \E k \in DOMAIN more : j \in more[k].first..more[k].last
    <3>1. CASE j \in 1..n /\ \E k \in DOMAIN spans : j \in spans[k].first..spans[k].last
      BY <2>2, <3>1
    <3>2. CASE open <= j
      <4>1. j \in more[L + 1].first..more[L + 1].last
        BY <1>5, <2>2, <2>4, <3>2
      <4>. QED  BY <2>3, <4>1
    <3>. QED  BY <1>2, <1>5, <2>5, <3>1, <3>2
  <2>6. 0 \in 0..i /\ TRUE \in BOOLEAN
    OBVIOUS
  <2>7. ScanInv(tokens, [start |-> 0, closing |-> TRUE, spans |-> more], i)
    BY <2>2, <2>5, <2>6, ScanInvOf
  <2>. QED  BY <2>1, <2>7
<1>11. ASSUME ~ (closing /\ t \in {"end", "closing"}), t # "break", t # "space", ~ IsSentenceEnd(t)
       PROVE  ScanInv(tokens, after, i)
  <2>1. after = [start |-> open, closing |-> FALSE, spans |-> spans]
    BY <1>11, <1>6a
  <2>2. InOrder(spans, i)
    BY <1>2, InOrderOfLonger
  <2>3. \A j \in 1..i : IsWord(tokens[j]) =>
          \/ \E k \in DOMAIN spans : j \in spans[k].first..spans[k].last
          \/ open # 0 /\ open <= j
    BY <1>2, <1>5
  <2>4. open \in 0..i /\ FALSE \in BOOLEAN /\ \A k \in DOMAIN spans : spans[k].last < open
    BY <1>3, <1>5, <1>6
  <2>5. ScanInv(tokens, [start |-> open, closing |-> FALSE, spans |-> spans], i)
    BY <2>2, <2>3, <2>4, ScanInvOf
  <2>. QED  BY <2>1, <2>5
<1>12. ScanInv(tokens, after, i)
  BY <1>7, <1>8, <1>9, <1>10, <1>11
<1>. QED  BY <1>12 DEF after

\* The functions by which the sentences are found and the pages are cut.
IsScan(tokens, f) ==
    f = [i \in 0..Len(tokens) |->
            IF i = 0 THEN [start |-> 0, closing |-> FALSE, spans |-> <<>>] ELSE AfterToken(tokens, f[i - 1], i)]

IsCut(length, spans, f) ==
    f = [n \in 0..length |-> IF n = 0 THEN <<>> ELSE WithNextPage(f[n - 1], length, spans)]

\* They exist for any text: look at the least position that is too far for one.
LEMMA ScanExists ==
    ASSUME NEW tokens, Len(tokens) \in Nat
    PROVE  \E f : IsScan(tokens, f)
<1>. DEFINE begin == [start |-> 0, closing |-> FALSE, spans |-> <<>>]
            UpTo(n, f) == /\ f[0] = begin
                          /\ \A i \in 1..n : f[i] = AfterToken(tokens, f[i - 1], i)
            failing == {n \in 0..Len(tokens) : ~ \E f : UpTo(n, f)}
<1>1. failing = {}
  <2>. SUFFICES ASSUME failing # {} PROVE FALSE
    OBVIOUS
  <2>1. failing \in SUBSET Nat
    OBVIOUS
  <2>2. PICK n \in failing : \A m \in failing : n <= m
    <3>. HIDE DEF failing
    <3>. QED  BY <2>1, LeastPosition
  <2>3. n \in 0..Len(tokens) /\ ~ \E f : UpTo(n, f)
    OBVIOUS
  <2>4. CASE n = 0
    <3>1. UpTo(0, [i \in {0} |-> begin])
      OBVIOUS
    <3>. QED  BY <2>3, <2>4, <3>1
  <2>5. CASE n # 0
    <3>1. n - 1 \in 0..Len(tokens) /\ n - 1 \notin failing
      <4>1. n - 1 \in 0..Len(tokens) /\ ~ (n <= n - 1)
        BY <2>3, <2>5
      <4>. HIDE DEF failing
      <4>. QED  BY <2>2, <4>1
    <3>2. PICK f : UpTo(n - 1, f)
      BY <3>1
    <3>. DEFINE g == [i \in 0..n |-> IF i = n THEN AfterToken(tokens, f[n - 1], n) ELSE f[i]]
    <3>3. g[0] = begin
      BY <2>3, <2>5, <3>2
    <3>4. ASSUME NEW i \in 1..n PROVE g[i] = AfterToken(tokens, g[i - 1], i)
      <4>1. g[i - 1] = f[i - 1]
        BY <2>3, <3>4
      <4>2. CASE i = n
        BY <2>3, <4>1, <4>2
      <4>3. CASE i # n
        <5>1. i \in 1..(n - 1) /\ g[i] = f[i]
          BY <2>3, <3>4, <4>3
        <5>. QED  BY <3>2, <4>1, <5>1
      <4>. QED  BY <4>2, <4>3
    <3>5. UpTo(n, g)
      BY <3>3, <3>4
    <3>. QED  BY <2>3, <3>5
  <2>. QED  BY <2>4, <2>5
<1>2. PICK f : UpTo(Len(tokens), f)
  <2>1. Len(tokens) \in 0..Len(tokens) /\ Len(tokens) \notin failing
    BY <1>1
  <2>. QED  BY <2>1
<1>3. PICK g : g = [i \in 0..Len(tokens) |-> f[i]]
  OBVIOUS
<1>4. \A i \in 0..Len(tokens) : g[i] = IF i = 0 THEN begin ELSE AfterToken(tokens, g[i - 1], i)
  <2>. TAKE i \in 0..Len(tokens)
  <2>1. CASE i = 0
    BY <1>2, <1>3, <2>1
  <2>2. CASE i # 0
    <3>1. i \in 1..Len(tokens) /\ i - 1 \in 0..Len(tokens)
      BY <2>2
    <3>. QED  BY <1>2, <1>3, <2>2, <3>1
  <2>. QED  BY <2>1, <2>2
<1>5. g = [i \in 0..Len(tokens) |-> g[i]]
  BY <1>3
<1>6. IsScan(tokens, g)
  BY <1>4, <1>5 DEF IsScan
<1>. QED  BY <1>6

\* The same for the pages.
LEMMA CutExists ==
    ASSUME NEW length \in Nat, NEW spans
    PROVE  \E f : IsCut(length, spans, f)
<1>. DEFINE UpTo(n, f) == /\ f[0] = <<>>
                          /\ \A i \in 1..n : f[i] = WithNextPage(f[i - 1], length, spans)
            failing == {n \in 0..length : ~ \E f : UpTo(n, f)}
<1>1. failing = {}
  <2>. SUFFICES ASSUME failing # {} PROVE FALSE
    OBVIOUS
  <2>1. failing \in SUBSET Nat
    OBVIOUS
  <2>2. PICK n \in failing : \A m \in failing : n <= m
    <3>. HIDE DEF failing
    <3>. QED  BY <2>1, LeastPosition
  <2>3. n \in 0..length /\ ~ \E f : UpTo(n, f)
    OBVIOUS
  <2>4. CASE n = 0
    <3>1. UpTo(0, [i \in {0} |-> <<>>])
      OBVIOUS
    <3>. QED  BY <2>3, <2>4, <3>1
  <2>5. CASE n # 0
    <3>1. n - 1 \in 0..length /\ n - 1 \notin failing
      <4>1. n - 1 \in 0..length /\ ~ (n <= n - 1)
        BY <2>3, <2>5
      <4>. HIDE DEF failing
      <4>. QED  BY <2>2, <4>1
    <3>2. PICK f : UpTo(n - 1, f)
      BY <3>1
    <3>. DEFINE g == [i \in 0..n |-> IF i = n THEN WithNextPage(f[n - 1], length, spans) ELSE f[i]]
    <3>3. g[0] = <<>>
      BY <2>3, <2>5, <3>2
    <3>4. ASSUME NEW i \in 1..n PROVE g[i] = WithNextPage(g[i - 1], length, spans)
      <4>1. g[i - 1] = f[i - 1]
        BY <2>3, <3>4
      <4>2. CASE i = n
        BY <2>3, <4>1, <4>2
      <4>3. CASE i # n
        <5>1. i \in 1..(n - 1) /\ g[i] = f[i]
          BY <2>3, <3>4, <4>3
        <5>. QED  BY <3>2, <4>1, <5>1
      <4>. QED  BY <4>2, <4>3
    <3>5. UpTo(n, g)
      BY <3>3, <3>4
    <3>. QED  BY <2>3, <3>5
  <2>. QED  BY <2>4, <2>5
<1>2. PICK f : UpTo(length, f)
  <2>1. length \in 0..length /\ length \notin failing
    BY <1>1
  <2>. QED  BY <2>1
<1>3. PICK g : g = [i \in 0..length |-> f[i]]
  OBVIOUS
<1>4. \A i \in 0..length : g[i] = IF i = 0 THEN <<>> ELSE WithNextPage(g[i - 1], length, spans)
  <2>. TAKE i \in 0..length
  <2>1. CASE i = 0
    BY <1>2, <1>3, <2>1
  <2>2. CASE i # 0
    <3>1. i \in 1..length /\ i - 1 \in 0..length
      BY <2>2
    <3>. QED  BY <1>2, <1>3, <2>2, <3>1
  <2>. QED  BY <2>1, <2>2
<1>5. g = [i \in 0..length |-> g[i]]
  BY <1>3
<1>6. IsCut(length, spans, g)
  BY <1>4, <1>5 DEF IsCut
<1>. QED  BY <1>6

\* Every sentence is found whole, and every word in one.
LEMMA SentencesInOrder ==
    ASSUME NEW tokens \in Seq(TokenKinds)
    PROVE  /\ InOrder(SentenceSpans(tokens), Len(tokens))
           /\ \A j \in 1..Len(tokens) : IsWord(tokens[j]) =>
                 \E k \in DOMAIN SentenceSpans(tokens) :
                    j \in SentenceSpans(tokens)[k].first..SentenceSpans(tokens)[k].last
<1>. DEFINE f == CHOOSE f : IsScan(tokens, f)
            all == f[Len(tokens)]
<1>1. Len(tokens) \in Nat
  OBVIOUS
<1>2. IsScan(tokens, f)
  BY <1>1, ScanExists, Zenon
<1>3. SentenceSpans(tokens) = IF all.start = 0 THEN all.spans ELSE Append(all.spans, Span(all.start, Len(tokens)))
  BY Zenon DEF SentenceSpans, IsScan
<1>. HIDE DEF f
<1>4. /\ f[0] = [start |-> 0, closing |-> FALSE, spans |-> <<>>]
      /\ \A i \in 1..Len(tokens) : f[i] = AfterToken(tokens, f[i - 1], i)
  <2>1. PICK L \in Nat : L = Len(tokens)
    BY <1>1
  <2>2. f = [i \in 0..L |->
              IF i = 0 THEN [start |-> 0, closing |-> FALSE, spans |-> <<>>] ELSE AfterToken(tokens, f[i - 1], i)]
    BY <1>2, <2>1 DEF IsScan
  <2>3. \A i \in 0..L :
          f[i] = IF i = 0 THEN [start |-> 0, closing |-> FALSE, spans |-> <<>>] ELSE AfterToken(tokens, f[i - 1], i)
    BY <2>2, Zenon
  <2>4. 0 \in 0..L /\ \A i \in 1..L : i \in 0..L /\ i # 0
    OBVIOUS
  <2>. QED  BY <2>1, <2>3, <2>4
<1>5. ScanInv(tokens, f[0], 0)
  <2>1. InOrder(<<>>, 0)
    BY DEF InOrder
  <2>2. ScanInv(tokens, [start |-> 0, closing |-> FALSE, spans |-> <<>>], 0)
    <3>1. 0 \in Nat /\ 0 \in 0..0 /\ FALSE \in BOOLEAN /\ ~ (0 # 0) /\ ~ \E j \in 1..0 : TRUE
      OBVIOUS
    <3>. QED  BY <2>1, <3>1, ScanInvOf
  <2>. QED  BY <1>4, <2>2
<1>6. ScanInv(tokens, all, Len(tokens))
  <2>. DEFINE failing == {n \in 0..Len(tokens) : ~ ScanInv(tokens, f[n], n)}
  <2>1. ASSUME failing # {} PROVE FALSE
    <3>1. PICK n \in failing : \A m \in failing : n <= m
      <4>1. failing \in SUBSET Nat
        OBVIOUS
      <4>. HIDE DEF failing
      <4>. QED  BY <2>1, <4>1, LeastPosition
    <3>2. n \in 0..Len(tokens) /\ ~ ScanInv(tokens, f[n], n)
      OBVIOUS
    <3>3. PICK m \in Nat : n = m + 1
      BY <1>5, <3>2
    <3>4. m \in 0..Len(tokens) /\ m \notin failing
      <4>1. m \in 0..Len(tokens) /\ ~ (n <= m)
        BY <3>2, <3>3
      <4>. HIDE DEF failing
      <4>. QED  BY <3>1, <4>1
    <3>5. ScanInv(tokens, f[m], m)
      BY <3>4
    <3>6. f[n] = AfterToken(tokens, f[m], n)
      <4>1. n \in 1..Len(tokens) /\ n - 1 = m
        BY <3>2, <3>3
      <4>. QED  BY <1>4, <4>1
    <3>7. n \in Nat
      BY <3>2
    <3>. QED  BY <3>2, <3>3, <3>5, <3>6, <3>7, ScanStep
  <2>. QED  BY <1>1, <2>1
<1>. HIDE DEF all
<1>7. PICK L \in Nat : L = Len(tokens)
  BY <1>1
<1>8. /\ InOrder(all.spans, L) /\ all.start \in 0..L
      /\ all.start # 0 => \A k \in DOMAIN all.spans : all.spans[k].last < all.start
      /\ \A j \in 1..L : IsWord(tokens[j]) =>
            \/ \E k \in DOMAIN all.spans : j \in all.spans[k].first..all.spans[k].last
            \/ all.start # 0 /\ all.start <= j
  BY <1>6, <1>7 DEF ScanInv
<1>9. CASE all.start = 0
  BY <1>3, <1>7, <1>8, <1>9
<1>10. CASE all.start # 0
  <2>1. PICK start \in 1..L : start = all.start
    BY <1>8, <1>10
  <2>. DEFINE more == Append(all.spans, Span(start, L))
  <2>2. start \in Nat /\ 1 <= start /\ start <= L /\ L <= L /\ \A k \in DOMAIN all.spans : all.spans[k].last < start
    BY <1>8, <1>10, <2>1
  <2>3. /\ InOrder(more, L) /\ Len(more) = Len(all.spans) + 1
        /\ \A k \in DOMAIN all.spans : k \in DOMAIN more /\ more[k] = all.spans[k]
        /\ more[Len(all.spans) + 1] = Span(start, L)
    <3>1. PICK found : found = all.spans
      OBVIOUS
    <3>2. InOrder(found, L) /\ \A k \in DOMAIN found : found[k].last < start
      BY <1>8, <2>2, <3>1
    <3>3. /\ InOrder(Append(found, Span(start, L)), L) /\ Len(Append(found, Span(start, L))) = Len(found) + 1
          /\ \A k \in DOMAIN found : /\ k \in DOMAIN Append(found, Span(start, L))
                                     /\ Append(found, Span(start, L))[k] = found[k]
          /\ Append(found, Span(start, L))[Len(found) + 1] = Span(start, L)
      BY <2>2, <3>2, AppendInOrder
    <3>. QED  BY <3>1, <3>3
  <2>. HIDE DEF more
  <2>4. PICK M \in Nat : M = Len(all.spans)
    <3>1. all.spans \in Seq(SpanOrPage)
      BY <1>8 DEF InOrder
    <3>. QED  BY <3>1
  <2>5. M + 1 \in DOMAIN more
    BY <2>3, <2>4 DEF InOrder
  <2>6. more[M + 1].first = start /\ more[M + 1].last = L
    BY <2>3, <2>4 DEF Span
  <2>7. ASSUME NEW j \in 1..L, IsWord(tokens[j])
        PROVE  \E k \in DOMAIN more : j \in more[k].first..more[k].last
    <3>1. CASE \E k \in DOMAIN all.spans : j \in all.spans[k].first..all.spans[k].last
      BY <2>3, <3>1
    <3>2. CASE start <= j
      <4>1. j \in more[M + 1].first..more[M + 1].last
        BY <2>1, <2>6, <3>2
      <4>. QED  BY <2>5, <4>1
    <3>. QED  BY <1>8, <2>1, <2>7, <3>1, <3>2
  <2>8. SentenceSpans(tokens) = more
    BY <1>3, <1>7, <1>10, <2>1 DEF more
  <2>. QED  BY <1>7, <2>3, <2>7, <2>8
<1>. QED  BY <1>9, <1>10

\* The least of two and of three numbers.
LEMMA LeastOfThree ==
    ASSUME NEW a \in Nat, NEW b \in Nat, NEW c \in Nat
    PROVE  /\ Min({a, b}) \in {a, b} /\ Min({a, b}) <= a /\ Min({a, b}) <= b
           /\ Min({a, b, c}) \in {a, b, c} /\ Min({a, b, c}) <= a /\ Min({a, b, c}) <= b /\ Min({a, b, c}) <= c
<1>1. {a, b} \in SUBSET Nat /\ {a, b} # {} /\ {a, b, c} \in SUBSET Nat /\ {a, b, c} # {}
  OBVIOUS
<1>2. Min({a, b}) \in {a, b} /\ \A n \in {a, b} : Min({a, b}) <= n
  BY <1>1, LeastPosition
<1>3. Min({a, b, c}) \in {a, b, c} /\ \A n \in {a, b, c} : Min({a, b, c}) <= n
  BY <1>1, LeastPosition
<1>. QED  BY <1>2, <1>3

\* Two stretches in order with a position in common are the same.
LEMMA StretchesDiffer ==
    ASSUME NEW stretches, NEW length, InOrder(stretches, length),
           NEW k \in DOMAIN stretches, NEW l \in DOMAIN stretches,
           stretches[k].first <= stretches[l].last, stretches[l].first <= stretches[k].last
    PROVE  k = l
<1>1. /\ k \in Int /\ l \in Int
      /\ stretches[k].first \in Nat /\ stretches[k].last \in Nat
      /\ stretches[l].first \in Nat /\ stretches[l].last \in Nat
  <2>1. stretches \in Seq(SpanOrPage)
    BY DEF InOrder
  <2>2. stretches[k] \in SpanOrPage /\ stretches[l] \in SpanOrPage /\ k \in Int /\ l \in Int
    BY <2>1
  <2>. QED  BY <2>2, FieldsOfStretch
<1>2. ~ (k < l) /\ ~ (l < k)
  BY <1>1 DEF InOrder
<1>. QED  BY <1>1, <1>2

\* Where a page ends: after at least one token, and inside a sentence only if it is full.
LEMMA PageEndFacts ==
    ASSUME NEW length \in Nat, NEW spans, InOrder(spans, length), NEW first \in 1..length
    PROVE  /\ PageEnd(length, spans, first) \in first..length
           /\ \A s \in ToSet(spans) :
                 s.first <= PageEnd(length, spans, first) /\ PageEnd(length, spans, first) < s.last
                 => PageEnd(length, spans, first) - first + 1 = PageMaximumTokens
<1>. DEFINE target == Min({first + PageTargetTokens - 1, length})
            broken == {s \in ToSet(spans) : s.first <= target /\ target < s.last}
            whole == (CHOOSE s \in broken : TRUE).last
            end == PageEnd(length, spans, first)
<1>1. first + PageTargetTokens - 1 \in Nat /\ first + PageMaximumTokens - 1 \in Nat
  BY PageAssumption
<1>2. target \in first..length
  <2>1. PICK far \in Nat : far = first + PageTargetTokens - 1
    BY <1>1
  <2>2. far >= first
    BY <2>1, PageAssumption
  <2>3. Min({far, length}) \in {far, length} /\ Min({far, length}) <= length
    BY LeastOfThree
  <2>. QED  BY <2>1, <2>2, <2>3
<1>3. \A s \in ToSet(spans) : \E k \in DOMAIN spans : s = spans[k]
  BY DEF ToSet
<1>4. \A k \in DOMAIN spans : /\ spans[k].first \in Nat /\ spans[k].last \in Nat
                              /\ spans[k].first <= spans[k].last /\ spans[k].last <= length
  <2>1. \A k \in DOMAIN spans : spans[k] \in SpanOrPage
    BY DEF InOrder
  <2>. QED  BY <2>1, FieldsOfStretch DEF InOrder
<1>5. end = IF broken = {} THEN target ELSE Min({whole, first + PageMaximumTokens - 1, length})
  BY DEF PageEnd
<1>6. CASE broken = {}
  <2>1. end = target
    BY <1>5, <1>6
  <2>2. \A s \in ToSet(spans) : ~ (s.first <= target /\ target < s.last)
    BY <1>6
  <2>. QED  BY <1>2, <2>1, <2>2
<1>7. CASE broken # {}
  <2>1. (CHOOSE s \in broken : TRUE) \in broken
    BY <1>7
  <2>2. PICK b \in DOMAIN spans : (CHOOSE s \in broken : TRUE) = spans[b]
    BY <1>3, <2>1
  <2>3. spans[b].first <= target /\ target < spans[b].last /\ whole = spans[b].last
    BY <2>1, <2>2
  <2>. HIDE DEF target, broken, whole, end
  <2>4. PICK full \in Nat : full = first + PageMaximumTokens - 1
    BY <1>1
  <2>5. whole \in Nat /\ full >= first
    BY <1>4, <2>3, <2>4, PageAssumption
  <2>6. end \in {whole, full, length} /\ end <= whole /\ end <= full /\ end <= length
    BY <1>5, <1>7, <2>4, <2>5, LeastOfThree
  <2>7. end \in first..length
    BY <1>2, <1>4, <2>3, <2>4, <2>5, <2>6
  <2>8. ASSUME NEW s \in ToSet(spans), s.first <= end, end < s.last
        PROVE  end - first + 1 = PageMaximumTokens
    <3>1. PICK k \in DOMAIN spans : s = spans[k]
      BY <1>3
    <3>2. end # length
      BY <1>4, <2>7, <2>8, <3>1
    <3>3. ASSUME end = whole PROVE FALSE
      <4>1. spans[k].first <= spans[b].last /\ spans[b].first <= spans[k].last
        BY <1>2, <1>4, <2>3, <2>8, <3>1, <3>3
      <4>2. k = b
        BY <4>1, StretchesDiffer
      <4>. QED  BY <1>4, <2>3, <2>8, <3>1, <3>3, <4>2
    <3>4. end = full
      BY <2>6, <3>2, <3>3
    <3>. QED  BY <2>4, <3>4, PageAssumption
  <2>. QED  BY <2>7, <2>8 DEF end
<1>. QED  BY <1>6, <1>7

\* One page more.
LEMMA CutStep ==
    ASSUME NEW length \in Nat, NEW spans, InOrder(spans, length), NEW m \in Nat, m < length,
           NEW pages, PagesInv(length, spans, pages, m)
    PROVE  PagesInv(length, spans, WithNextPage(pages, length, spans), m + 1)
<1>. DEFINE first == IF pages = <<>> THEN 1 ELSE pages[Len(pages)].last + 1
            more == WithNextPage(pages, length, spans)
<1>1. InOrder(pages, length) /\ pages \in Seq(SpanOrPage)
  BY DEF PagesInv, InOrder
<1>2. PICK L \in Nat : L = Len(pages) /\ DOMAIN pages = 1..L
  BY <1>1
<1>3. \A k \in 1..L : pages[k].first \in Nat /\ pages[k].last \in Nat /\ pages[k].last <= length /\ k <= pages[k].last
  <2>1. \A k \in 1..L : pages[k] \in SpanOrPage
    BY <1>1, <1>2
  <2>. QED  BY <1>2, <2>1, FieldsOfStretch DEF PagesInv, InOrder
<1>4. pages = <<>> <=> L = 0
  BY <1>1, <1>2
<1>5. first \in Nat /\ first >= L + 1 /\ (L # 0 => first = pages[L].last + 1) /\ (L = 0 => first = 1)
  BY <1>2, <1>3, <1>4
<1>6. more = IF first > length THEN pages ELSE Append(pages, Span(first, PageEnd(length, spans, first)))
  BY DEF WithNextPage
<1>. HIDE DEF first, more
<1>7. CASE first > length
  <2>1. more = pages
    BY <1>6, <1>7
  <2>2. Len(pages) = m + 1 \/ (pages # <<>> /\ pages[Len(pages)].last = length)
    <3>1. CASE L = 0
      <4>1. length = 0
        BY <1>5, <1>7, <3>1
      <4>. QED  BY <4>1
    <3>2. CASE L # 0
      BY <1>2, <1>3, <1>4, <1>5, <1>7, <3>2
    <3>. QED  BY <3>1, <3>2
  <2>. QED  BY <2>1, <2>2 DEF PagesInv, more
<1>8. CASE ~ (first > length)
  <2>1. first \in 1..length
    BY <1>5, <1>8
  <2>2. PICK end \in first..length : end = PageEnd(length, spans, first)
    BY <2>1, PageEndFacts
  <2>3. more = Append(pages, Span(first, end))
    BY <1>6, <1>8, <2>2
  <2>4. \A k \in DOMAIN pages : pages[k].last < first
    <3>1. ASSUME NEW k \in 1..L PROVE pages[k].last < first
      <4>1. L \in 1..L
        OBVIOUS
      <4>2. k = L \/ pages[k].last < pages[L].first
        BY <1>1, <1>2, <4>1 DEF InOrder
      <4>3. pages[L].first <= pages[L].last
        BY <1>1, <1>2, <4>1 DEF InOrder
      <4>. QED  BY <1>3, <1>5, <4>1, <4>2, <4>3
    <3>. QED  BY <1>2, <3>1
  <2>5. first \in Nat /\ end \in Nat /\ 1 <= first /\ first <= end /\ end <= length /\ length <= length
    BY <2>1, <2>2
  <2>6. /\ InOrder(more, length) /\ Len(more) = L + 1
        /\ \A k \in DOMAIN pages : k \in DOMAIN more /\ more[k] = pages[k]
        /\ more[L + 1] = Span(first, end)
    <3>1. /\ InOrder(Append(pages, Span(first, end)), length)
          /\ Len(Append(pages, Span(first, end))) = Len(pages) + 1
          /\ \A k \in DOMAIN pages : /\ k \in DOMAIN Append(pages, Span(first, end))
                                     /\ Append(pages, Span(first, end))[k] = pages[k]
          /\ Append(pages, Span(first, end))[Len(pages) + 1] = Span(first, end)
      BY <1>1, <2>4, <2>5, AppendInOrder
    <3>. QED  BY <1>2, <2>3, <3>1
  <2>7. more \in Seq(SpanOrPage) /\ DOMAIN more = 1..(L + 1)
    BY <2>6 DEF InOrder
  <2>8. more[L + 1].first = first /\ more[L + 1].last = end
    BY <2>6 DEF Span
  <2>9. ASSUME NEW k \in DOMAIN more
        PROVE  /\ k <= more[k].last
               /\ more[k].first = IF k = 1 THEN 1 ELSE more[k - 1].last + 1
               /\ more[k].last = PageEnd(length, spans, more[k].first)
    <3>1. CASE k \in 1..L
      <4>1. k = 1 \/ k - 1 \in 1..L
        BY <3>1
      <4>2. more[k] = pages[k] /\ (k # 1 => more[k - 1] = pages[k - 1])
        BY <1>2, <2>6, <3>1, <4>1
      <4>3. /\ k <= pages[k].last
            /\ pages[k].first = IF k = 1 THEN 1 ELSE pages[k - 1].last + 1
            /\ pages[k].last = PageEnd(length, spans, pages[k].first)
        BY <1>2, <3>1 DEF PagesInv
      <4>. QED  BY <4>2, <4>3
    <3>2. CASE k = L + 1
      <4>1. L # 0 => more[L] = pages[L]
        BY <1>2, <2>6
      <4>2. k - 1 = L /\ (k = 1 <=> L = 0)
        BY <3>2
      <4>3. k <= end
        BY <1>5, <2>2, <3>2
      <4>. QED  BY <1>5, <2>2, <2>8, <3>2, <4>1, <4>2, <4>3
    <3>. QED  BY <2>7, <3>1, <3>2
  <2>10. Len(more) = m + 1
    <3>1. CASE L = m
      BY <2>6, <3>1
    <3>2. CASE L # m
      <4>1. pages # <<>> /\ pages[L].last = length
        BY <1>2, <3>2 DEF PagesInv
      <4>. QED  BY <1>4, <1>5, <1>8, <4>1
    <3>. QED  BY <3>1, <3>2
  <2>11. PagesInv(length, spans, more, m + 1)
    BY <2>6, <2>9, <2>10 DEF PagesInv
  <2>. QED  BY <2>11 DEF more
<1>. QED  BY <1>7, <1>8

\* The pages of a text cut it up from the first to the last token.
LEMMA PagesCutTheText ==
    ASSUME NEW length \in Nat, length # 0, NEW spans, InOrder(spans, length)
    PROVE  /\ PagesInv(length, spans, StoryTokenPages(length, spans), length)
           /\ StoryTokenPages(length, spans) # <<>>
           /\ StoryTokenPages(length, spans)[Len(StoryTokenPages(length, spans))].last = length
<1>. DEFINE f == CHOOSE f : IsCut(length, spans, f)
            pages == f[length]
<1>1. IsCut(length, spans, f)
  BY CutExists, Zenon
<1>2. StoryTokenPages(length, spans) = pages
  BY Zenon DEF StoryTokenPages, IsCut
<1>. HIDE DEF f
<1>3. f[0] = <<>> /\ \A i \in 1..length : f[i] = WithNextPage(f[i - 1], length, spans)
  <2>1. f = [i \in 0..length |-> IF i = 0 THEN <<>> ELSE WithNextPage(f[i - 1], length, spans)]
    BY <1>1 DEF IsCut
  <2>2. \A i \in 0..length : f[i] = IF i = 0 THEN <<>> ELSE WithNextPage(f[i - 1], length, spans)
    BY <2>1, Zenon
  <2>3. 0 \in 0..length /\ \A i \in 1..length : i \in 0..length /\ i # 0
    OBVIOUS
  <2>. QED  BY <2>2, <2>3
<1>4. PagesInv(length, spans, f[0], 0)
  <2>1. InOrder(<<>>, length)
    BY DEF InOrder
  <2>2. PagesInv(length, spans, <<>>, 0)
    BY <2>1 DEF PagesInv
  <2>. QED  BY <1>3, <2>2
<1>5. PagesInv(length, spans, pages, length)
  <2>. DEFINE failing == {n \in 0..length : ~ PagesInv(length, spans, f[n], n)}
  <2>1. ASSUME failing # {} PROVE FALSE
    <3>1. PICK n \in failing : \A m \in failing : n <= m
      <4>1. failing \in SUBSET Nat
        OBVIOUS
      <4>. HIDE DEF failing
      <4>. QED  BY <2>1, <4>1, LeastPosition
    <3>2. n \in 0..length /\ ~ PagesInv(length, spans, f[n], n)
      OBVIOUS
    <3>3. PICK m \in Nat : n = m + 1
      BY <1>4, <3>2
    <3>4. m \in 0..length /\ m \notin failing /\ m < length
      <4>1. m \in 0..length /\ ~ (n <= m) /\ m < length
        BY <3>2, <3>3
      <4>. HIDE DEF failing
      <4>. QED  BY <3>1, <4>1
    <3>5. PagesInv(length, spans, f[m], m)
      BY <3>4
    <3>6. f[n] = WithNextPage(f[m], length, spans)
      <4>1. n \in 1..length /\ n - 1 = m
        BY <3>2, <3>3
      <4>. QED  BY <1>3, <4>1
    <3>7. PagesInv(length, spans, WithNextPage(f[m], length, spans), m + 1)
      BY <3>4, <3>5, CutStep
    <3>. QED  BY <3>2, <3>3, <3>6, <3>7
  <2>. QED  BY <2>1
<1>. HIDE DEF pages
<1>6. pages # <<>> /\ pages[Len(pages)].last = length
  <2>1. CASE Len(pages) = length
    <3>1. InOrder(pages, length) /\ pages \in Seq(SpanOrPage) /\ length \in DOMAIN pages
      BY <1>5, <2>1 DEF PagesInv, InOrder
    <3>2. pages[length].last \in Nat
      BY <3>1, FieldsOfStretch
    <3>3. length <= pages[length].last /\ pages[length].last <= length
      BY <1>5, <3>1 DEF PagesInv, InOrder
    <3>. QED  BY <2>1, <3>1, <3>2, <3>3
  <2>. QED  BY <1>5, <2>1 DEF PagesInv
<1>. QED  BY <1>2, <1>5, <1>6

\* What getStory makes of any text.
LEMMA ServedWell ==
    ASSUME NEW tokens \in Texts
    PROVE  WellServed(Served(tokens))
<1>1. tokens \in Seq(TokenKinds) /\ tokens # <<>>
  BY TextAssumption
<1>2. PICK L \in Nat : L = Len(tokens) /\ L # 0 /\ DOMAIN tokens = 1..L
  BY <1>1
<1>. DEFINE spans == SentenceSpans(tokens)
            pages == StoryTokenPages(L, spans)
<1>3. /\ InOrder(spans, L)
      /\ \A j \in 1..L : IsWord(tokens[j]) => \E k \in DOMAIN spans : j \in spans[k].first..spans[k].last
  BY <1>1, <1>2, SentencesInOrder
<1>4. \A j \in 1..L : IsWord(tokens[j]) => \E s \in ToSet(spans) : j \in s.first..s.last
  BY <1>3 DEF ToSet
<1>. HIDE DEF spans
<1>5. PagesInv(L, spans, pages, L) /\ pages # <<>> /\ pages[Len(pages)].last = L
  BY <1>2, <1>3, PagesCutTheText
<1>. HIDE DEF pages
<1>6. /\ Served(tokens).tokens = tokens /\ Served(tokens).spans = spans
      /\ Served(tokens).pages = pages
  BY <1>2 DEF Served, spans, pages
<1>. QED  BY <1>1, <1>2, <1>3, <1>4, <1>5, <1>6 DEF WellServed
-----------------------------------------------------------------------------
\* What WellServed says of the pages and the sentences of the text in hand.
LEMMA PagesFollow ==
    ASSUME WellServed(text)
    PROVE  \E L, P \in Nat \ {0} :
             /\ L = Len(text.tokens) /\ DOMAIN text.tokens = 1..L
             /\ P = Len(text.pages) /\ DOMAIN text.pages = 1..P
             /\ Page(1).first = 1 /\ Page(P).last = L
             /\ \A n \in 1..P : /\ Page(n).first \in Nat /\ Page(n).last \in Nat
                                /\ 1 <= Page(n).first /\ Page(n).first <= Page(n).last /\ Page(n).last <= L
                                /\ Page(n).last = PageEnd(L, text.spans, Page(n).first)
             /\ \A n \in 1..P : n # 1 => Page(n).first = Page(n - 1).last + 1
             /\ \A m, n \in 1..P : m < n => Page(m).last < Page(n).first
<1>1. PICK L \in Nat : L = Len(text.tokens) /\ DOMAIN text.tokens = 1..L /\ L # 0
  <2>1. text.tokens \in Seq(TokenKinds) /\ text.tokens # <<>>
    BY DEF WellServed
  <2>. QED  BY <2>1
<1>2. /\ PagesInv(L, text.spans, text.pages, L) /\ InOrder(text.pages, L) /\ text.pages \in Seq(SpanOrPage)
      /\ text.pages # <<>> /\ Page(Len(text.pages)).last = L
  BY <1>1 DEF WellServed, PagesInv, InOrder, Page
<1>3. PICK P \in Nat : P = Len(text.pages) /\ DOMAIN text.pages = 1..P /\ P # 0
  BY <1>2
<1>4. \A n \in 1..P : Page(n).first \in Nat /\ Page(n).last \in Nat
  <2>1. \A n \in 1..P : Page(n) \in SpanOrPage
    BY <1>2, <1>3 DEF Page
  <2>. QED  BY <2>1, FieldsOfStretch
<1>5. \A n \in 1..P : /\ 1 <= Page(n).first /\ Page(n).first <= Page(n).last /\ Page(n).last <= L
                      /\ Page(n).last = PageEnd(L, text.spans, Page(n).first)
                      /\ Page(n).first = IF n = 1 THEN 1 ELSE Page(n - 1).last + 1
  BY <1>2, <1>3 DEF PagesInv, InOrder, Page
<1>6. \A m, n \in 1..P : m < n => Page(m).last < Page(n).first
  BY <1>2, <1>3 DEF InOrder, Page
<1>7. Page(1).first = 1 /\ Page(P).last = L /\ \A n \in 1..P : n # 1 => Page(n).first = Page(n - 1).last + 1
  <2>1. 1 \in 1..P
    BY <1>3
  <2>. QED  BY <1>2, <1>3, <1>5, <2>1
<1>8. L \in Nat \ {0} /\ P \in Nat \ {0}
  BY <1>1, <1>3
<1>9. \A n \in 1..P : /\ Page(n).first \in Nat /\ Page(n).last \in Nat
                      /\ 1 <= Page(n).first /\ Page(n).first <= Page(n).last /\ Page(n).last <= L
                      /\ Page(n).last = PageEnd(L, text.spans, Page(n).first)
  BY <1>4, <1>5
<1>. QED  BY <1>1, <1>3, <1>6, <1>7, <1>8, <1>9, Zenon

\* The page that is served for a position is the one the position is on.
LEMMA PageAtPosition ==
    ASSUME WellServed(text), NEW n \in DOMAIN text.pages, NEW i \in Page(n).first..Page(n).last
    PROVE  StoryTokenPageAt(i) = n
<1>. DEFINE later == {m \in DOMAIN text.pages : i <= Page(m).last}
<1>1. PICK P \in Nat :
        /\ DOMAIN text.pages = 1..P
        /\ \A m \in 1..P : Page(m).first \in Nat /\ Page(m).last \in Nat
        /\ \A k, m \in 1..P : k < m => Page(k).last < Page(m).first
        /\ \A m \in 1..P : Page(m).first <= Page(m).last
  BY PagesFollow
<1>2. n \in later /\ later \in SUBSET Nat
  BY <1>1
<1>3. \A m \in later : n <= m
  <2>. SUFFICES ASSUME NEW m \in 1..P, m < n, i <= Page(m).last PROVE FALSE
    BY <1>1
  <2>. QED  BY <1>1
<1>4. StoryTokenPageAt(i) = Min(later)
  BY <1>2 DEF StoryTokenPageAt
<1>. HIDE DEF later
<1>5. Min(later) \in later /\ \A m \in later : Min(later) <= m
  BY <1>2, LeastPosition
<1>. QED  BY <1>1, <1>2, <1>3, <1>4, <1>5

\* For every position a page is served, and one that has it if there is one.
LEMMA SomePageServed ==
    ASSUME WellServed(text), NEW i
    PROVE  /\ StoryTokenPageAt(i) \in DOMAIN text.pages
           /\ i \in DOMAIN text.tokens => i \in Page(StoryTokenPageAt(i)).first..Page(StoryTokenPageAt(i)).last
<1>. DEFINE later == {m \in DOMAIN text.pages : i <= Page(m).last}
<1>1. PICK L \in Nat, P \in Nat :
        /\ P # 0 /\ P = Len(text.pages)
        /\ DOMAIN text.tokens = 1..L
        /\ DOMAIN text.pages = 1..P
        /\ \A m \in 1..P : Page(m).first \in Nat /\ Page(m).last \in Nat
        /\ \A m \in 1..P : Page(m).first = IF m = 1 THEN 1 ELSE Page(m - 1).last + 1
        /\ Page(P).last = L
  BY PagesFollow
<1>2. StoryTokenPageAt(i) = IF later = {} THEN P ELSE Min(later)
  BY <1>1 DEF StoryTokenPageAt
<1>3. later # {} => Min(later) \in later /\ \A m \in later : Min(later) <= m
  <2>1. later \in SUBSET Nat
    BY <1>1
  <2>. HIDE DEF later
  <2>. QED  BY <2>1, LeastPosition
<1>4. StoryTokenPageAt(i) \in DOMAIN text.pages
  BY <1>1, <1>2, <1>3
<1>5. ASSUME i \in DOMAIN text.tokens
      PROVE  i \in Page(StoryTokenPageAt(i)).first..Page(StoryTokenPageAt(i)).last
  <2>1. P \in later /\ i \in Nat
    BY <1>1, <1>5
  <2>2. PICK n \in later : n = StoryTokenPageAt(i) /\ \A m \in later : n <= m
    <3>. HIDE DEF later
    <3>. QED  BY <1>2, <1>3, <2>1
  <2>3. n \in 1..P /\ i <= Page(n).last
    BY <1>1
  <2>4. Page(n).first <= i
    <3>1. CASE n = 1
      BY <1>1, <1>5, <2>3, <3>1
    <3>2. CASE n # 1
      <4>1. n - 1 \in 1..P /\ ~ (n <= n - 1)
        BY <2>3, <3>2
      <4>2. n - 1 \notin later
        <5>. HIDE DEF later
        <5>. QED  BY <2>2, <4>1
      <4>3. ~ (i <= Page(n - 1).last)
        BY <1>1, <4>1, <4>2
      <4>. QED  BY <1>1, <2>1, <2>3, <3>2, <4>1, <4>3
    <3>. QED  BY <3>1, <3>2
  <2>. QED  BY <1>1, <2>1, <2>2, <2>3, <2>4
<1>. QED  BY <1>4, <1>5

\* The pages next to one are the ones served for the positions next to it.
LEMMA NextPageServed ==
    ASSUME WellServed(text), NEW n \in DOMAIN text.pages, NEW direction \in {1, -1}, HasPage(n + direction)
    PROVE  StoryTokenPageAt(Beyond(n, direction)) = n + direction
<1>1. PICK P \in Nat :
        /\ DOMAIN text.pages = 1..P
        /\ \A m \in 1..P : /\ Page(m).first \in Nat /\ Page(m).last \in Nat
                           /\ 1 <= Page(m).first /\ Page(m).first <= Page(m).last
        /\ \A m \in 1..P : m # 1 => Page(m).first = Page(m - 1).last + 1
  BY PagesFollow
<1>2. CASE direction = 1
  <2>1. n + 1 \in 1..P /\ n \in 1..P
    BY <1>1, <1>2 DEF HasPage
  <2>2. Page(n + 1).first = Page(n).last + 1
    <3>1. PICK m \in 1..P : m = n + 1 /\ m # 1 /\ m - 1 = n
      BY <2>1
    <3>2. Page(m).first = Page(m - 1).last + 1
      BY <1>1, <3>1
    <3>. QED  BY <3>1, <3>2
  <2>3. Beyond(n, 1) \in Page(n + 1).first..Page(n + 1).last
    BY <1>1, <2>1, <2>2 DEF Beyond
  <2>4. StoryTokenPageAt(Beyond(n, 1)) = n + 1
    BY <1>1, <2>1, <2>3, PageAtPosition
  <2>. QED  BY <1>2, <2>4
<1>3. CASE direction = -1
  <2>1. PICK m \in 1..P : m = n - 1 /\ m = n + direction
    BY <1>1, <1>3 DEF HasPage
  <2>2. n \in 1..P /\ n # 1 /\ Page(n).first = Page(m).last + 1
    <3>1. n \in 1..P /\ n # 1 /\ n - 1 = m
      BY <1>1, <2>1
    <3>2. Page(n).first = Page(n - 1).last + 1
      BY <1>1, <3>1
    <3>. QED  BY <3>1, <3>2
  <2>3. PICK q \in Nat : q = Page(m).last /\ q >= 1 /\ Page(n).first - 1 = q
    BY <1>1, <2>1, <2>2
  <2>4. Max({1, q}) = q
    <3>1. \E x \in {1, q} : \A y \in {1, q} : x >= y
      BY <2>3
    <3>2. Max({1, q}) \in {1, q} /\ \A y \in {1, q} : Max({1, q}) >= y
      BY <3>1, Zenon DEF Max
    <3>. QED  BY <2>3, <3>2
  <2>5. Beyond(n, direction) = q
    BY <1>3, <2>3, <2>4 DEF Beyond
  <2>6. q \in Page(m).first..Page(m).last
    BY <1>1, <2>3
  <2>7. StoryTokenPageAt(q) = m
    BY <1>1, <2>1, <2>6, PageAtPosition
  <2>. QED  BY <2>1, <2>5, <2>7
<1>. QED  BY <1>2, <1>3

\* What a stretch of pages shows: some tokens, and a cursor on one of them.
LEMMA CursorOnPages ==
    ASSUME WellServed(text), NEW pages \in SUBSET DOMAIN text.pages, pages # {}, NEW position
    PROVE  /\ ResolveCursor(pages, position) \in Tokens(pages)
           /\ Selectable(pages) # {} => ResolveCursor(pages, position) \in Selectable(pages)
<1>1. PICK L \in Nat, P \in Nat :
        /\ DOMAIN text.pages = 1..P
        /\ \A m \in 1..P : /\ Page(m).first \in Nat /\ Page(m).last \in Nat
                           /\ 1 <= Page(m).first /\ Page(m).first <= Page(m).last /\ Page(m).last <= L
  BY PagesFollow
<1>2. Tokens(pages) \in SUBSET (1..L) /\ Tokens(pages) # {}
  <2>1. \A n \in pages : Page(n).first..Page(n).last \subseteq 1..L /\ Page(n).first \in Page(n).first..Page(n).last
    BY <1>1
  <2>. QED  BY <2>1 DEF Tokens
<1>3. Selectable(pages) \in SUBSET Tokens(pages)
  BY DEF Selectable
<1>4. CASE Selectable(pages) = {}
  <2>1. ResolveCursor(pages, position) = Min(Tokens(pages))
    BY <1>4 DEF ResolveCursor
  <2>2. Tokens(pages) \in SUBSET Nat
    BY <1>2
  <2>. QED  BY <1>2, <1>4, <2>1, <2>2, LeastPosition
<1>5. CASE Selectable(pages) # {}
  <2>. DEFINE from == {i \in Selectable(pages) : i >= position}
  <2>1. ResolveCursor(pages, position) = IF from = {} THEN Max(Selectable(pages)) ELSE Min(from)
    BY <1>5 DEF ResolveCursor, FirstOf
  <2>2. Selectable(pages) \in SUBSET (1..L)
    BY <1>2, <1>3
  <2>3. Max(Selectable(pages)) \in Selectable(pages)
    BY <1>5, <2>2, GreatestPosition
  <2>4. from # {} => Min(from) \in from
    <3>1. from \in SUBSET Nat
      BY <2>2
    <3>. HIDE DEF from
    <3>. QED  BY <3>1, LeastPosition
  <2>. QED  BY <1>3, <2>1, <2>3, <2>4
<1>. QED  BY <1>4, <1>5

\* A position leads to its page and a word back to itself; sentences are whole on the pages.
LEMMA PagesKeepWordsAndSentences ==
    ASSUME WellServed(text)
    PROVE  ResumesAtTheWord /\ SentencesAreWhole
<1>1. PICK L \in Nat, P \in Nat :
        /\ L = Len(text.tokens) /\ DOMAIN text.tokens = 1..L
        /\ DOMAIN text.pages = 1..P
        /\ \A n \in 1..P : /\ Page(n).first \in Nat /\ Page(n).last \in Nat
                           /\ 1 <= Page(n).first /\ Page(n).first <= Page(n).last /\ Page(n).last <= L
                           /\ Page(n).last = PageEnd(L, text.spans, Page(n).first)
  BY PagesFollow
<1>2. ASSUME NEW i \in DOMAIN text.tokens
      PROVE  /\ i \in Page(StoryTokenPageAt(i)).first..Page(StoryTokenPageAt(i)).last
             /\ IsWord(text.tokens[i]) => ResolveCursor({StoryTokenPageAt(i)}, i) = i
  <2>1. PICK n \in 1..P : n = StoryTokenPageAt(i) /\ i \in Page(n).first..Page(n).last
    BY <1>1, SomePageServed
  <2>2. ASSUME IsWord(text.tokens[i])  PROVE ResolveCursor({n}, i) = i
    <3>. DEFINE words == Selectable({n})
                from == {j \in words : j >= i}
    <3>1. Tokens({n}) = Page(n).first..Page(n).last
      BY DEF Tokens
    <3>2. i \in words /\ words \in SUBSET Nat /\ i \in Nat
      <4>1. \A j \in Page(n).first..Page(n).last : j \in Nat
        BY <1>1
      <4>2. i \in words /\ words \subseteq Page(n).first..Page(n).last
        BY <2>1, <2>2, <3>1 DEF Selectable
      <4>. HIDE DEF words
      <4>. QED  BY <4>1, <4>2
    <3>3. ResolveCursor({n}, i) = IF from = {} THEN Max(words) ELSE Min(from)
      BY <3>2 DEF ResolveCursor, FirstOf
    <3>. HIDE DEF words
    <3>4. i \in from /\ from \in SUBSET Nat /\ \A j \in from : i <= j
      BY <3>2
    <3>. HIDE DEF from
    <3>5. Min(from) \in from /\ Min(from) <= i
      BY <3>4, LeastPosition
    <3>6. i <= Min(from) /\ Min(from) \in Nat
      BY <3>4, <3>5
    <3>. QED  BY <3>2, <3>3, <3>4, <3>5, <3>6
  <2>. QED  BY <2>1, <2>2
<1>3. ASSUME NEW n \in DOMAIN text.pages, NEW i \in Selectable({n})
      PROVE  Cardinality({s \in SpansOfPage(n) : i \in s.first..s.last}) = 1
  <2>. DEFINE around == {s \in SpansOfPage(n) : i \in s.first..s.last}
  <2>1. i \in Page(n).first..Page(n).last /\ i \in DOMAIN text.tokens /\ IsWord(text.tokens[i])
    <3>1. Tokens({n}) = Page(n).first..Page(n).last
      BY DEF Tokens
    <3>. QED  BY <1>1, <3>1 DEF Selectable
  <2>2. PICK s \in ToSet(text.spans) : i \in s.first..s.last
    BY <2>1 DEF WellServed
  <2>3. InOrder(text.spans, L)
    BY <1>1 DEF WellServed
  <2>4. \A k \in DOMAIN text.spans : text.spans[k].first \in Nat /\ text.spans[k].last \in Nat
    <3>1. \A k \in DOMAIN text.spans : text.spans[k] \in SpanOrPage
      BY <2>3 DEF InOrder
    <3>. QED  BY <3>1, FieldsOfStretch
  <2>5. PICK k \in DOMAIN text.spans : s = text.spans[k]
    BY DEF ToSet
  <2>6. s \in around
    <3>1. s.last >= Page(n).first /\ s.first <= Page(n).last
      BY <1>1, <2>1, <2>2, <2>4, <2>5
    <3>. QED  BY <2>2, <3>1 DEF SpansOfPage
  <2>7. ASSUME NEW r \in around PROVE r = s
    <3>1. r \in ToSet(text.spans) /\ i \in r.first..r.last
      BY DEF SpansOfPage
    <3>2. PICK l \in DOMAIN text.spans : r = text.spans[l]
      BY <3>1 DEF ToSet
    <3>3. text.spans[k].first <= text.spans[l].last /\ text.spans[l].first <= text.spans[k].last
      BY <1>1, <2>1, <2>2, <2>4, <2>5, <3>1, <3>2
    <3>4. k = l
      BY <2>3, <3>3, StretchesDiffer
    <3>. QED  BY <2>5, <3>2, <3>4
  <2>8. around = {s}
    BY <2>6, <2>7
  <2>9. Cardinality({s}) = 1
    BY FS_Singleton
  <2>. QED  BY <2>8, <2>9
<1>4. ASSUME NEW n \in DOMAIN text.pages, NEW s \in SpansOfPage(n), s.last > Page(n).last
      PROVE  Page(n).last - Page(n).first + 1 = PageMaximumTokens
  <2>1. s \in ToSet(text.spans) /\ s.first <= Page(n).last
    BY DEF SpansOfPage
  <2>2. InOrder(text.spans, L)
    BY <1>1 DEF WellServed
  <2>3. PICK first \in 1..L, end \in Nat :
          first = Page(n).first /\ end = Page(n).last /\ end = PageEnd(L, text.spans, first)
    BY <1>1
  <2>4. s.last \in Nat
    <3>1. PICK k \in DOMAIN text.spans : s = text.spans[k]
      BY <2>1 DEF ToSet
    <3>2. s \in SpanOrPage
      BY <2>2, <3>1 DEF InOrder
    <3>. QED  BY <3>2, FieldsOfStretch
  <2>5. s.first <= end /\ end < s.last
    BY <1>4, <2>1, <2>3, <2>4
  <2>6. end - first + 1 = PageMaximumTokens
    BY <2>1, <2>2, <2>3, <2>5, PageEndFacts
  <2>. QED  BY <2>3, <2>6
<1>5. ResumesAtTheWord
  BY <1>2 DEF ResumesAtTheWord
<1>6. SentencesAreWhole
  BY <1>3, <1>4 DEF SentencesAreWhole
<1>. QED  BY <1>5, <1>6
-----------------------------------------------------------------------------
\* One page is a stretch of its own.
LEMMA OnePageHeld ==
    ASSUME WellServed(text), NEW n \in DOMAIN text.pages
    PROVE  {n} = Min({n})..Max({n}) /\ Cardinality({n}) \in 1..3
<1>1. n \in Nat
  BY PagesFollow
<1>2. n..n = {n}
  BY <1>1
<1>3. Min(n..n) = n /\ Max(n..n) = n
  <2>1. n <= n
    BY <1>1
  <2>. QED  BY <1>1, <2>1, EdgesOfInterval
<1>4. Cardinality({n}) = 1
  BY FS_Singleton
<1>5. {n} = Min({n})..Max({n})
  BY <1>2, <1>3
<1>. QED  BY <1>4, <1>5

\* The first page of a session is the one of the bookmark.
LEMMA TextBegins == TextInit => TextInv
<1>. SUFFICES ASSUME TextInit PROVE TextInv
  OBVIOUS
<1>1. WellServed(text)
  BY ServedWell DEF TextInit
<1>2. PICK bookmark : loaded = {StoryTokenPageAt(bookmark)} /\ cursor = ResolveCursor(loaded, bookmark)
  BY DEF TextInit
<1>3. PICK n \in DOMAIN text.pages : loaded = {n}
  BY <1>1, <1>2, SomePageServed
<1>4. loaded = Min(loaded)..Max(loaded) /\ Cardinality(loaded) \in 1..3
  BY <1>1, <1>3, OnePageHeld
<1>5. cursor \in Tokens(loaded) /\ (Selectable(loaded) # {} => cursor \in Selectable(loaded))
  <2>1. loaded \in SUBSET DOMAIN text.pages /\ loaded # {}
    BY <1>3
  <2>. QED  BY <1>1, <1>2, <2>1, CursorOnPages
<1>6. HeldTogether
  BY <1>4, <1>5 DEF HeldTogether
<1>. QED  BY <1>1, <1>3, <1>6 DEF TextInv, TextInit

\* One page more on either side of at most three that are held, and the farthest of four gone.
LEMMA KeptTogether ==
    ASSUME WellServed(text), NEW pages \in SUBSET DOMAIN text.pages, Cardinality(pages) \in 1..3,
           NEW direction \in {1, -1}, NEW n \in DOMAIN text.pages
    PROVE  LET kept == Kept(pages \cup {n}, direction)
           IN  /\ kept \in SUBSET DOMAIN text.pages /\ kept # {}
               /\ Cardinality(kept) \in 1..3
               /\ pages = Min(pages)..Max(pages)
                  /\ n = (IF direction = 1 THEN Max(pages) ELSE Min(pages)) + direction
                  => kept = Min(kept)..Max(kept)
<1>. DEFINE more == pages \cup {n}
            gone == IF direction = 1 THEN Min(more) ELSE Max(more)
            kept == Kept(more, direction)
<1>1. PICK P \in Nat : DOMAIN text.pages = 1..P
  BY PagesFollow
<1>2. more \in SUBSET (1..P) /\ more \in SUBSET Nat /\ more # {}
  BY <1>1
<1>3. IsFiniteSet(pages) /\ IsFiniteSet(more)
  <2>1. IsFiniteSet(1..P)
    <3>1. 1 \in Int /\ P \in Int
      OBVIOUS
    <3>. QED  BY <3>1, FS_Interval
  <2>. HIDE DEF more
  <2>. QED  BY <1>1, <1>2, <2>1, FS_Subset
<1>4. Cardinality(more) \in 1..4
  <2>1. Cardinality(more) = IF n \in pages THEN Cardinality(pages) ELSE Cardinality(pages) + 1
    BY <1>3, FS_AddElement
  <2>2. PICK c \in 1..3 : c = Cardinality(pages)
    OBVIOUS
  <2>. QED  BY <2>1, <2>2
<1>5. kept = IF Cardinality(more) <= 3 THEN more ELSE more \ {gone}
  BY DEF Kept
<1>. HIDE DEF more, kept
<1>6. /\ Min(more) \in more /\ \A m \in more : Min(more) <= m
      /\ Max(more) \in more /\ \A m \in more : Max(more) >= m
  BY <1>2, LeastPosition, GreatestPosition
<1>7. Cardinality(more) = 4 => Cardinality(more \ {gone}) = 3
  <2>1. gone \in more
    BY <1>6
  <2>. HIDE DEF gone
  <2>2. Cardinality(more \ {gone}) = Cardinality(more) - 1
    BY <1>3, <2>1, FS_RemoveElement
  <2>. QED  BY <2>2
<1>8. Cardinality(kept) \in 1..3
  BY <1>4, <1>5, <1>7
<1>9. kept # {}
  BY <1>8, FS_EmptySet
<1>10. kept \in SUBSET DOMAIN text.pages
  BY <1>1, <1>2, <1>5
<1>11. ASSUME pages = Min(pages)..Max(pages),
              n = (IF direction = 1 THEN Max(pages) ELSE Min(pages)) + direction
       PROVE  kept = Min(kept)..Max(kept)
  <2>0. pages # {} /\ pages \in SUBSET Nat /\ pages \in SUBSET (1..P)
    <3>1. pages # {}
      BY FS_EmptySet
    <3>. QED  BY <1>1, <3>1
  <2>1. Min(pages) \in pages /\ Max(pages) \in pages /\ \A m \in pages : Min(pages) <= m
    BY <2>0, LeastPosition, GreatestPosition
  <2>2. PICK a \in Nat, b \in Nat : a = Min(pages) /\ b = Max(pages) /\ a <= b /\ pages = a..b
    BY <1>11, <2>0, <2>1
  <2>3. n \in Nat
    BY <1>1
  <2>4. PICK c \in Nat, d \in Nat : more = c..d /\ c <= d
    <3>1. CASE direction = 1
      <4>1. n = b + 1 /\ a <= b + 1 /\ b + 1 \in Nat
        BY <1>11, <2>2, <3>1
      <4>2. (a..b) \cup {b + 1} = a..(b + 1)
        BY <2>2
      <4>. QED  BY <2>2, <4>1, <4>2 DEF more
    <3>2. CASE direction = -1
      <4>1. n = a - 1
        BY <1>11, <2>2, <3>2
      <4>0. a <= b
        BY <2>2
      <4>2. n <= b /\ a = n + 1
        BY <2>3, <4>0, <4>1
      <4>3. ((n + 1)..b) \cup {n} = n..b
        BY <2>2, <2>3, <4>2
      <4>. QED  BY <2>2, <2>3, <4>2, <4>3 DEF more
    <3>. QED  BY <3>1, <3>2
  <2>5. Min(more) = c /\ Max(more) = d
    BY <2>4, EdgesOfInterval
  <2>6. PICK e \in Nat, f \in Nat : kept = e..f
    <3>1. CASE Cardinality(more) <= 3
      BY <1>5, <2>4, <3>1
    <3>2. CASE ~ (Cardinality(more) <= 3) /\ direction = 1
      <4>1. kept = (c + 1)..d
        BY <1>5, <2>4, <2>5, <3>2
      <4>. QED  BY <4>1
    <3>3. CASE ~ (Cardinality(more) <= 3) /\ direction = -1
      <4>1. kept = c..(d - 1)
        BY <1>5, <2>4, <2>5, <3>3
      <4>2. d - 1 \in Nat
        BY <1>2, <2>4
      <4>. QED  BY <4>1, <4>2
    <3>. QED  BY <3>1, <3>2, <3>3
  <2>7. e <= f
    BY <1>9, <2>6
  <2>. QED  BY <2>6, <2>7, EdgesOfInterval
<1>. QED  BY <1>8, <1>9, <1>10, <1>11 DEF more, kept

\* What is to be shown of a step: the text stays, and of the pages S and the cursor c after
\* it what TextInv says.
LEMMA TextInvAfter ==
    ASSUME TextInv, text' = text, replaced' \in BOOLEAN,
           NEW S \in SUBSET DOMAIN text.pages, loaded' = S,
           NEW c, cursor' = c,
           Cardinality(S) \in 1..3,
           ~ replaced' => S = Min(S)..Max(S),
           c \in Tokens(S), Selectable(S) # {} => c \in Selectable(S),
           turning' # NoLoad => turning'.to \in DOMAIN text.pages,
           extending' # NoLoad =>
              /\ extending'.to \in DOMAIN text.pages
              /\ extending'.direction \in {1, -1}
              /\ ~ replaced' => extending'.to = (IF extending'.direction = 1 THEN Max(S) ELSE Min(S)) + extending'.direction
    PROVE  TextInv'
<1>1. WellServed(text)'
  BY DEF TextInv
<1>2. Tokens(loaded)' = Tokens(S) /\ Selectable(loaded)' = Selectable(S)
  BY DEF Tokens, Selectable, Page
<1>3. HeldTogether'
  BY <1>2 DEF HeldTogether
<1>4. (extending # NoLoad =>
          /\ extending.to \in DOMAIN text.pages
          /\ extending.direction \in {1, -1}
          /\ ~replaced => extending.to = Edge(extending.direction) + extending.direction)'
  BY DEF Edge, NoLoad
<1>5. (turning # NoLoad => turning.to \in DOMAIN text.pages)'
  BY DEF NoLoad
<1>. QED  BY <1>1, <1>3, <1>4, <1>5 DEF TextInv

\* The same, of a step that leaves the pages and the cursor alone.
LEMMA TextInvUnmoved ==
    ASSUME TextInv, text' = text, loaded' = loaded, cursor' = cursor, replaced' = replaced,
           turning' # NoLoad => turning'.to \in DOMAIN text.pages,
           extending' = extending \/ extending' = NoLoad
              \/ (/\ extending'.to \in DOMAIN text.pages
                  /\ extending'.direction \in {1, -1}
                  /\ extending'.to = Edge(extending'.direction) + extending'.direction)
    PROVE  TextInv'
<1>1. /\ loaded \in SUBSET DOMAIN text.pages /\ Cardinality(loaded) \in 1..3
      /\ replaced' \in BOOLEAN /\ (~ replaced' => loaded = Min(loaded)..Max(loaded))
      /\ cursor \in Tokens(loaded) /\ (Selectable(loaded) # {} => cursor \in Selectable(loaded))
  BY DEF TextInv, HeldTogether
<1>2. extending' # NoLoad =>
        /\ extending'.to \in DOMAIN text.pages
        /\ extending'.direction \in {1, -1}
        /\ ~ replaced' =>
             extending'.to = (IF extending'.direction = 1 THEN Max(loaded) ELSE Min(loaded)) + extending'.direction
  <2>1. CASE extending' = extending
    <3>1. extending # NoLoad =>
            /\ extending.to \in DOMAIN text.pages
            /\ extending.direction \in {1, -1}
            /\ ~replaced => extending.to = Edge(extending.direction) + extending.direction
      BY DEF TextInv
    <3>. QED  BY <2>1, <3>1 DEF Edge
  <2>. QED  BY <2>1 DEF Edge
<1>. QED  BY <1>1, <1>2, TextInvAfter

\* The cursor moves on the pages that are held.
LEMMA ReadingOnKeepsTogether ==
    ASSUME TextInv, NEW i \in DOMAIN text.tokens, MoveCursor(i)
    PROVE  TextInv'
<1>1. /\ i \in Selectable(loaded) /\ cursor' = i
      /\ text' = text /\ loaded' = loaded /\ turning' = turning /\ extending' = extending /\ replaced' = replaced
  BY DEF MoveCursor
<1>2. i \in Tokens(loaded)
  BY <1>1 DEF Selectable
<1>3. /\ loaded \in SUBSET DOMAIN text.pages /\ Cardinality(loaded) \in 1..3
      /\ replaced' \in BOOLEAN /\ (~ replaced' => loaded = Min(loaded)..Max(loaded))
      /\ turning' # NoLoad => turning'.to \in DOMAIN text.pages
  BY <1>1 DEF TextInv, HeldTogether
<1>4. extending' # NoLoad =>
        /\ extending'.to \in DOMAIN text.pages
        /\ extending'.direction \in {1, -1}
        /\ ~ replaced' =>
             extending'.to = (IF extending'.direction = 1 THEN Max(loaded) ELSE Min(loaded)) + extending'.direction
  BY <1>1 DEF TextInv, Edge
<1>. QED  BY <1>1, <1>2, <1>3, <1>4, TextInvAfter

\* A page is asked for, or cannot be had; nothing that is shown changes.
LEMMA AskingKeepsTogether ==
    ASSUME TextInv, NEW direction \in {1, -1}, NEW move \in BOOLEAN,
           NavigatePage(direction) \/ LoadInfiniteStoryPage(direction, move)
           \/ ScrollText \/ TurnPages \/ TurnFails \/ ExtendFails
    PROVE  TextInv'
<1>0. WellServed(text) /\ (turning # NoLoad => turning.to \in DOMAIN text.pages)
  BY DEF TextInv
<1>1. CASE NavigatePage(direction)
  <2>1. PICK to, preferred : /\ turning' = [to |-> to, preferred |-> preferred, from |-> "pages"]
                             /\ \E n \in loaded : to = StoryTokenPageAt(Beyond(n, direction))
    BY <1>1 DEF NavigatePage
  <2>2. to \in DOMAIN text.pages /\ turning'.to = to
    BY <1>0, <2>1, SomePageServed
  <2>3. UNCHANGED <<text, loaded, cursor, extending, replaced>>
    BY <1>1 DEF NavigatePage
  <2>. QED  BY <2>2, <2>3, TextInvUnmoved
<1>2. CASE LoadInfiniteStoryPage(direction, move)
  <2>1. /\ HasPage(Edge(direction) + direction)
        /\ extending' = [to |-> StoryTokenPageAt(Beyond(Edge(direction), direction)), direction |-> direction, move |-> move]
        /\ UNCHANGED <<text, loaded, cursor, turning, replaced>>
    BY <1>2 DEF LoadInfiniteStoryPage, Edge
  <2>2. Edge(direction) \in DOMAIN text.pages
    <3>1. PICK P \in Nat : DOMAIN text.pages = 1..P
      BY <1>0, PagesFollow
    <3>2. loaded \in SUBSET (1..P) /\ loaded \in SUBSET Nat /\ loaded # {}
      <4>1. loaded # {}
        <5>1. Cardinality(loaded) \in 1..3
          BY DEF TextInv, HeldTogether
        <5>2. Cardinality({}) = 0
          BY FS_EmptySet
        <5>. QED  BY <5>1, <5>2
      <4>. QED  BY <3>1, <4>1 DEF TextInv
    <3>3. Min(loaded) \in loaded /\ Max(loaded) \in loaded
      BY <3>2, LeastPosition, GreatestPosition
    <3>. QED  BY <3>1, <3>2, <3>3 DEF Edge
  <2>3. StoryTokenPageAt(Beyond(Edge(direction), direction)) = Edge(direction) + direction
    BY <1>0, <2>1, <2>2, NextPageServed
  <2>4. extending'.to = Edge(direction) + direction /\ extending'.direction = direction
    BY <2>1, <2>3
  <2>5. extending'.to \in DOMAIN text.pages
    BY <2>1, <2>4 DEF HasPage
  <2>. QED  BY <1>0, <2>1, <2>4, <2>5, TextInvUnmoved
<1>3. CASE ScrollText
  BY <1>0, <1>3, TextInvUnmoved DEF ScrollText
<1>4. CASE TurnPages
  <2>1. turning' = [to |-> StoryTokenPageAt(cursor), preferred |-> cursor, from |-> "infinite"]
    BY <1>4 DEF TurnPages
  <2>2. turning'.to \in DOMAIN text.pages
    BY <1>0, <2>1, SomePageServed
  <2>. QED  BY <1>4, <2>2, TextInvUnmoved DEF TurnPages
<1>5. CASE TurnFails
  BY <1>0, <1>5, TextInvUnmoved DEF TurnFails
<1>6. CASE ExtendFails
  BY <1>0, <1>6, TextInvUnmoved DEF ExtendFails
<1>. QED  BY <1>1, <1>2, <1>3, <1>4, <1>5, <1>6

\* The page that was asked for takes the place of the ones held.
LEMMA TurningKeepsTogether ==
    ASSUME TextInv, ApplyStory
    PROVE  TextInv'
<1>1. PICK n \in DOMAIN text.pages : n = turning.to /\ loaded' = {n}
  BY DEF ApplyStory, TextInv
<1>2. PICK c : cursor' = c /\ c = ResolveCursor({n}, turning.preferred)
  <2>1. cursor' = ResolveCursor(loaded', turning.preferred)
    BY DEF ApplyStory
  <2>. QED  BY <1>1, <2>1
<1>3. /\ turning' = NoLoad /\ text' = text /\ extending' = extending
      /\ replaced' = (replaced \/ extending # NoLoad)
  BY DEF ApplyStory
<1>4. WellServed(text) /\ replaced \in BOOLEAN /\ replaced' \in BOOLEAN
  BY <1>3 DEF TextInv
<1>5. {n} \in SUBSET DOMAIN text.pages /\ {n} = Min({n})..Max({n}) /\ Cardinality({n}) \in 1..3
  BY <1>4, OnePageHeld
<1>6. c \in Tokens({n}) /\ (Selectable({n}) # {} => c \in Selectable({n}))
  BY <1>2, <1>4, <1>5, CursorOnPages
<1>7. extending' # NoLoad =>
        /\ extending'.to \in DOMAIN text.pages
        /\ extending'.direction \in {1, -1}
        /\ ~ replaced' =>
             extending'.to = (IF extending'.direction = 1 THEN Max({n}) ELSE Min({n})) + extending'.direction
  <2>1. extending # NoLoad => extending.to \in DOMAIN text.pages /\ extending.direction \in {1, -1}
    BY DEF TextInv
  <2>. QED  BY <1>3, <2>1
<1>. QED  BY <1>1, <1>2, <1>3, <1>4, <1>5, <1>6, <1>7, TextInvAfter

\* One page more joins the ones held, or comes too late.
LEMMA ScrollingKeepsTogether ==
    ASSUME TextInv, ExtendStory
    PROVE  TextInv'
<1>1. /\ extending # NoLoad /\ extending' = NoLoad
      /\ UNCHANGED <<text, flow, turning, replaced, pageFaults>>
      /\ WellServed(text)
      /\ turning' # NoLoad => turning'.to \in DOMAIN text.pages
  BY DEF ExtendStory, TextInv
<1>2. CASE flow = "pages"
  BY <1>1, <1>2, TextInvUnmoved DEF ExtendStory
<1>3. CASE flow # "pages"
  <2>1. PICK n \in DOMAIN text.pages, direction \in {1, -1} :
          n = extending.to /\ direction = extending.direction
    BY <1>1 DEF TextInv
  <2>2. PICK S : S = Kept(loaded \cup {n}, direction) /\ loaded' = S
    BY <1>3, <2>1 DEF ExtendStory
  <2>3. PICK position : cursor' = ResolveCursor(S, position)
    <3>1. cursor' = ResolveCursor(loaded', IF extending.move THEN Nearest(extending.to, extending.direction) ELSE cursor)
      BY <1>3 DEF ExtendStory
    <3>. QED  BY <2>2, <3>1
  <2>4. /\ loaded \in SUBSET DOMAIN text.pages /\ Cardinality(loaded) \in 1..3
        /\ replaced' \in BOOLEAN
        /\ ~ replaced' => /\ loaded = Min(loaded)..Max(loaded)
                          /\ n = (IF direction = 1 THEN Max(loaded) ELSE Min(loaded)) + direction
    BY <1>1, <2>1 DEF TextInv, HeldTogether, Edge
  <2>5. /\ S \in SUBSET DOMAIN text.pages /\ S # {} /\ Cardinality(S) \in 1..3
        /\ ~ replaced' => S = Min(S)..Max(S)
    BY <1>1, <2>2, <2>4, KeptTogether
  <2>6. PICK c : /\ cursor' = c /\ c \in Tokens(S)
                 /\ Selectable(S) # {} => c \in Selectable(S)
    BY <1>1, <2>3, <2>5, CursorOnPages
  <2>. QED  BY <1>1, <2>2, <2>4, <2>5, <2>6, TextInvAfter
<1>. QED  BY <1>2, <1>3

\* However the learner turns the pages and scrolls.
THEOREM TextInvariant == TextSpec => []TextInv
<1>1. TextInit => TextInv
  BY TextBegins
<1>2. TextInv /\ [TextNext]_textVars => TextInv'
  <2>. SUFFICES ASSUME TextInv, [TextNext]_textVars PROVE TextInv'
    OBVIOUS
  <2>0. 1 \in {1, -1} /\ TRUE \in BOOLEAN
    OBVIOUS
  <2>1. CASE UNCHANGED textVars
    <3>1. UNCHANGED <<text, loaded, cursor, replaced, turning, extending>>
      BY <2>1 DEF textVars
    <3>. QED  BY <3>1, TextInvUnmoved DEF TextInv
  <2>2. CASE TextNext
    BY <2>0, <2>2, ReadingOnKeepsTogether, AskingKeepsTogether, TurningKeepsTogether, ScrollingKeepsTogether DEF TextNext
  <2>. QED  BY <2>1, <2>2
<1>. QED  BY <1>1, <1>2, PTL DEF TextSpec

\* TextIsSeamless.
THEOREM TextStaysSeamless == TextSpec => []TextIsSeamless
<1>1. TextInv => TextIsSeamless
  BY PagesKeepWordsAndSentences DEF TextInv, TextIsSeamless
<1>. QED  BY <1>1, TextInvariant, PTL
=============================================================================
