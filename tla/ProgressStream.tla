--------------------------- MODULE ProgressStream ---------------------------
(***************************************************************************)
(* The progress stream of one session (handler/sessions.go sessionEvents)  *)
(* and the broker that feeds it (story/broker.go Subscribe and publish).   *)
(*                                                                         *)
(* The rows of the stages and the session are the truth; the stream        *)
(* replays them, subscribes to the broker and then tells whatever comes    *)
(* first of a published event and the next poll.  A channel that is full   *)
(* drops what is published, and a run in another process publishes into a  *)
(* broker nobody listens to.  The database may fail: the run goes on when  *)
(* a stage's row could not be written, and the stream when it could not    *)
(* read the rows.                                                          *)
(***************************************************************************)
EXTENDS Naturals, Sequences

CONSTANTS
    StreamStages,    \* the stages a run goes through, a sequence
    ChannelSize,     \* events a subscriber's channel holds
    MaxRuns,         \* bound: runs of the session, each after one that did not make it ready
    MaxFailedReads   \* bound: reads of the session's status that fail

ASSUME StageAssumption ==
    /\ StreamStages \in Seq(STRING) /\ StreamStages # <<>>
    /\ \A i, j \in DOMAIN StreamStages : StreamStages[i] = StreamStages[j] => i = j

VARIABLES
    stageRow,    \* stage -> status in the stages table, "none" without a row
    reached,     \* stage -> status the runs have brought it to, written or not
    sessionRow,  \* the session's status
    writer,      \* the run: its place in the stages, its step, how many there were
    samePlace,   \* the run publishes to the broker this stream listens to
    channel,     \* events in the subscriber's channel
    subscribed,
    stream,      \* the handler's place
    told,        \* stage -> last status the client was told (the handler's sent map)
    failedReads,
    ending       \* what ended the stream: "none", "table", "event", "client", or "blind":
                 \* the table, when its last look could not read the stages

runVars == <<stageRow, reached, writer, samePlace>>
streamVars == <<runVars, sessionRow, channel, subscribed, stream, told, failedReads, ending>>

StageNames == {StreamStages[i] : i \in DOMAIN StreamStages}
DoneEvent == [stage |-> "done", status |-> "none"]
Terminal(status) == status \in {"ready", "failed"}

\* stageStatusRank
Rank(status) == CASE status = "in_progress" -> 1
                  [] status \in {"complete", "failed"} -> 2
                  [] OTHER -> 0

\* A status that comes no later in a stage's life than the other.
AtMost(status, other) == status = other \/ Rank(status) < Rank(other)

StreamInit ==
    /\ stageRow = [g \in StageNames |-> "none"]
    /\ reached = stageRow
    /\ sessionRow = "generating"
    /\ writer = [at |-> 1, pc |-> "begin", runs |-> 1]
    /\ samePlace \in BOOLEAN
    /\ channel = <<>>
    /\ subscribed = FALSE
    /\ stream = "replay"
    /\ told = [g \in StageNames |-> "none"]
    /\ failedReads = 0
    /\ ending = "none"

-----------------------------------------------------------------------------
\* Best effort: an event a full channel cannot take is dropped.
PublishEvent(ev) ==
    channel' = IF subscribed /\ samePlace /\ Len(channel) < ChannelSize THEN Append(channel, ev) ELSE channel

\* A run writes a stage's row and then publishes the same.  It does not look whether the row
\* was written.
WriteStageRow(status) ==
    LET g == StreamStages[writer.at]
    IN  /\ reached' = [reached EXCEPT ![g] = status]
        /\ stageRow' = [stageRow EXCEPT ![g] = status] \/ UNCHANGED stageRow
        /\ UNCHANGED <<sessionRow, samePlace, channel, subscribed, stream, told, failedReads, ending>>

PublishStage ==
    LET g == StreamStages[writer.at]
    IN  /\ PublishEvent([stage |-> g, status |-> reached[g]])
        /\ UNCHANGED <<stageRow, reached, sessionRow, samePlace, subscribed, stream, told, failedReads, ending>>

RunBeginsStage ==
    /\ writer.pc = "begin"
    /\ WriteStageRow("in_progress")
    /\ writer' = [writer EXCEPT !.pc = "begun"]

RunPublishesBegin ==
    /\ writer.pc = "begun"
    /\ PublishStage
    /\ writer' = [writer EXCEPT !.pc = "work"]

RunEndsStage(status) ==
    /\ writer.pc = "work"
    /\ WriteStageRow(status)
    /\ writer' = [writer EXCEPT !.pc = "ended"]

RunPublishesEnd ==
    LET last == writer.at = Len(StreamStages)
        bad  == reached[StreamStages[writer.at]] = "failed"
    IN  /\ writer.pc = "ended"
        /\ PublishStage
        /\ writer' = IF last \/ bad THEN [writer EXCEPT !.pc = IF bad THEN "fail" ELSE "finish"]
                                    ELSE [writer EXCEPT !.pc = "begin", !.at = @ + 1]

\* The status of the session, then, as the run returns, the done event.  When the status
\* cannot be written the run returns an error; its job is tried again.
RunMarksSession ==
    /\ writer.pc \in {"fail", "finish"}
    /\ \/ sessionRow' = IF writer.pc = "fail" THEN "failed" ELSE "ready"
       \/ writer.runs < MaxRuns /\ UNCHANGED sessionRow
    /\ writer' = [writer EXCEPT !.pc = "done"]
    /\ UNCHANGED <<stageRow, reached, samePlace, channel, subscribed, stream, told, failedReads, ending>>

RunPublishesDone ==
    /\ writer.pc = "done"
    /\ PublishEvent(DoneEvent)
    /\ writer' = [writer EXCEPT !.pc = "over"]
    /\ UNCHANGED <<stageRow, reached, sessionRow, samePlace, subscribed, stream, told, failedReads, ending>>

Remaining == {i \in DOMAIN StreamStages : stageRow[StreamStages[i]] # "complete"}

StartRun(i, pc) ==
    /\ writer.pc = "over"
    /\ writer.runs < MaxRuns
    /\ writer' = [at |-> i, pc |-> pc, runs |-> writer.runs + 1]
    /\ sessionRow' = "generating"
    /\ UNCHANGED <<stageRow, reached, samePlace, channel, subscribed, stream, told, failedReads, ending>>

\* Retry, by the job's next attempt or the learner: it goes on with the first stage that the
\* rows do not call complete.
RunAgain ==
    /\ sessionRow = "failed"
    /\ \/ \E i \in Remaining : (\A j \in Remaining : i <= j) /\ StartRun(i, "begin")
       \/ Remaining = {} /\ StartRun(writer.at, "finish")

\* The next attempt of a job whose status was not written: the session still says that it
\* is generating, so that Generate begins anew.
JobTriesAgain == sessionRow = "generating" /\ StartRun(1, "begin")

\* The learner opens the session in another tab; reading is no terminal status.
LearnerReads ==
    /\ sessionRow = "ready"
    /\ sessionRow' = "reading"
    /\ UNCHANGED <<runVars, channel, subscribed, stream, told, failedReads, ending>>

RunStep == RunBeginsStage \/ RunPublishesBegin \/ RunEndsStage("complete") \/ RunEndsStage("failed")
           \/ RunPublishesEnd \/ RunMarksSession \/ RunPublishesDone \/ JobTriesAgain

-----------------------------------------------------------------------------
\* emitStages: what the table says of a stage is told when it is further than before, and
\* nothing when the table cannot be read.
Emitted == [g \in StageNames |-> IF Rank(stageRow[g]) > Rank(told[g]) THEN stageRow[g] ELSE told[g]]

EmitStages(next) ==
    /\ told' = Emitted \/ UNCHANGED told
    /\ stream' = next
    /\ UNCHANGED <<runVars, sessionRow, channel, subscribed, failedReads, ending>>

Replay == stream = "replay" /\ EmitStages("check")

X_NoLastLook(next) ==
    /\ stream' = IF Terminal(sessionRow) THEN "over" ELSE next
    /\ ending' = IF Terminal(sessionRow) THEN "table" ELSE ending
    /\ UNCHANGED <<runVars, sessionRow, channel, subscribed, told, failedReads>>

\* terminalIfDone: isTerminal of the session's status comes first, and if it is over the
\* stages are looked at once more.  A session that cannot be read is not over.
TerminalIfDone(next) ==
    /\ \/ stream' = (IF Terminal(sessionRow) THEN "last" ELSE next) /\ UNCHANGED failedReads
       \/ failedReads < MaxFailedReads /\ failedReads' = failedReads + 1 /\ stream' = next
    /\ UNCHANGED <<runVars, sessionRow, channel, subscribed, told, ending>>

CheckAtConnect == stream = "check" /\ TerminalIfDone("subscribe")

Subscribe ==
    /\ stream = "subscribe"
    /\ subscribed' = TRUE
    /\ stream' = "recheck"
    /\ UNCHANGED <<runVars, sessionRow, channel, told, failedReads, ending>>

CheckAfterSubscribe == stream = "recheck" /\ TerminalIfDone("tail")

Poll == stream = "tail" /\ EmitStages("polled")

X_PollOnly == stream = "polled" /\ stream' = "tail"
              /\ UNCHANGED <<runVars, sessionRow, channel, subscribed, told, failedReads, ending>>

CheckAfterPoll == stream = "polled" /\ TerminalIfDone("tail")

\* The rest of terminalIfDone.  The final event is written whether the stages were read or not.
LastLook ==
    /\ stream = "last"
    /\ \/ told' = Emitted /\ ending' = "table"
       \/ UNCHANGED told /\ ending' = "blind"
    /\ stream' = "over"
    /\ subscribed' = FALSE
    /\ channel' = <<>>
    /\ UNCHANGED <<runVars, sessionRow, failedReads>>

\* The next event of the channel: done ends the stream, a stage that is no further than
\* what the client knows is skipped.
TellEvent ==
    /\ stream = "tail"
    /\ channel # <<>>
    /\ LET ev == Head(channel) IN
       IF ev = DoneEvent
       THEN /\ stream' = "over" /\ ending' = "event" /\ subscribed' = FALSE /\ channel' = <<>>
            /\ UNCHANGED told
       ELSE /\ channel' = Tail(channel)
            /\ told' = IF Rank(ev.status) > Rank(told[ev.stage]) THEN [told EXCEPT ![ev.stage] = ev.status] ELSE told
            /\ UNCHANGED <<stream, ending, subscribed>>
    /\ UNCHANGED <<runVars, sessionRow, failedReads>>

ClientLeaves ==
    /\ stream # "over"
    /\ stream' = "over" /\ ending' = "client" /\ subscribed' = FALSE /\ channel' = <<>>
    /\ UNCHANGED <<runVars, sessionRow, told, failedReads>>

StreamStep == Replay \/ CheckAtConnect \/ Subscribe \/ CheckAfterSubscribe \/ Poll \/ CheckAfterPoll
              \/ LastLook \/ TellEvent

StreamNext == RunStep \/ RunAgain \/ LearnerReads \/ StreamStep \/ ClientLeaves

StreamSpec == StreamInit /\ [][StreamNext]_streamVars

-----------------------------------------------------------------------------
\* sessions.go:811: the table is the source of truth.  A stream never tells of a stage what the
\* run did not bring it to, and one that the table ends has told at least what every row says,
\* whatever the broker dropped or another process published elsewhere: exactly how the stage
\* ended, then, where the run could write the row.  (A stream whose last look could not read
\* the stages may end before it told them.  After a retry a stage that failed first stays told
\* as failed: the rank of its statuses does not grow.)
TableEndIsExact == writer.runs = 1 => \A g \in StageNames :
    /\ AtMost(told[g], reached[g])
    /\ ending = "table" => AtMost(stageRow[g], told[g])

\* "Progress must arrive even when generation runs in a different process": a stream does
\* not outlive the session's last run, though it may never receive an event and though reads
\* of the status fail.  (It may if the learner starts to read between two polls: no status it
\* looks for comes back.)
StreamEnds == (stream # "over") ~> (stream = "over" \/ sessionRow = "reading")
=============================================================================
