---------------------------- MODULE Conversation ----------------------------
(***************************************************************************)
(* One adaptive story conversation (internal/conversation,                 *)
(* db/sql_conversations.go).  A response reads the conversation with its   *)
(* repair stack, reads the transcript, has the model assess the learner's  *)
(* answer, moves the stack and commits both turns with it, provided the    *)
(* learner answered what is still the latest turn.                         *)
(*                                                                         *)
(* A turn is known by its place in the transcript, a passage by the turn   *)
(* that first told it.                                                     *)
(***************************************************************************)
EXTENDS Naturals, Sequences, SequencesExt

CONSTANTS Responses,   \* the responses sent to the conversation, at once or in turn
          MaxTurns     \* bound: turns of the transcript

VARIABLES
    turn,      \* the transcript
    stack,     \* repair stack: turns to come back to, the top last
    summary,   \* the turn the main story's summary was written with
    response,  \* response -> its place in respond
    torn       \* some exchange was made of a conversation and a transcript of different age

conversationVars == <<turn, stack, summary, response, torn>>

Assessments == {"understood", "partial", "not_understood"}

StoryTurn(id, reply) == [role |-> "assistant", action |-> "continue", replyTo |-> reply, passage |-> id]
LearnerTurn(reply) == [role |-> "user", action |-> "none", replyTo |-> reply, passage |-> 0]

NoResponse == [pc |-> "idle", stack |-> <<>>, summary |-> 0, seen |-> 0, turns |-> <<>>, assessment |-> "none"]

ConversationInit ==
    /\ turn = <<>>
    /\ stack = <<>>
    /\ summary = 0
    /\ response = [r \in Responses |-> NoResponse]
    /\ torn = FALSE

\* The root passage, told by the model and stored with the conversation.
StartConversation ==
    /\ turn = <<>>
    /\ turn' = <<StoryTurn(1, 0)>>
    /\ summary' = 1
    /\ UNCHANGED <<stack, response, torn>>

\* A spoken answer is uploaded and transcribed before it is treated as a typed one.
Record(r) ==
    /\ turn # <<>>
    /\ response[r].pc = "idle"
    /\ response' = [response EXCEPT ![r].pc = "recorded"]
    /\ UNCHANGED <<turn, stack, summary, torn>>

Transcribe(r) ==
    /\ response[r].pc = "recorded"
    /\ \E pc \in {"transcribed", "done"} : response' = [response EXCEPT ![r].pc = pc]
    /\ UNCHANGED <<turn, stack, summary, torn>>

ReadConversation(r) ==
    /\ turn # <<>>
    /\ response[r].pc \in {"idle", "transcribed"}
    /\ response' = [response EXCEPT ![r] = [NoResponse EXCEPT
                      !.pc = "turns", !.stack = stack, !.summary = summary, !.seen = Len(turn)]]
    /\ UNCHANGED <<turn, stack, summary, torn>>

ReadTurns(r) ==
    /\ response[r].pc = "turns"
    /\ response' = [response EXCEPT ![r].pc = "model", ![r].turns = turn]
    /\ UNCHANGED <<turn, stack, summary, torn>>

\* latestAssistantTurn
LatestAssistant(turns) == CHOOSE i \in DOMAIN turns :
    /\ turns[i].role = "assistant"
    /\ \A j \in DOMAIN turns : j > i => turns[j].role # "assistant"

\* The model's answer, or an error (its call, its JSON, its content) and nothing stored.
Assess(r) ==
    /\ response[r].pc = "model"
    /\ \/ \E a \in Assessments : response' = [response EXCEPT ![r].pc = "commit", ![r].assessment = a]
       \/ response' = [response EXCEPT ![r].pc = "done"]
    /\ UNCHANGED <<turn, stack, summary, torn>>

-----------------------------------------------------------------------------
\* What an assessment does: deeper into a repair, back to the parent, on with the story.
Exchange(v, at) ==
    LET current == LatestAssistant(v.turns)
        depth   == Len(v.stack)
        answer  == StoryTurn(at + 1, at)
    IN  IF v.assessment # "understood"
        THEN [stack |-> Append(v.stack, current), summary |-> v.summary,
              answer |-> [answer EXCEPT !.action = "descend"]]
        ELSE IF depth > 0
        THEN [stack |-> SubSeq(v.stack, 1, depth - 1), summary |-> v.summary,
              answer |-> [answer EXCEPT !.action = "retry", !.passage = v.turns[v.stack[depth]].passage]]
        ELSE [stack |-> <<>>, summary |-> at + 1, answer |-> answer]

X_AppendAnyway(r) ==
    LET v == response[r]
        x == Exchange(v, Len(turn) + 1)
    IN  /\ v.pc = "commit"
        /\ Len(turn) + 2 <= MaxTurns
        /\ turn' = turn \o <<LearnerTurn(LatestAssistant(v.turns)), x.answer>>
        /\ stack' = x.stack
        /\ summary' = x.summary
        /\ torn' = (torn \/ v.seen # Len(v.turns))
        /\ response' = [response EXCEPT ![r] = [NoResponse EXCEPT !.pc = "done"]]

\* One transaction, if the learner answered the latest turn.
AppendConversationExchange(r) ==
    LET v == response[r]
        x == Exchange(v, Len(turn) + 1)
    IN  /\ v.pc = "commit"
        /\ LatestAssistant(v.turns) = Len(turn)
        /\ Len(turn) + 2 <= MaxTurns
        /\ turn' = turn \o <<LearnerTurn(LatestAssistant(v.turns)), x.answer>>
        /\ stack' = x.stack
        /\ summary' = x.summary
        /\ torn' = (torn \/ v.seen # Len(v.turns))
        /\ response' = [response EXCEPT ![r] = [NoResponse EXCEPT !.pc = "done"]]

\* ErrConversationConflict: the transcript went on, the learner reloads.
ConversationConflict(r) ==
    /\ response[r].pc = "commit"
    /\ LatestAssistant(response[r].turns) # Len(turn)
    /\ response' = [response EXCEPT ![r] = [NoResponse EXCEPT !.pc = "done"]]
    /\ UNCHANGED <<turn, stack, summary, torn>>

\* The learner answers again.
Reload(r) ==
    /\ response[r].pc = "done"
    /\ Len(turn) < MaxTurns
    /\ response' = [response EXCEPT ![r] = NoResponse]
    /\ UNCHANGED <<turn, stack, summary, torn>>

ConversationNext == StartConversation \/ \E r \in Responses :
    \/ Record(r) \/ Transcribe(r) \/ ReadConversation(r) \/ ReadTurns(r) \/ Assess(r)
    \/ AppendConversationExchange(r) \/ ConversationConflict(r) \/ Reload(r)

ConversationSpec == ConversationInit /\ [][ConversationNext]_conversationVars

-----------------------------------------------------------------------------
\* What a turn makes of the stack and the summary that the turns before it led to.
AfterTurn(turns, s, i) ==
    CASE turns[i].action = "descend"  -> [s EXCEPT !.stack = Append(@, turns[turns[i].replyTo].replyTo)]
      [] turns[i].action = "retry"    -> [s EXCEPT !.stack = SubSeq(@, 1, Len(@) - 1)]
      [] turns[i].action = "continue" -> [s EXCEPT !.summary = i]
      [] OTHER -> s

\* The stack and the summary each beginning of a transcript leads to.
Told(turns) ==
    LET told[i \in 0..Len(turns)] ==
            IF i = 0 THEN [stack |-> <<>>, summary |-> 0] ELSE AfterTurn(turns, told[i - 1], i)
    IN  told

\* A retry poses the very passage the learner descended from.
RetriesParent(turns) == \A i \in DOMAIN turns : turns[i].action = "retry" =>
    LET before == Told(turns)[i - 1].stack
    IN  before # <<>> /\ turns[i].passage = turns[Last(before)].passage

\* database-schema.md:452: a response and its answer are committed atomically with the
\* corresponding repair-stack update.  The stored stack and summary are those the
\* transcript leads to, and a retry restates its parent.
StackFollowsTranscript ==
    /\ [stack |-> stack, summary |-> summary] = Told(turn)[Len(turn)]
    /\ RetriesParent(turn)

\* Responses sent at once keep it too, as long as none read the conversation before an
\* exchange and the transcript after it (service.go:131 and :138).
UntornStackFollows == torn \/ StackFollowsTranscript
=============================================================================
