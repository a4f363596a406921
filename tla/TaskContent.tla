---------------------------- MODULE TaskContent ----------------------------
(***************************************************************************)
(* How a stage of a session comes to its tasks: the set of tasks composed  *)
(* for a level (tasks/compose.go), the content a model writes for one of   *)
(* its types, asked again for what does not parse, what is not valid and   *)
(* what was asked before (story/pipeline.go, llm/runner.go,                *)
(* tasks/validation.go), its rows, and their grades (the files of the      *)
(* task types).  SessionGeneration has the same stage as one of many.      *)
(*                                                                         *)
(* A form or an option is what its normalization makes of it.  The index   *)
(* of the correct option is counted in halves: an odd one is no integer.   *)
(***************************************************************************)
EXTENDS Naturals, SequencesExt

CONSTANTS
    Questions,       \* what a model asks for
    OwnItems,        \* knowledge items, of which some are the session's targets
    Placeholder,     \* an item a model makes up
    TaskLevels,      \* the levels of an instance
    SupportedTypes,  \* the types the language supports
    PriorLimit,      \* questions a stage reads of earlier runs
    MaxStageRuns,    \* bound: runs of the stage
    MaxStageFaults   \* bound: crashes and database errors

VARIABLES
    taskSet,      \* type, count and targets of the stage
    draft,        \* its run
    written,      \* the draft's rows
    stageFaults

contentVars == <<taskSet, draft, written, stageFaults>>

Nobody == "none"
TypeSpec(type, count) == [type |-> type, count |-> count]

LevelMix(level) ==
    CASE level = "intermediate" ->
            <<TypeSpec("comprehension_mc", 2), TypeSpec("fill_blank", 2), TypeSpec("production", 1)>>
      [] level \in {"upper-intermediate", "advanced"} ->
            <<TypeSpec("comprehension_mc", 1), TypeSpec("fill_blank", 2), TypeSpec("production", 2)>>
      [] OTHER -> <<TypeSpec("comprehension_mc", 3), TypeSpec("fill_blank", 1)>>

\* As a set: a stage is one of its members, whatever their order.
ComposeTaskSet(level) == {spec \in Range(LevelMix(level)) : spec.type \in SupportedTypes}

NoDraft == [pc |-> "idle", runs |-> 0, prior |-> {}, contents |-> <<>>,
         parses |-> 0, checks |-> 0, again |-> FALSE]

ContentInit ==
    /\ \E level \in TaskLevels, targets \in {<<>>} \cup {<<i>> : i \in OwnItems} :
          \E spec \in ComposeTaskSet(level) :
             taskSet = [type |-> spec.type, count |-> spec.count, targets |-> targets]
    /\ draft = NoDraft
    /\ written = <<>>
    /\ stageFaults = 0

-----------------------------------------------------------------------------
\* What a model can write: an object of the type's schema that may have any flaw.  It does
\* not know the items and may make one up.
ComprehensionContent ==
    [text : Questions \cup {""}, ids : {{Placeholder}}, index : 0..4,
     options : {<<"one">>, <<"one", "one">>, <<"one", "">>, <<"one", "two">>}]

FillBlankContent ==
    [text : Questions \cup {""}, item : {Placeholder}, blanks : 0..2,
     forms : {{}, {""}, {"one", ""}}]

ProductionContent ==
    [text : Questions \cup {""}, ids : {{}, {Placeholder}}, construction : {Nobody, Placeholder}]

ModelContent(type) ==
    CASE type = "comprehension_mc" -> ComprehensionContent
      [] type = "fill_blank" -> FillBlankContent
      [] type = "production" -> ProductionContent

InjectTargets(type, content, targets) ==
    IF type = "fill_blank"
    THEN [content EXCEPT !.item = IF targets = <<>> THEN Nobody ELSE targets[1]]
    ELSE [content EXCEPT !.ids = Range(targets)]

\* The list of items and the construction.
ProductionTargets(content) == content.ids \cup ({content.construction} \ {Nobody})

Targets(type, content) ==
    CASE type = "comprehension_mc" -> content.ids
      [] type = "fill_blank" -> {content.item} \ {Nobody}
      [] type = "production" -> ProductionTargets(content)

\* Mutant: an index one past the options passes.
X_IndexUpToLength(c) ==
    /\ c.text # "" /\ Len(c.options) >= 2
    /\ "" \notin Range(c.options) /\ IsInjective(c.options)
    /\ c.index % 2 = 0 /\ c.index \div 2 <= Len(c.options)

ValidComprehensionMC(c) ==
    /\ c.text # "" /\ Len(c.options) >= 2
    /\ "" \notin Range(c.options) /\ IsInjective(c.options)
    /\ c.index % 2 = 0 /\ c.index \div 2 < Len(c.options)

ValidFillBlank(c) ==
    c.text # "" /\ c.blanks = 1 /\ c.forms \ {""} # {} /\ c.item # Nobody

ValidProduction(c) == c.text # "" /\ ProductionTargets(c) # {}

ValidateGeneratedContent(type, c) ==
    CASE type = "comprehension_mc" -> ValidComprehensionMC(c)
      [] type = "fill_blank" -> ValidFillBlank(c)
      [] type = "production" -> ValidProduction(c)

\* The verdicts a response can get: whether it is correct, and the items that are credited.
RuleGrade(correct, targets) == {<<correct, IF correct THEN targets ELSE {}>>}

GradeComprehensionMC(c, selected) == RuleGrade(selected = c.index \div 2, c.ids)

GradeFillBlank(c, answer) ==
    RuleGrade(answer \in c.forms /\ answer # "", Targets("fill_blank", c))

Grades(type, c, response) ==
    CASE type = "comprehension_mc" -> GradeComprehensionMC(c, response)
      [] type = "fill_blank" -> GradeFillBlank(c, response)
      [] type = "production" -> BOOLEAN \X SUBSET Targets(type, c)

\* What the page of the task lets a learner send.
ResponsesTo(type, c) ==
    CASE type = "comprehension_mc" -> {i - 1 : i \in DOMAIN c.options}
      [] type = "fill_blank" -> {"", "one", "other"}
      [] type = "production" -> {"text"}

-----------------------------------------------------------------------------
Fails == draft' = [draft EXCEPT !.pc = "failed"]

\* The latest rows, in any order where one run wrote them: ListSessionTasks orders by second.
LatestRows ==
    {rows \in kSubset(Min({PriorLimit, Len(written)}), DOMAIN written) :
        \A i \in rows, j \in DOMAIN written \ rows : written[j].run <= written[i].run}

\* The stage begins, or a retry or a delivery begins it again: the questions of earlier runs.
BeginContent ==
    /\ draft.pc \in {"idle", "failed"} /\ draft.runs < MaxStageRuns
    /\ \E rows \in LatestRows :
          draft' = [NoDraft EXCEPT !.pc = "ask", !.runs = draft.runs + 1,
                                  !.prior = {written[i].content.text : i \in rows}]
    /\ UNCHANGED <<taskSet, written, stageFaults>>

CallRefused ==
    /\ draft.pc = "ask"
    /\ Fails
    /\ UNCHANGED <<taskSet, written, stageFaults>>

\* A reply that is no object, or an empty one: asked a second time, then an error.
ReplyMalformed ==
    /\ draft.pc = "ask"
    /\ IF draft.parses = 0
       THEN draft' = [draft EXCEPT !.parses = 1]
       ELSE draft' = [draft EXCEPT !.pc = "failed"]
    /\ UNCHANGED <<taskSet, written, stageFaults>>

\* Content that is not valid: generated a second time, then an error.
AskForValid ==
    IF draft.checks = 0
    THEN draft' = [draft EXCEPT !.parses = 0, !.checks = 1]
    ELSE draft' = [draft EXCEPT !.pc = "failed"]

\* A question that was asked before: generated a second time, whatever that gives.
AskForNew == draft' = [draft EXCEPT !.parses = 0, !.checks = 0, !.again = TRUE]

\* The next task, which is told of this one; the rows are written when all are there.
TakeContent(content) ==
    LET contents == Append(draft.contents, content)
    IN  draft' = [draft EXCEPT !.contents = contents, !.prior = @ \cup {content.text},
                               !.parses = 0, !.checks = 0, !.again = FALSE,
                               !.pc = IF Len(contents) = taskSet.count THEN "write" ELSE "ask"]

ReplyParsed ==
    /\ draft.pc = "ask"
    /\ \E answer \in ModelContent(taskSet.type) :
          LET content == InjectTargets(taskSet.type, answer, taskSet.targets)
              valid   == ValidateGeneratedContent(taskSet.type, content)
              asked   == content.text \in draft.prior
          IN  \/ ~valid /\ AskForValid
              \/ valid /\ asked /\ ~draft.again /\ AskForNew
              \/ valid /\ (~asked \/ draft.again) /\ TakeContent(content)
    /\ UNCHANGED <<taskSet, written, stageFaults>>

-----------------------------------------------------------------------------
NextRow == Head(draft.contents)
Row(content) == [content |-> content, run |-> draft.runs]

\* A row and its targets in one transaction.
CreateTask ==
    /\ draft.pc = "write" /\ draft.contents # <<>>
    /\ Targets(taskSet.type, NextRow) \subseteq OwnItems
    /\ written' = Append(written, Row(NextRow))
    /\ draft' = [draft EXCEPT !.contents = Tail(@)]
    /\ UNCHANGED <<taskSet, stageFaults>>

\* A target that is no knowledge item breaks the foreign key of task_targets.
TargetUnknown ==
    /\ draft.pc = "write" /\ draft.contents # <<>>
    /\ ~ Targets(taskSet.type, NextRow) \subseteq OwnItems
    /\ Fails
    /\ UNCHANGED <<taskSet, written, stageFaults>>

CreateFails ==
    /\ draft.pc = "write" /\ draft.contents # <<>>
    /\ stageFaults < MaxStageFaults
    /\ stageFaults' = stageFaults + 1
    /\ Fails
    /\ UNCHANGED <<taskSet, written>>

CompleteContent ==
    /\ draft.pc = "write" /\ draft.contents = <<>>
    /\ draft' = [draft EXCEPT !.pc = "complete"]
    /\ UNCHANGED <<taskSet, written, stageFaults>>

\* The server dies, the job runs into its deadline, or the earlier tasks cannot be listed.
StageDies ==
    /\ draft.pc \in {"ask", "write"}
    /\ stageFaults < MaxStageFaults
    /\ stageFaults' = stageFaults + 1
    /\ draft' = [draft EXCEPT !.pc = "idle"]
    /\ UNCHANGED <<taskSet, written>>

ContentNext ==
    \/ BeginContent \/ CallRefused \/ ReplyMalformed \/ ReplyParsed
    \/ CreateTask \/ TargetUnknown \/ CreateFails \/ CompleteContent \/ StageDies

ContentSpec == ContentInit /\ [][ContentNext]_contentVars

-----------------------------------------------------------------------------
\* "rows that cannot be answered or graded do not enter the normal task pool" (validation.go):
\* whatever a model writes and whatever is injected, every stored task has a response that
\* is graded correct and, where the session has targets, one that credits one of them.
EveryTaskCanBeSolved ==
    \A j \in DOMAIN written :
        LET c == written[j].content
        IN  \E response \in ResponsesTo(taskSet.type, c) : \E g \in Grades(taskSet.type, c, response) :
                g[1] /\ (taskSet.targets # <<>> => g[2] \cap Range(taskSet.targets) # {})

\* "LLM-emitted values are never valid item_ids and would fail the task_targets foreign key",
\* so that "no model-provided placeholder leaks through" (tasks/hooks.go:51).
NoPlaceholderLeaks ==
    \A k \in DOMAIN draft.contents :
        Targets(taskSet.type, draft.contents[k]) \subseteq OwnItems
=============================================================================
