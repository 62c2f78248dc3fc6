------------------------- MODULE AgentObservability -------------------------
(***************************************************************************)
(* services/agents/observability.py and api/routes/agent_observability.py: *)
(* an execution of an agent is recorded with two inserts, its row and its  *)
(* steps, and every screen is put together from several reads, each an     *)
(* await, with windows that end at the moment of the read.  Executions are *)
(* recorded, feedback comes in and hours pass between two reads.  A run    *)
(* stands for several executions that went alike, took no hour and are     *)
(* recorded together.                                                      *)
(***************************************************************************)
EXTENDS Integers, Sequences, SequencesExt, FiniteSetsExt, TLC

CONSTANTS
  AgentTypes,
  AgentRuns,     \* run -> [type, model, status, message, cost, tokens, slow, many, steps]:
                 \* many executions, each of that cost and with those steps
  Window,        \* the range asked for, in hours
  ListLimit,     \* the executions on a page (50 unless asked otherwise)
  LastAgentHour, \* bound: the clock
  MaxWrites      \* bound: recordings and feedback

ASSUME ObservabilityAssumption ==
  /\ {Window, ListLimit, LastAgentHour, MaxWrites} \subseteq Nat /\ Window >= 1
  /\ \A r \in DOMAIN AgentRuns : AgentRuns[r].type \in AgentTypes

VARIABLES
  agentHour,   \* now()
  started,     \* run -> started_at, or -1
  copies,      \* run -> rows of it in agents.agent_executions
  stepCopies,  \* run -> times its steps are in agents.agent_steps
  recording,   \* runs whose row is in and whose steps are not
  recordings,  \* calls of record_execution so far
  feedback,    \* agents.agent_feedback: sequence of [run, up, at]
  board        \* the screen being put together

agentTables == <<started, copies, stepCopies, recording, recordings, feedback>>
observeVars == <<agentHour, agentTables, board>>

RunIds == DOMAIN AgentRuns
Nothing == [read \in {} |-> 0]
NoBoard ==
  [kind |-> "none",
   todo |-> <<>>,       \* the reads still to do, each <<what, of which>>
   got |-> Nothing,     \* read -> what it returned
   moved |-> FALSE,     \* the hour passed between two reads
   disturbed |-> FALSE] \* something was written between two reads
ObserveInit ==
  /\ agentHour = 0
  /\ started = [r \in RunIds |-> -1]
  /\ copies = [r \in RunIds |-> 0] /\ stepCopies = copies
  /\ recording = {} /\ recordings = 0 /\ feedback = <<>>
  /\ board = NoBoard

-----------------------------------------------------------------------------
(* A complete screen is sent, and gone.                                    *)
Disturbed == board' = IF board.todo = <<>> THEN NoBoard ELSE [board EXCEPT !.disturbed = TRUE]

(* record_execution.  A recording that failed may be tried again, and is   *)
(* then stored a second time.                                              *)
InsertExecution(r) ==
  /\ recordings + Len(feedback) < MaxWrites /\ r \notin recording
  /\ started' = [started EXCEPT ![r] = IF @ < 0 THEN agentHour ELSE @]
  /\ copies' = [copies EXCEPT ![r] = @ + 1]
  /\ recording' = IF AgentRuns[r].steps = <<>> THEN recording ELSE recording \cup {r}
  /\ recordings' = recordings + 1
  /\ Disturbed
  /\ UNCHANGED <<agentHour, stepCopies, feedback>>

InsertSteps(r) ==
  /\ r \in recording
  /\ stepCopies' = [stepCopies EXCEPT ![r] = @ + 1]
  /\ recording' = recording \ {r}
  /\ Disturbed
  /\ UNCHANGED <<agentHour, started, copies, recordings, feedback>>

StepsFail(r) ==
  /\ r \in recording
  /\ recording' = recording \ {r}
  /\ UNCHANGED <<agentHour, started, copies, stepCopies, recordings, feedback, board>>

(* record_feedback, of the route submit_feedback, for any execution id.    *)
GiveFeedback ==
  /\ recordings + Len(feedback) < MaxWrites
  /\ \E r \in RunIds, up \in BOOLEAN :
       feedback' = Append(feedback, [run |-> r, up |-> up, at |-> agentHour])
  /\ Disturbed
  /\ UNCHANGED <<agentHour, started, copies, stepCopies, recording, recordings>>

AgentHourPasses ==
  /\ agentHour < LastAgentHour
  /\ agentHour' = agentHour + 1
  /\ board' = IF board.todo = <<>> THEN NoBoard ELSE [board EXCEPT !.moved = TRUE]
  /\ UNCHANGED agentTables

-----------------------------------------------------------------------------
(* started_at >= now() - INTERVAL                                          *)
RunsWithin(hours) == {r \in RunIds : copies[r] > 0 /\ started[r] >= agentHour - hours}
OfType(runs, t) == {r \in runs : AgentRuns[r].type = t}
InState(runs, s) == {r \in runs : AgentRuns[r].status = s}
CountOf(runs) == MapThenSumSet(LAMBDA r : copies[r] * AgentRuns[r].many, runs)
CostIn(runs) == MapThenSumSet(LAMBDA r : copies[r] * AgentRuns[r].many * AgentRuns[r].cost, runs)
TokensIn(runs) == MapThenSumSet(LAMBDA r : copies[r] * AgentRuns[r].many * AgentRuns[r].tokens, runs)

TypesSeen == {AgentRuns[r].type : r \in RunsWithin(Window)}
TypeMetrics(t) ==
  LET runs == OfType(RunsWithin(Window), t)
  IN  [total |-> CountOf(runs), successful |-> CountOf(InState(runs, "completed")),
       failed |-> CountOf(InState(runs, "failed")), cancelled |-> CountOf(InState(runs, "cancelled")),
       cost |-> CostIn(runs)]

(* Feedback counts by when the execution started, in the trend by when it  *)
(* was given.                                                              *)
Liked(entries) ==
  [up |-> Cardinality({i \in entries : feedback[i].up}), total |-> Cardinality(entries)]
Satisfaction(t) ==
  Liked({i \in DOMAIN feedback : feedback[i].run \in OfType(RunsWithin(Window), t)})
SatisfactionTrend ==
  LET recent == {i \in DOMAIN feedback : feedback[i].at >= agentHour - Window}
  IN  [h \in {feedback[i].at : i \in recent} |-> Liked({i \in recent : feedback[i].at = h})]

ErrorsByType ==
  LET runs == {r \in InState(RunsWithin(Window), "failed") : AgentRuns[r].message # ""}
  IN  [t \in {AgentRuns[r].type : r \in runs} |-> CountOf(OfType(runs, t))]

(* Mutant of CostByModel: the range is left out.                           *)
CostByModelEver ==
  [m \in {AgentRuns[r].model : r \in {q \in RunIds : copies[q] > 0}} |->
     CostIn({r \in RunIds : AgentRuns[r].model = m})]

(* get_cost_breakdown: two reads.                                          *)
CostByType == [t \in TypesSeen |-> CostIn(OfType(RunsWithin(Window), t))]
CostByModel ==
  [m \in {AgentRuns[r].model : r \in RunsWithin(Window)} |->
     CostIn({r \in RunsWithin(Window) : AgentRuns[r].model = m})]

(* get_tool_usage joins the steps with the rows of their executions, so    *)
(* that every copy of the one counts with every copy of the other; its     *)
(* count of errors among them asks for tool results and is always zero.    *)
CallsOf(r) == Cardinality({i \in DOMAIN AgentRuns[r].steps : AgentRuns[r].steps[i] = "tool_call"})
ToolCalls ==
  MapThenSumSet(LAMBDA r : copies[r] * stepCopies[r] * AgentRuns[r].many * CallsOf(r),
                RunsWithin(Window))
(* list_executions: the tool_calls_count of the newest rows, as many as    *)
(* fit on the page; rows of one time come in any order.                    *)
NewestFirst(order) ==
  \A i, j \in DOMAIN order : i < j => started[order[i]] >= started[order[j]]
ListedCalls(order) ==
  LET rows(r) == copies[r] * AgentRuns[r].many
      before(i) == MapThenSumSet(LAMBDA j : rows(order[j]), 1..(i - 1))
      listed(i) == Min({rows(order[i]), Max({0, ListLimit - before(i)})})
  IN  [rows |-> MapThenSumSet(listed, DOMAIN order),
       calls |-> MapThenSumSet(LAMBDA i : listed(i) * CallsOf(order[i]), DOMAIN order)]

(* detect_agent_issues: the four reads, of the last hour.  The tokens are  *)
(* compared with the average of all types before it, in the last week; a   *)
(* type is slow if more than one in twenty executions is.                  *)
RecentOf(t) == OfType(RunsWithin(1), t)
Earlier == {r \in RunIds : copies[r] > 0 /\ started[r] < agentHour - 1}
TimedOut(runs) == {r \in runs : AgentRuns[r].message = "timed out"}
IssueTypes(k) ==
  {t \in AgentTypes :
     LET recent == RecentOf(t)
         total == CountOf(recent)
     IN  /\ recent # {}
         /\ CASE k = "failing" -> total >= 5 /\ CountOf(InState(recent, "failed")) * 5 > total
              [] k = "tokens" -> /\ TokensIn(Earlier) > 0
                                 /\ TokensIn(recent) * CountOf(Earlier) > 2 * TokensIn(Earlier) * total
              [] k = "slow" -> CountOf({r \in recent : AgentRuns[r].slow}) * 20 > total
              [] k = "timeouts" -> CountOf(TimedOut(recent)) >= 3}

-----------------------------------------------------------------------------
(* The screens and what each reads, one after the other.                   *)
Screens == {"dashboard", "issues", "trace", "tools"}
ReadsOf(kind, r) ==
  CASE kind = "dashboard" -> <<<<"types", "">>>>
    [] kind = "type" -> <<<<"metrics", r>>, <<"liked", r>>>>
    [] kind = "rest" -> <<<<"errors", "">>, <<"byType", "">>, <<"byModel", "">>, <<"trend", "">>>>
    [] kind = "issues" -> <<<<"issues", "failing">>, <<"issues", "tokens">>, <<"issues", "slow">>,
                            <<"issues", "timeouts">>>>
    [] kind = "trace" -> <<<<"row", r>>, <<"steps", r>>>>
    [] kind = "tools" -> <<<<"calls", "">>, <<"listed", "">>>>
OpenBoard ==
  /\ board.kind = "none"
  /\ \E kind \in Screens : \E r \in IF kind = "trace" THEN RunIds ELSE {""} :
       board' = [NoBoard EXCEPT !.kind = kind, !.todo = ReadsOf(kind, r)]
  /\ UNCHANGED <<agentHour, agentTables>>

AnswerTo(read) ==
  CASE read[1] = "metrics" -> TypeMetrics(read[2])
    [] read[1] = "liked" -> Satisfaction(read[2])
    [] read[1] = "errors" -> ErrorsByType
    [] read[1] = "byType" -> CostByType
    [] read[1] = "byModel" -> CostByModel
    [] read[1] = "trend" -> SatisfactionTrend
    [] read[1] = "issues" -> IssueTypes(read[2])
    [] read[1] = "row" -> copies[read[2]]
    [] read[1] = "steps" -> stepCopies[read[2]]
    [] read[1] = "calls" -> ToolCalls

(* get_agent_dashboard asks for the types, in no particular order, for the *)
(* two answers about each, for the errors, the costs and the trend; a      *)
(* trace without a row is 404 and reads no steps.                          *)
ReadBoard ==
  /\ board.todo # <<>>
  /\ LET read == Head(board.todo)
         With(answer) == (read :> answer) @@ board.got
     IN  CASE read[1] = "types" ->
                \E order \in SetToSeqs(TypesSeen) :
                  board' = [board EXCEPT
                    !.got = With(TypesSeen),
                    !.todo = FlattenSeq([i \in DOMAIN order |-> ReadsOf("type", order[i])])
                             \o ReadsOf("rest", "")]
           [] read[1] = "row" /\ copies[read[2]] = 0 ->
                board' = [board EXCEPT !.got = With(0), !.todo = <<>>]
           [] read[1] = "listed" ->
                \E order \in SetToSeqs(RunsWithin(Window)) :
                  /\ NewestFirst(order)
                  /\ board' = [board EXCEPT !.got = With(ListedCalls(order)), !.todo = Tail(@)]
           [] OTHER -> board' = [board EXCEPT !.got = With(AnswerTo(read)), !.todo = Tail(@)]
  /\ UNCHANGED <<agentHour, agentTables>>

(* The answer went out, or a read raised.                                  *)
CloseBoard ==
  /\ board.kind # "none"
  /\ board' = NoBoard
  /\ UNCHANGED <<agentHour, agentTables>>

ObserveNext ==
  \/ \E r \in RunIds : InsertExecution(r) \/ InsertSteps(r) \/ StepsFail(r)
  \/ GiveFeedback \/ AgentHourPasses \/ OpenBoard \/ ReadBoard \/ CloseBoard
ObserveSpec == ObserveInit /\ [][ObserveNext]_observeVars

-----------------------------------------------------------------------------
(* What the reads of a complete screen say of each other.  If nothing came *)
(* between them the costs of the dashboard agree three ways and its errors *)
(* are failures it counts, and an issue is of a type on the dashboard that *)
(* failed if it is failing; if only time passed a later read has no more   *)
(* of what an earlier one had, and if only executions came in no less.     *)
(* Executions recorded once are listed, on a page that is not full, with   *)
(* as many tool calls as the usage page counts, or more where steps are    *)
(* missing; and the steps of an execution are never stored more often than *)
(* it is (observability.py 192-258, 368-540, 590-776, 826-888).            *)
SumOver(f) == MapThenSumSet(LAMBDA x : f[x], DOMAIN f)
DashboardAddsUp(got) ==
  LET types == got[<<"types", "">>]
      metrics == [t \in types |-> got[<<"metrics", t>>]]
      total == SumOver([t \in types |-> metrics[t].cost])
      byType == SumOver(got[<<"byType", "">>])
      byModel == SumOver(got[<<"byModel", "">>])
      errors == got[<<"errors", "">>]
      same == ~board.moved /\ ~board.disturbed
  IN  /\ ~board.disturbed => total >= byType /\ byType >= byModel
      /\ ~board.moved => total <= byType /\ byType <= byModel
      /\ same => /\ types = DOMAIN got[<<"byType", "">>]
                 /\ \A t \in DOMAIN errors : t \in types /\ errors[t] <= metrics[t].failed
      /\ \A t \in types :
           metrics[t].successful + metrics[t].failed + metrics[t].cancelled <= metrics[t].total
ObservationsAddUp ==
  /\ \A r \in RunIds : stepCopies[r] <= copies[r]
  /\ board.kind # "none" /\ board.todo = <<>> =>
       CASE board.kind = "dashboard" -> DashboardAddsUp(board.got)
         [] board.kind = "issues" ->
              ~board.moved /\ ~board.disturbed =>
                /\ \A read \in DOMAIN board.got : board.got[read] \subseteq TypesSeen
                /\ \A t \in board.got[<<"issues", "failing">>] : TypeMetrics(t).failed > 0
         [] board.kind = "trace" ->
              \A r \in RunIds : <<"steps", r>> \in DOMAIN board.got =>
                board.got[<<"steps", r>>] <= copies[r]
         [] board.kind = "tools" ->
              ~board.disturbed /\ ~board.moved /\ (\A r \in RunIds : copies[r] <= 1) =>
                LET listed == board.got[<<"listed", "">>]
                IN  listed.rows < ListLimit => board.got[<<"calls", "">>] <= listed.calls

=============================================================================
