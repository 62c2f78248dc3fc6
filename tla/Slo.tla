----------------------------------- MODULE Slo -----------------------------------
(* Service level objectives: services/apm/slo.py over the root spans of a service *)
(* and services/agents/slos.py over the executions of an agent type.              *)
(*                                                                                *)
(* Both services keep nothing: an evaluation counts the events of four or six     *)
(* windows that end now, with one awaited query each, and traffic goes on between *)
(* them.  The state is what they count, the events by age band and by outcome,    *)
(* and the answers one evaluation has read so far.  Bands 1 and 2 are the last    *)
(* hour and the five hours before it, band 3 reaches back to a day (services) or  *)
(* to half the window (agents), band 4 to the whole window.                       *)
(*                                                                                *)
(* Ratios are kept as numerator and denominator and compared by multiplying; an   *)
(* empty window is ClickHouse's 0/0, the NaN with which every comparison fails.   *)
EXTENDS Integers, Sequences

CONSTANTS
  Targets,      \* objectives, in percent
  WindowHours,  \* the length of the objective's window
  MaxEvents,    \* bound: events inside the window
  MaxMoves      \* bound: events that come or age while an evaluation runs

ASSUME SloAssumption ==
  /\ Targets \subseteq 0..100
  /\ WindowHours \in Nat /\ WindowHours > 24
  /\ MaxEvents \in Nat /\ MaxMoves \in Nat

VARIABLES
  objective,  \* of what, and its target
  sloEvents,  \* outcome -> band -> how many events
  reads,      \* what the queries of the running evaluation have answered
  moves       \* history: events that came or aged since its first answer

sloVars == <<objective, sloEvents, reads, moves>>

Bands == 1..4
BandHours == <<1, 6, 24, WindowHours>>
Objectives == [of : {"service", "agent"}, target : Targets]

(* A root span is below status 500 or not; an execution may also be        *)
(* neither completed nor failed (running, cancelled).                      *)
OutcomesOf(kind) == IF kind = "service" THEN {"good", "bad"} ELSE {"good", "bad", "other"}
MyOutcomes == OutcomesOf(objective.of)

(* The windows of the queries in their order, as their first and last      *)
(* band: the whole window, one hour, six, and a day; for an agent the      *)
(* value and the budget over the whole window, one hour, six, and the two  *)
(* halves of _calculate_trend.                                             *)
ServiceQueries == << <<1, 4>>, <<1, 1>>, <<1, 2>>, <<1, 3>> >>
AgentQueriesOfHalf == << <<1, 4>>, <<1, 3>>, <<1, 1>>, <<1, 2>>, <<1, 3>>, <<4, 4>> >>
AgentQueries == << <<1, 4>>, <<1, 4>>, <<1, 1>>, <<1, 2>>, <<1, 3>>, <<4, 4>> >>
Queries == IF objective.of = "service" THEN ServiceQueries ELSE AgentQueries

InBand(outcome, c, w) == IF w[1] <= c /\ c <= w[2] THEN sloEvents[outcome][c] ELSE 0
Within(outcome, w) ==
  InBand(outcome, 1, w) + InBand(outcome, 2, w) + InBand(outcome, 3, w) + InBand(outcome, 4, w)
Counted(w) ==
  [good |-> Within("good", w), bad |-> Within("bad", w),
   all |-> Within("good", w) + Within("bad", w)
           + IF "other" \in MyOutcomes THEN Within("other", w) ELSE 0]
InWindow == Counted(<<1, 4>>)

SloTypeOK ==
  /\ objective \in Objectives
  /\ sloEvents \in [MyOutcomes -> [Bands -> 0..MaxEvents]]
  /\ reads \in Seq([good : 0..MaxEvents, bad : 0..MaxEvents, all : 0..MaxEvents])
  /\ Len(reads) <= Len(Queries)
  /\ moves \in 0..MaxMoves

SloInit ==
  /\ objective \in Objectives
  /\ sloEvents = [o \in MyOutcomes |-> [b \in Bands |-> 0]]
  /\ reads = <<>> /\ moves = 0

(* The traffic moves, perhaps between two queries of an evaluation.        *)
Moves ==
  /\ moves < MaxMoves
  /\ moves' = IF reads = <<>> THEN 0 ELSE moves + 1
  /\ UNCHANGED <<objective, reads>>

(* The service answers a request, or the agent ends an execution.          *)
Record(o) ==
  /\ InWindow.all < MaxEvents
  /\ sloEvents' = [sloEvents EXCEPT ![o][1] = @ + 1]
  /\ Moves

(* Time passes: an event leaves its band, from the last one out of the     *)
(* window.                                                                 *)
Ages(o, b) ==
  /\ sloEvents[o][b] > 0
  /\ sloEvents' = [sloEvents EXCEPT ![o] =
                  [c \in Bands |-> CASE c = b -> @[c] - 1
                                     [] c = b + 1 -> @[c] + 1
                                     [] OTHER -> @[c]]]
  /\ Moves

(* evaluate, evaluate_slo: the next query answers.                         *)
AnswerQuery ==
  /\ Len(reads) < Len(Queries)
  /\ reads' = Append(reads, Counted(Queries[Len(reads) + 1]))
  /\ UNCHANGED <<objective, sloEvents, moves>>

(* The status is returned.                                                 *)
Answered == Len(reads) = Len(Queries)
Conclude ==
  /\ Answered
  /\ reads' = <<>> /\ moves' = 0
  /\ UNCHANGED <<objective, sloEvents>>

SloNext ==
  \/ \E o \in MyOutcomes : Record(o) \/ \E b \in Bands : Ages(o, b)
  \/ AnswerQuery \/ Conclude
SloSpec == SloInit /\ [][SloNext]_sloVars

-----------------------------------------------------------------------------------
(* apm/slo.py, of the counts one query answered                                   *)

AllowedPercent == 100 - objective.target

(* _evaluate_sli of the whole window below the target.                     *)
IsBreaching(c) == c.all > 0 /\ 100 * c.good < objective.target * c.all

(* The budget left as a share: of nothing at all, max(0.0, nan) is 0.0.    *)
BudgetLeft(c) ==
  LET allowed == AllowedPercent * c.all
      consumed == 100 * c.bad
  IN IF AllowedPercent > 0
     THEN IF consumed < allowed THEN [num |-> allowed - consumed, den |-> allowed]
                                ELSE [num |-> 0, den |-> 1]
     ELSE [num |-> IF c.bad > 0 THEN 0 ELSE 1, den |-> 1]

(* _compute_burn_rate: the error ratio over the share of the budget that   *)
(* belongs to the sub-window.  A denominator of 0 stands for inf, both 0   *)
(* for NaN.                                                                *)
BurnRate(c, b) ==
  IF AllowedPercent > 0
  THEN [num |-> 100 * c.bad * WindowHours, den |-> c.all * AllowedPercent * BandHours[b]]
  ELSE [num |-> c.bad, den |-> IF c.bad > 0 THEN 0 ELSE 1]

(* predict_breach by the six-hour burn rate: none when no budget is left   *)
(* or it burns at a sustainable rate, else the share of the window after   *)
(* which it is gone (never more than one); timedelta(hours=nan) raises and *)
(* takes the whole evaluation with it.                                     *)
Prediction(whole, six) ==
  LET left == BudgetLeft(whole)
      burn == BurnRate(six, 2)
  IN CASE left.num = 0 -> [is |-> "none"]
       [] left.num > 0 /\ burn.num = 0 /\ burn.den = 0 -> [is |-> "raises"]
       [] left.num > 0 /\ burn.num <= burn.den /\ burn.den > 0 -> [is |-> "none"]
       [] OTHER -> [is |-> "breach", num |-> left.num * burn.den, den |-> left.den * burn.num]

-----------------------------------------------------------------------------------
(* agents/slos.py, success_rate *)

(* _measure_sli: no row, or a rate of 0, is 0.0.                           *)
IsMeeting(c) ==
  IF c.all = 0 THEN objective.target = 0 ELSE 100 * c.good >= objective.target * c.all

(* get_error_budget: only failures consume it; nothing allowed counts as   *)
(* all left.                                                               *)
AgentBudgetLeft(c) ==
  LET allowed == AllowedPercent * c.all
      consumed == 100 * c.bad
  IN CASE allowed = 0 -> [num |-> 1, den |-> 1]
       [] allowed > 0 /\ consumed < allowed -> [num |-> allowed - consumed, den |-> allowed]
       [] OTHER -> [num |-> 0, den |-> 1]

(* _calculate_burn_rate above 1, inf included.                             *)
AgentBurnsTooFast(c) == 100 * c.bad > AllowedPercent * c.all

(* _calculate_trend: the half window that ends now against the one before  *)
(* it, 5 % either way.  A half without executions rates 0.                 *)
Trend(half, before) ==
  LET now == IF half.all = 0 THEN [num |-> 0, den |-> 1] ELSE [num |-> half.good, den |-> half.all]
  IN CASE before.good = 0 -> "stable"
       [] before.good > 0 /\ 100 * now.num * before.all > 105 * before.good * now.den -> "improving"
       [] before.good > 0 /\ 100 * now.num * before.all < 95 * before.good * now.den -> "degrading"
       [] OTHER -> "stable"

-----------------------------------------------------------------------------------
MyBudgetLeft ==
  IF objective.of = "service" THEN BudgetLeft(InWindow) ELSE AgentBudgetLeft(InWindow)
AtLeast(p, q) == p.num * q.den >= q.num * p.den

(* The value and the budget of a service are of one query, and agree       *)
(* whatever happens between that query and the next: a breached objective  *)
(* has no budget left, and a breach is only predicted for one that still   *)
(* has some, inside the window.                                            *)
ServiceAnswerAgrees ==
  /\ IsBreaching(reads[1]) => BudgetLeft(reads[1]).num = 0
  /\ Prediction(reads[1], reads[3]).is = "breach" =>
       /\ ~IsBreaching(reads[1])
       /\ reads[3].bad > 0
       /\ Prediction(reads[1], reads[3]).num < Prediction(reads[1], reads[3]).den

(* An agent's are of two, its trend of two more: they agree if no event    *)
(* came or aged in between.  An objective broken by failures alone has no  *)
(* budget left, one that is met has, up to the last failure allowed; what  *)
(* burns too fast and is all there is has used it up; and the half window  *)
(* that ends now lies on the side of the value that the trend says.        *)
AgentAnswerAgrees ==
  moves = 0 =>
    /\ IsMeeting(reads[1]) /\ AgentBudgetLeft(reads[2]).num = 0 =>
         100 * reads[1].bad = AllowedPercent * reads[1].all
    /\ ~IsMeeting(reads[1]) /\ reads[1].all = reads[1].good + reads[1].bad
         /\ reads[1].all > 0 /\ AllowedPercent > 0 => AgentBudgetLeft(reads[2]).num = 0
    /\ AgentBurnsTooFast(reads[4]) /\ reads[4] = reads[1] /\ AllowedPercent > 0 =>
         AgentBudgetLeft(reads[2]).num = 0
    /\ Trend(reads[5], reads[6]) = "improving" =>
         reads[5].good * reads[1].all >= reads[1].good * reads[5].all
    /\ Trend(reads[5], reads[6]) = "degrading" =>
         reads[5].good * reads[1].all <= reads[1].good * reads[5].all

AnswersAgree ==
  Answered => IF objective.of = "service" THEN ServiceAnswerAgrees ELSE AgentAnswerAgrees

(* The budget a query finds never grows by a failure nor shrinks by a      *)
(* success, and the verdicts of one answer agree although its numbers come *)
(* from separate queries with traffic between them (apm/slo.py:86,         *)
(* agents/slos.py:148).                                                    *)
BudgetsFollowTraffic ==
  [][/\ SloTypeOK' /\ AnswersAgree'
     /\ Record("bad") => AtLeast(MyBudgetLeft, MyBudgetLeft')
     /\ Record("good") => AtLeast(MyBudgetLeft', MyBudgetLeft)]_sloVars

=============================================================================
