-------------------------- MODULE AgentExperiments --------------------------
(***************************************************************************)
(* services/agents/ab_testing.py and its routes: an experiment assigns     *)
(* executions to one of two variants by a hash, outcomes are appended as   *)
(* executions end, and the results read the experiment, the outcomes of A  *)
(* and those of B one after the other while more come in.  Concluding      *)
(* writes the winner by ALTER TABLE ... UPDATE, which ClickHouse carries   *)
(* out later and in order; nothing keeps inquiries and conclusions apart,  *)
(* and executions go on being assigned and recorded after them.            *)
(* An outcome stands for several executions that ended alike; figures are  *)
(* in the units that their averages are rounded to.                        *)
(***************************************************************************)
EXTENDS Integers, Sequences, FiniteSets

CONSTANTS
  Trials,        \* executions
  HashOf,        \* execution -> the hash of experiment and execution, in tenths
  TrafficSplits, \* traffic_split, in tenths
  RateScale,     \* the success rate is rounded to one in so many (10000)
  TrialOutcomes, \* [n, ok, figures]: executions, successes, and for each metric
                 \* the sum and the number of executions that have one
  MaxOutcomes,   \* bound: outcomes recorded
  Inquirers      \* bound: calls of get_results and conclude_experiment

Figured == {"accuracy", "speed", "cost", "satisfaction"}
LowerIsBetter == {"speed", "cost"}
SuccessMetrics == Figured \union {"other"}
Variants == {"A", "B"}

OutcomeSums == [n : Nat, ok : Nat, figures : [Figured -> [sum : Nat, over : Nat]]]

(* Every execution has a duration and a cost, not every one is scored.     *)
ASSUME ExperimentAssumption ==
  /\ HashOf \in [Trials -> 0..9] /\ MaxOutcomes \in Nat
  /\ TrafficSplits \subseteq Int
  /\ RateScale \in Nat /\ RateScale >= 1000
  /\ TrialOutcomes \subseteq OutcomeSums
  /\ \A o \in TrialOutcomes : /\ o.ok <= o.n
                              /\ \A m \in LowerIsBetter : o.figures[m].over = o.n

VARIABLES
  experiment,   \* the row of ab_experiments
  assigned,     \* execution -> the answers of get_variant since it exists
  outcomes,     \* ab_outcomes: variant -> the sums of its rows
  inserted,     \* rows of ab_outcomes so far
  inquiries,    \* inquirer -> its get_results or conclude_experiment
  mutations     \* the winners that UPDATEs are about to write

experimentVars == <<experiment, assigned, outcomes, inserted, inquiries, mutations>>

NoExperiment == [split |-> 5, metric |-> "other", status |-> "none", winner |-> ""]
NoOutcomes == [n |-> 0, ok |-> 0, figures |-> [m \in Figured |-> [sum |-> 0, over |-> 0]]]
NotAsked == [step |-> "idle", concludes |-> FALSE, metric |-> "", a |-> NoOutcomes, b |-> NoOutcomes,
             winner |-> ""]

ExperimentInit ==
  /\ experiment = NoExperiment
  /\ assigned = [t \in Trials |-> {}]
  /\ outcomes = [v \in Variants |-> NoOutcomes] /\ inserted = 0
  /\ inquiries = [i \in Inquirers |-> NotAsked] /\ mutations = <<>>

-----------------------------------------------------------------------------
(* create_experiment                                                       *)
CreateExperiment ==
  /\ experiment.status = "none"
  /\ \E split \in TrafficSplits, metric \in SuccessMetrics :
       experiment' = [split |-> split, metric |-> metric, status |-> "running", winner |-> ""]
  /\ UNCHANGED <<assigned, outcomes, inserted, inquiries, mutations>>

(* Mutant of VariantOf: the next execution goes to the smaller side.       *)
BalancedVariant(t) == IF outcomes["A"].n <= outcomes["B"].n THEN "A" ELSE "B"

(* get_variant, of a running or a concluded experiment: its id is made by  *)
(* create_experiment.                                                      *)
VariantOf(t) == IF HashOf[t] < experiment.split THEN "A" ELSE "B"
Assign(t) ==
  /\ experiment.status # "none"
  /\ assigned' = [assigned EXCEPT ![t] = @ \cup {VariantOf(t)}]
  /\ UNCHANGED <<experiment, outcomes, inserted, inquiries, mutations>>

(* record_outcome, for the variant the execution was given.                *)
Add(sums, o) ==
  [n |-> sums.n + o.n, ok |-> sums.ok + o.ok,
   figures |-> [m \in Figured |-> [sum |-> sums.figures[m].sum + o.figures[m].sum,
                                   over |-> sums.figures[m].over + o.figures[m].over]]]
RecordOutcome(t) ==
  /\ inserted < MaxOutcomes
  /\ \E v \in assigned[t], o \in TrialOutcomes : outcomes' = [outcomes EXCEPT ![v] = Add(@, o)]
  /\ inserted' = inserted + 1
  /\ UNCHANGED <<experiment, assigned, inquiries, mutations>>

-----------------------------------------------------------------------------
(* _aggregate_variant rounds its averages to a unit of each.               *)
Rounded(figure) == (2 * figure.sum + figure.over) \div (2 * figure.over)
Successes(o) == [sum |-> o.ok * RateScale, over |-> o.n]

(* _compute_significance.  The rates of success, kept away from 0 and 1,   *)
(* decide by a z-test whether there is a winner (z > 1.96, that is z * z   *)
(* > 4 - 4/25); the metric of the experiment decides who it is.            *)
Share(o) ==
  LET least == RateScale \div 1000
      share == Rounded(Successes(o))
  IN  IF share < least THEN least ELSE IF share > RateScale - least THEN RateScale - least ELSE share
IsSignificant(a, b) ==
  LET n == a.n + b.n
      sum == Share(a) * a.n + Share(b) * b.n
      variance == sum * (RateScale * n - sum)
      difference == Share(a) - Share(b)
  IN  /\ a.n >= 5 /\ b.n >= 5
      /\ difference * difference * n * a.n * b.n > 4 * variance - (variance \div 25) * 4

(* An average of nothing is not a number and greater than nothing.         *)
FigureOf(metric, o) == IF metric \in Figured THEN o.figures[metric] ELSE Successes(o)
IsBetter(metric, a, b) ==
  LET x == FigureOf(metric, a)
      y == FigureOf(metric, b)
  IN  /\ x.over > 0 /\ y.over > 0
      /\ IF metric \in LowerIsBetter THEN Rounded(x) < Rounded(y) ELSE Rounded(y) < Rounded(x)
Verdict(metric, a, b) ==
  IF ~IsSignificant(a, b) THEN "" ELSE IF IsBetter(metric, a, b) THEN "A" ELSE "B"

(* get_results answers what it judged; conclude_experiment goes on to send *)
(* it.                                                                     *)
AfterVerdict(concludes) == IF concludes THEN "send" ELSE "answered"

(* The row of the experiment is read; without one there is no winner.      *)
Inquire(i) ==
  /\ inquiries[i].step = "idle"
  /\ \E concludes \in BOOLEAN :
       inquiries' = [inquiries EXCEPT ![i] =
         IF experiment.status = "none"
         THEN [NotAsked EXCEPT !.concludes = concludes, !.step = AfterVerdict(concludes)]
         ELSE [NotAsked EXCEPT !.concludes = concludes, !.step = "readA", !.metric = experiment.metric]]
  /\ UNCHANGED <<experiment, assigned, outcomes, inserted, mutations>>

ReadA(i) ==
  /\ inquiries[i].step = "readA"
  /\ inquiries' = [inquiries EXCEPT ![i].step = "readB", ![i].a = outcomes["A"]]
  /\ UNCHANGED <<experiment, assigned, outcomes, inserted, mutations>>

ReadBAndJudge(i) ==
  /\ inquiries[i].step = "readB"
  /\ inquiries' = [inquiries EXCEPT ![i].b = outcomes["B"],
       ![i].winner = Verdict(inquiries[i].metric, inquiries[i].a, outcomes["B"]),
       ![i].step = AfterVerdict(inquiries[i].concludes)]
  /\ UNCHANGED <<experiment, assigned, outcomes, inserted, mutations>>

(* conclude_experiment                                                     *)
Answer(i) == IF inquiries[i].winner = "" THEN "inconclusive" ELSE inquiries[i].winner
Send(i) ==
  /\ inquiries[i].step = "send"
  /\ mutations' = Append(mutations, Answer(i))
  /\ inquiries' = [inquiries EXCEPT ![i].step = "answered"]
  /\ UNCHANGED <<experiment, assigned, outcomes, inserted>>

(* A read or the UPDATE raises, and with it the request.                   *)
InquiryFails(i) ==
  /\ inquiries[i].step \in {"readA", "readB", "send"}
  /\ inquiries' = [inquiries EXCEPT ![i].step = "failed"]
  /\ UNCHANGED <<experiment, assigned, outcomes, inserted, mutations>>

(* External: ClickHouse carries the next UPDATE out, on the row if it      *)
(* exists.                                                                 *)
MutationRuns ==
  /\ mutations # <<>>
  /\ experiment' = IF experiment.status = "none" THEN experiment
                   ELSE [experiment EXCEPT !.status = "concluded", !.winner = Head(mutations)]
  /\ mutations' = Tail(mutations)
  /\ UNCHANGED <<assigned, outcomes, inserted, inquiries>>

ExperimentNext ==
  \/ CreateExperiment \/ MutationRuns
  \/ \E t \in Trials : Assign(t) \/ RecordOutcome(t)
  \/ \E i \in Inquirers :
       Inquire(i) \/ ReadA(i) \/ ReadBAndJudge(i) \/ Send(i) \/ InquiryFails(i)
ExperimentSpec == ExperimentInit /\ [][ExperimentNext]_experimentVars

-----------------------------------------------------------------------------
(* By how much the one's average exceeds the other's, in units over the    *)
(* product of their numbers.                                               *)
Excess(x, y) == x.sum * y.over - y.sum * x.over

(* A won an inquiry: its exact average is the better one, though rounded   *)
(* ones were compared.  B won, of what A does not lead by more than a unit *)
(* or one side has no figure for: B gets every tie.                        *)
WinnerLeads(q) ==
  LET x == FigureOf(q.metric, q.a)
      y == FigureOf(q.metric, q.b)
      lead == IF q.metric \in LowerIsBetter THEN Excess(y, x) ELSE Excess(x, y)
  IN  /\ q.winner = "A" => lead > 0
      /\ q.winner = "B" => \/ x.over = 0 \/ y.over = 0
                           \/ lead <= x.over * y.over

(* A winner's variants had five executions each, no more than they have    *)
(* now, and different shares of successes, though A was read before B.     *)
WinnerIsFound(q) ==
  q.winner # "" => /\ q.a.n >= 5 /\ q.a.n <= outcomes["A"].n
                   /\ q.b.n >= 5 /\ q.b.n <= outcomes["B"].n
                   /\ q.a.ok * q.b.n # q.b.ok * q.a.n
                   /\ WinnerLeads(q)

Concluded(i) == inquiries[i].concludes /\ inquiries[i].step = "answered"

(* An execution is given one variant however often and late it asks; a     *)
(* winner is found in outcomes there were, by whatever inquiries overlap;  *)
(* and a concluded experiment has the answer of one of its conclusions,    *)
(* none of which is lost (ab_testing.py 161-192, 301-388, 394-416).        *)
ExperimentsAreFair ==
  /\ \A t \in Trials : Cardinality(assigned[t]) <= 1
  /\ \A i \in Inquirers : WinnerIsFound(inquiries[i])
  /\ experiment.status = "concluded" =>
       \E i \in Inquirers : Concluded(i) /\ experiment.winner = Answer(i)
  /\ \A i \in Inquirers :
       Concluded(i) /\ inquiries[i].metric # "" =>
         experiment.status = "concluded" \/ mutations # <<>>

=============================================================================
