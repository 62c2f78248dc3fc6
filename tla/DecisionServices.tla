--------------------------- MODULE DecisionServices --------------------------
(***************************************************************************)
(* The services that decide on what they read in several steps, while what *)
(* they read goes on changing: the limit of the ingest routes lets a       *)
(* request through, objectives are met or at risk, the service map tells   *)
(* what changed, an experiment has a winner.  None reads a variable of     *)
(* another; a behaviour is that of one of them, chosen at the start.       *)
(***************************************************************************)
EXTENDS RateLimiter, Slo, ServiceMap, AgentExperiments

VARIABLE deciding    \* the service whose behaviour it is

decisionVars == <<deciding, rateVars, sloVars, mapVars, experimentVars>>

DecisionInit ==
  /\ deciding \in {"limit", "objective", "map", "experiment"}
  /\ RateInit /\ SloInit /\ MapInit /\ ExperimentInit
  /\ deciding # "objective" => objective = CHOOSE o \in Objectives : TRUE

(* Every service but one rests.                                            *)
Decides(name) ==
  /\ deciding = name
  /\ UNCHANGED deciding
  /\ IF name = "limit" THEN TRUE ELSE UNCHANGED rateVars
  /\ IF name = "objective" THEN TRUE ELSE UNCHANGED sloVars
  /\ IF name = "map" THEN TRUE ELSE UNCHANGED mapVars
  /\ IF name = "experiment" THEN TRUE ELSE UNCHANGED experimentVars

DecisionNext ==
  \/ Decides("limit") /\ RateNext
  \/ Decides("objective") /\ SloNext
  \/ Decides("map") /\ MapNext
  \/ Decides("experiment") /\ ExperimentNext

DecisionSpec == DecisionInit /\ [][DecisionNext]_decisionVars

=============================================================================
