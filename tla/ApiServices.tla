----------------------------- MODULE ApiServices ----------------------------
(***************************************************************************)
(* The services of the API process in which calls overlap: the connection  *)
(* pool, the query path, the live tail, the integrations and the scheduler *)
(* of the synthetic monitors.  None reads a variable of another, so that   *)
(* what one does is the same whatever the others do meanwhile: a behaviour *)
(* is that of one of them, chosen at the start, with the others at rest in *)
(* their initial states.  All interleavings are inside the services.       *)
(***************************************************************************)
EXTENDS ConnectionPool, QueryPath, LiveTail, Integrations, SyntheticScheduler

VARIABLE service    \* whose behaviour it is

ServiceNames ==
  {"pool", "query", "tail", "integrations", "scheduler"}

apiVars ==
  <<service, vars, queryVars, tailVars, integrationVars, schedulerVars>>

ApiInit ==
  /\ service \in ServiceNames
  /\ Init /\ QueryInit /\ TailInit
  /\ IntegrationInit /\ SchedulerInit

(* Every service but one rests.                                            *)
OthersRest(name) ==
  /\ service = name
  /\ UNCHANGED service
  /\ IF name = "pool" THEN TRUE ELSE UNCHANGED vars
  /\ IF name = "query" THEN TRUE ELSE UNCHANGED queryVars
  /\ IF name = "tail" THEN TRUE ELSE UNCHANGED tailVars
  /\ IF name = "integrations" THEN TRUE ELSE UNCHANGED integrationVars
  /\ IF name = "scheduler" THEN TRUE ELSE UNCHANGED schedulerVars

ApiNext ==
  \/ OthersRest("pool") /\ Next
  \/ OthersRest("query") /\ QueryNext
  \/ OthersRest("tail") /\ TailNext
  \/ OthersRest("integrations") /\ IntegrationNext
  \/ OthersRest("scheduler") /\ SchedulerNext

(* The fairness that each service states for itself.                       *)
ApiFairness ==
  /\ \A t \in Tasks : /\ WF_vars(service = "pool" /\ Get(t))
                      /\ WF_vars(service = "pool" /\ Release(t))
  /\ \A r \in Requests : WF_queryVars(service = "query" /\ Serve(r))
  /\ WF_tailVars(service = "tail" /\ YieldLine) /\ WF_tailVars(service = "tail" /\ Heartbeat)
  /\ WF_tailVars(service = "tail" /\ Send) /\ WF_tailVars(service = "tail" /\ LeaveTail)
  /\ WF_tailVars(service = "tail" /\ CloseGenerator)
  /\ \A l \in Loops : WF_schedulerVars(service = "scheduler" /\ LoopStep(l))
  /\ \A c \in Callers : WF_schedulerVars(service = "scheduler" /\ Resume(c))

ApiSpec == ApiInit /\ [][ApiNext]_apiVars /\ ApiFairness

(* The types of the variables of these services (SchedulerInv has those of *)
(* the scheduler), and in the pool no task holds a permit whose client is  *)
(* nowhere: permits and clients stay in step while it is open.             *)
ApiInv ==
  /\ TypeOK /\ QueryTypeOK /\ TailTypeOK /\ IntegrationTypeOK
  /\ PermitMeansClient

=============================================================================
