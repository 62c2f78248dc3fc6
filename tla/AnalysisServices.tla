--------------------------- MODULE AnalysisServices -------------------------
(***************************************************************************)
(* The services that read what came in and answer with what it means: the  *)
(* conversions of the ingest routes, the PromQL translation, alert rules,  *)
(* synthetic checks, the pages of the infrastructure, data, APM and agent  *)
(* routes, and the Drain parser.  None of these reads a variable of        *)
(* another, so that a behaviour is that of one of them, chosen at the      *)
(* start, with the others at rest; where one at rest could be in several   *)
(* initial states it is in a chosen one.                                   *)
(***************************************************************************)
EXTENDS PromQL, IngestRoutes, AlertRules, DrainParser, SyntheticChecks,
        Infrastructure, DataViews, ErrorTracking, TraceAnalysis,
        AgentObservability, AgentTracing

VARIABLE analysed    \* the service whose behaviour it is

ServiceNames ==
  {"promql", "ingest", "alerts", "drain", "checks", "infra",
   "data", "errors", "traces", "agents", "tracer"}

analysisVars ==
  <<analysed, promVars, ingestVars, alertVars, drainVars, checkVars,
    infraVars, dataVars, errorVars, traceVars, observeVars, tracingVars>>

AnalysisInit ==
  /\ analysed \in ServiceNames
  /\ PromInit /\ IngestInit /\ AlertInit
  /\ DrainInit /\ CheckInit
  /\ InfraInit /\ DataInit /\ ErrorInit
  /\ TraceInit
  /\ ObserveInit /\ TracingInit
  /\ analysed # "promql" => tree = CHOOSE leaf \in Leaves : TRUE
  /\ analysed # "alerts" => databaseUp
  /\ analysed # "checks" => protocol = CHOOSE p \in Protocols : TRUE

(* Every service but one rests.                                            *)
OthersRest(name) ==
  /\ analysed = name
  /\ UNCHANGED analysed
  /\ IF name = "promql" THEN TRUE ELSE UNCHANGED promVars
  /\ IF name = "ingest" THEN TRUE ELSE UNCHANGED ingestVars
  /\ IF name = "alerts" THEN TRUE ELSE UNCHANGED alertVars
  /\ IF name = "drain" THEN TRUE ELSE UNCHANGED drainVars
  /\ IF name = "checks" THEN TRUE ELSE UNCHANGED checkVars
  /\ IF name = "infra" THEN TRUE ELSE UNCHANGED infraVars
  /\ IF name = "data" THEN TRUE ELSE UNCHANGED dataVars
  /\ IF name = "errors" THEN TRUE ELSE UNCHANGED errorVars
  /\ IF name = "traces" THEN TRUE ELSE UNCHANGED traceVars
  /\ IF name = "agents" THEN TRUE ELSE UNCHANGED observeVars
  /\ IF name = "tracer" THEN TRUE ELSE UNCHANGED tracingVars

AnalysisNext ==
  \/ OthersRest("promql") /\ PromNext
  \/ OthersRest("ingest") /\ IngestNext
  \/ OthersRest("alerts") /\ AlertNext
  \/ OthersRest("drain") /\ DrainNext
  \/ OthersRest("checks") /\ CheckNext
  \/ OthersRest("infra") /\ InfraNext
  \/ OthersRest("data") /\ DataNext
  \/ OthersRest("errors") /\ ErrorNext
  \/ OthersRest("traces") /\ TraceNext
  \/ OthersRest("agents") /\ ObserveNext
  \/ OthersRest("tracer") /\ TracingNext

AnalysisSpec == AnalysisInit /\ [][AnalysisNext]_analysisVars

=============================================================================
