------------------------------ MODULE ServiceMap -----------------------------
(***************************************************************************)
(* services/apm/service_map.py: the service map, the detail of one         *)
(* service, and the changes between two maps.  The nodes are read from the *)
(* entry spans of traces.spans and the edges from traces.service_edges,    *)
(* which others write, in queries of their own: rows come into the range   *)
(* and, as it moves, leave it between any two of them.  The builder keeps *)
(* nothing, so that one caller who builds map after map, and opens the     *)
(* detail of a service at any time, stands for each of them.               *)
(***************************************************************************)
EXTENDS Integers, Sequences, FiniteSetsExt

CONSTANTS
  MapServices,   \* services
  EdgeProtocols,
  EntryBatches,  \* [spans, failing, latency] of entry spans that come together
  MaxRowChanges  \* bound: rows that come or go

(* Below 1000 ms, below 5000 ms, longer.                                   *)
EntryLatencies == {"fine", "slow", "verySlow"}

ASSUME MapAssumption ==
  /\ MaxRowChanges \in Nat
  /\ EntryBatches \subseteq [spans : Nat \ {0}, failing : Nat, latency : EntryLatencies]

VARIABLES
  entryRows,  \* entry spans in the range: set of [service, batch]
  edgeRows,   \* rows of service_edges in it: set of [source, target, protocol]
  rowMoves,   \* rows that came or went so far: sequence of [table, row]
  nodesRead,  \* build_from_traces between its reads
  maps,       \* [last, before]: the two maps built last
  detail      \* get_service_detail

mapVars == <<entryRows, edgeRows, rowMoves, nodesRead, maps, detail>>
mapTables == <<entryRows, edgeRows, rowMoves>>

-----------------------------------------------------------------------------
EntriesOf(s) == {r \in entryRows : r.service = s}
EntryServices == {r.service : r \in entryRows}

(* _classify_health.  Of no spans the share of errors is not a number,     *)
(* which is below every threshold.  Each batch is more than one in a       *)
(* hundred of the spans here, so that the slowest decides the p99.         *)
HealthOfRows(rows) ==
  LET spans == MapThenSumSet(LAMBDA r : r.batch.spans, rows)
      failing == MapThenSumSet(LAMBDA r : r.batch.failing, rows)
      AtLeast(percent, level) == \/ rows # {} /\ 100 * failing >= percent * spans
                                 \/ \E r \in rows : r.batch.latency = level
  IN  IF AtLeast(5, "verySlow") THEN "critical"
      ELSE IF AtLeast(1, "slow") THEN "degraded" ELSE "healthy"
HealthOf(s) == HealthOfRows(EntriesOf(s))

(* _infer_service_type, for names that give nothing away.                  *)
TypeOfService(protocols) ==
  IF "sql" \in protocols THEN "database"
  ELSE IF "redis" \in protocols THEN "cache"
  ELSE IF "kafka" \in protocols THEN "queue" ELSE "web"
EdgesTo(s) == {e \in edgeRows : e.target = s}
EdgesFrom(s) == {e \in edgeRows : e.source = s}
ServiceTypeOf(s) == TypeOfService({e.protocol : e \in EdgesTo(s)})
TargetsOf(s) == {e.target : e \in EdgesFrom(s)}
SourcesOf(s) == {e.source : e \in EdgesTo(s)}

(* A map: what its nodes show, its edges, and when the two were read.      *)
EmptyMap == [nodes |-> [s \in {} |-> "healthy"], types |-> [s \in {} |-> "web"],
             dependencies |-> [s \in {} |-> {}], edges |-> {}, nodesAt |-> 0, edgesAt |-> 0]
NodeNames(map) == DOMAIN map.nodes
Pairs(map) == {<<e.source, e.target>> : e \in map.edges}

(* detect_topology_changes compares names, pairs whatever their protocols, *)
(* and the health of the services in both.                                 *)
TopologyChanges(now, before) ==
  [newServices |-> NodeNames(now) \ NodeNames(before),
   goneServices |-> NodeNames(before) \ NodeNames(now),
   newPairs |-> Pairs(now) \ Pairs(before),
   gonePairs |-> Pairs(before) \ Pairs(now),
   health |-> {s \in NodeNames(now) \cap NodeNames(before) : now.nodes[s] # before.nodes[s]}]

-----------------------------------------------------------------------------
NoNodes == [reading |-> FALSE, nodes |-> [s \in {} |-> "healthy"], at |-> 0]
NoDetail == [step |-> 0, service |-> "", of |-> EmptyMap, health |-> "healthy",
             targets |-> {}, sources |-> {}, type |-> "web", at |-> 0]

MapInit ==
  /\ entryRows = {} /\ edgeRows = {} /\ rowMoves = <<>>
  /\ nodesRead = NoNodes
  /\ maps = [last |-> EmptyMap, before |-> EmptyMap]
  /\ detail = NoDetail

(* build_from_traces: a node for each service with entry spans.            *)
ReadNodes ==
  /\ ~nodesRead.reading
  /\ nodesRead' = [reading |-> TRUE, nodes |-> [s \in EntryServices |-> HealthOf(s)], at |-> Len(rowMoves)]
  /\ UNCHANGED <<mapTables, maps, detail>>

(* Mutant of MapOf: an edge that lost one of its ends is left out.         *)
MapOfJoined(nodes, at) ==
  [nodes |-> nodes,
   types |-> [s \in DOMAIN nodes |-> ServiceTypeOf(s)],
   dependencies |-> [s \in DOMAIN nodes |-> TargetsOf(s)],
   edges |-> {e \in edgeRows : {e.source, e.target} \subseteq DOMAIN nodes},
   nodesAt |-> at, edgesAt |-> Len(rowMoves)]

(* The edges give the nodes their type and dependencies; all are kept,     *)
(* whether or not their ends are nodes.                                    *)
MapOf(nodes, at) ==
  [nodes |-> nodes,
   types |-> [s \in DOMAIN nodes |-> ServiceTypeOf(s)],
   dependencies |-> [s \in DOMAIN nodes |-> TargetsOf(s)],
   edges |-> edgeRows,
   nodesAt |-> at, edgesAt |-> Len(rowMoves)]

(* Then the edges.  The caller compares the map with the one before it.    *)
ReadEdges ==
  /\ nodesRead.reading
  /\ maps' = [last |-> MapOf(nodesRead.nodes, nodesRead.at), before |-> maps.last]
  /\ nodesRead' = NoNodes
  /\ UNCHANGED <<mapTables, detail>>

(* get_service_detail, opened from the map that is shown.                  *)
ReadOverview(s) ==
  /\ detail.step \in {0, 4}
  /\ detail' = [NoDetail EXCEPT !.step = 1, !.service = s, !.of = maps.last, !.health = HealthOf(s),
                                !.at = Len(rowMoves)]
  /\ UNCHANGED <<mapTables, nodesRead, maps>>

ReadDependencies ==
  /\ detail.step = 1
  /\ detail' = [detail EXCEPT !.step = 2, !.targets = TargetsOf(detail.service), !.at = Len(rowMoves)]
  /\ UNCHANGED <<mapTables, nodesRead, maps>>

ReadDependents ==
  /\ detail.step = 2
  /\ detail' = [detail EXCEPT !.step = 3, !.sources = SourcesOf(detail.service), !.at = Len(rowMoves)]
  /\ UNCHANGED <<mapTables, nodesRead, maps>>

ReadProtocols ==
  /\ detail.step = 3
  /\ detail' = [detail EXCEPT !.step = 4, !.type = ServiceTypeOf(detail.service), !.at = Len(rowMoves)]
  /\ UNCHANGED <<mapTables, nodesRead, maps>>

(* External: a row comes into the range or is no longer in it.             *)
Toggled(rows, row) == IF row \in rows THEN rows \ {row} ELSE rows \cup {row}
RowsChange ==
  /\ Len(rowMoves) < MaxRowChanges
  /\ \/ \E s \in MapServices : \E b \in EntryBatches :
          LET row == [service |-> s, batch |-> b]
          IN  /\ entryRows' = Toggled(entryRows, row)
              /\ rowMoves' = Append(rowMoves, [table |-> "spans", row |-> row])
              /\ UNCHANGED edgeRows
     \/ \E s, t \in MapServices : \E p \in EdgeProtocols :
          LET row == [source |-> s, target |-> t, protocol |-> p]
          IN  /\ edgeRows' = Toggled(edgeRows, row)
              /\ rowMoves' = Append(rowMoves, [table |-> "edges", row |-> row])
              /\ UNCHANGED entryRows
  /\ UNCHANGED <<nodesRead, maps, detail>>

MapNext ==
  \/ ReadNodes \/ ReadEdges
  \/ \E s \in MapServices : ReadOverview(s)
  \/ ReadDependencies \/ ReadDependents \/ ReadProtocols
  \/ RowsChange

MapSpec == MapInit /\ [][MapNext]_mapVars

-----------------------------------------------------------------------------
(* What came or went after one moment and not after another.               *)
Moved(table, a, b) == {rowMoves[i].row : i \in {j \in DOMAIN rowMoves : /\ j > a /\ j <= b
                                                                       /\ rowMoves[j].table = table}}
SpansMoved(s, a, b) == \E r \in Moved("spans", a, b) : r.service = s
PairMoved(p, a, b) == \E r \in Moved("edges", a, b) : <<r.source, r.target>> = p

(* Although a map is read in two parts, every change told between two maps *)
(* has a cause of its own: an entry span of that service came or went      *)
(* between the reads of the nodes, an edge between that pair between the   *)
(* reads of the edges.                                                     *)
ChangesHaveCauses ==
  LET told == TopologyChanges(maps.last, maps.before)
  IN  /\ \A s \in told.newServices \cup told.goneServices \cup told.health :
           SpansMoved(s, maps.before.nodesAt, maps.last.nodesAt)
      /\ \A p \in told.newPairs \cup told.gonePairs :
           PairMoved(p, maps.before.edgesAt, maps.last.edgesAt)

(* An edge of the map lacks the node at one of its ends only where that    *)
(* service has no entry spans, or they came after the nodes were read; and *)
(* a node whose entry spans are gone lost them since.                      *)
LostEndsCameLater ==
  /\ \A p \in Pairs(maps.last) : \A s \in {p[1], p[2]} :
       s \notin NodeNames(maps.last) /\ s \in EntryServices => SpansMoved(s, maps.last.nodesAt, Len(rowMoves))
  /\ \A s \in NodeNames(maps.last) \ EntryServices : SpansMoved(s, maps.last.nodesAt, Len(rowMoves))

(* The detail of a service differs from the node it was opened from only   *)
(* where a row of that service came or went between the reads of the two,  *)
(* even when a later map was built meanwhile.                              *)
DetailDiffersForACause ==
  (detail.step = 4 /\ detail.service \in NodeNames(detail.of)) =>
    LET s == detail.service
        map == detail.of
    IN  /\ detail.health # map.nodes[s] => SpansMoved(s, map.nodesAt, detail.at)
        /\ detail.targets # map.dependencies[s] =>
             \E r \in Moved("edges", map.edgesAt, detail.at) : r.source = s
        /\ detail.type # map.types[s] \/ detail.sources # {p[1] : p \in {q \in Pairs(map) : q[2] = s}} =>
             \E r \in Moved("edges", map.edgesAt, detail.at) : r.target = s

(* The maps, and the detail opened from one of them (service_map.py).      *)
MapsAreCoherent == ChangesHaveCauses /\ LostEndsCameLater /\ DetailDiffersForACause

=============================================================================
