--------------------------- MODULE Infrastructure ---------------------------
(***************************************************************************)
(* services/infrastructure: hosts.py, containers.py, kubernetes.py and     *)
(* cloud.py, called from api/routes/infrastructure.py.  The agents of a    *)
(* tenant append reports to tables of ClickHouse; a screen reads several   *)
(* tables one after the other, and every read is an await during which     *)
(* reports arrive and time passes.  The tables and the agents that fill    *)
(* them are not in the repository: a report is a set of rows of one part   *)
(* (a host's containers, a namespace's pods, a region's resources).        *)
(* Screens share nothing, so one is open at a time.                        *)
(***************************************************************************)
EXTENDS Integers, Sequences, FiniteSets, FiniteSetsExt

CONSTANTS
  Machines,          \* hosts; the containers of a host are its part of the table
  Namespaces,        \* parts of the pod tables
  Regions,           \* [provider, region]: parts of the cloud tables
  HostLoads,         \* [cpu, used] a host reports
  MemorySizes,       \* memory_total_bytes, 0 when the agent does not say
  Contents,          \* table -> the sets of [id, state] one report may hold
  Costs,             \* rows of cloud_costs: [day, service, id, cost]
  UnreachableAfter,  \* unreachable_seconds, in moments
  PendingAfter,      \* five minutes, in moments
  EventsWithin,      \* one hour, in moments
  CostLimit,         \* the resources a cost summary lists (the dearest 20 of the 50 it reads)
  Midnight,          \* the moment the day changes
  LastMoment,        \* bound: the clock
  MaxReports         \* bound: reports

(* Sizes are counted in bytes, a report names a thing once, and the table  *)
(* of costs has a number of rows, each of a whole number of cents.         *)
ASSUME InfraAssumption ==
  /\ {UnreachableAfter, PendingAfter, EventsWithin, Midnight, CostLimit, LastMoment, MaxReports}
       \subseteq Nat
  /\ MemorySizes \union {load.used : load \in HostLoads} \subseteq Nat
  /\ \A table \in DOMAIN Contents : \A content \in Contents[table] :
       \A c, d \in content : c.id = d.id => c = d
  /\ IsFiniteSet(Costs) /\ {c.cost : c \in Costs} \subseteq Int

VARIABLES
  moment,
  hostRows,     \* infra.hosts: host -> [memory, seen], or NoHost
  hostMetrics,  \* infra.host_metrics: set of [host, cpu, used, at]
  reports,      \* the snapshot tables: set of [table, part, id, state, at]
  reported,     \* number of reports so far
  screen        \* the request being served

infraVars == <<moment, hostRows, hostMetrics, reports, reported, screen>>

NoHost == [memory |-> 0, seen |-> -1]
NoScreen == [kind |-> "none", of |-> "", since |-> 0, got |-> <<>>, disturbed |-> FALSE, answer |-> 0]

InfraInit ==
  /\ moment = 0 /\ reported = 0
  /\ hostRows = [h \in Machines |-> NoHost]
  /\ hostMetrics = {} /\ reports = {}
  /\ screen = NoScreen

-----------------------------------------------------------------------------
(* _classify_host_status                                                   *)
Classify(cpu, memory, seen) ==
  IF seen >= 0 /\ moment - seen > UnreachableAfter THEN "unreachable"
  ELSE IF cpu >= 90 \/ memory >= 90 THEN "critical"
  ELSE IF cpu >= 75 \/ memory >= 80 THEN "warning" ELSE "healthy"

(* used / (total or 1) * 100, as the list and the detail compute it.       *)
ShareOf(used, total) == (used * 100) \div (IF total = 0 THEN 1 ELSE total)

(* The same in SQL for the host map: dividing by zero gives infinity, or   *)
(* NaN (here -1), which no comparison is true of.                          *)
SqlShareOf(used, total) ==
  IF total = 0 THEN IF used = 0 THEN -1 ELSE 1000000 ELSE (used * 100) \div total

(* argMax(..., timestamp) of the join, and ORDER BY timestamp DESC LIMIT 1 *)
(* of the detail; a host without metrics joins with zeros.                 *)
LastMetrics(h) ==
  LET mine == {m \in hostMetrics : m.host = h}
  IN  IF mine = {} THEN [host |-> h, cpu |-> 0, used |-> 0, at |-> -1]
      ELSE CHOOSE m \in mine : \A n \in mine : n.at <= m.at

KnownHosts == {h \in Machines : hostRows[h] # NoHost}
ListStatus(h) ==
  Classify(LastMetrics(h).cpu, ShareOf(LastMetrics(h).used, hostRows[h].memory), hostRows[h].seen)
MapStatus(h) ==
  Classify(LastMetrics(h).cpu, SqlShareOf(LastMetrics(h).used, hostRows[h].memory), hostRows[h].seen)
DetailStatus(row, last) == Classify(last.cpu, ShareOf(last.used, row.memory), row.seen)

-----------------------------------------------------------------------------
PartsOf(table) ==
  CASE table = "containers" -> Machines
    [] table \in {"pods", "deployments", "events"} -> Namespaces
    [] table \in {"nodes", "clusters"} -> {"cluster"}
    [] table = "resources" -> Regions

(* Mutant of Latest: the subquery of max(timestamp) lacks the filter.      *)
LatestOfAll(table, parts) ==
  {r \in reports : /\ r.table = table /\ r.part \in parts
                   /\ \A q \in reports : q.table = table => q.at <= r.at}

(* WHERE filter AND timestamp = (SELECT max(timestamp) WHERE filter)       *)
Latest(table, parts) ==
  LET scope == {r \in reports : r.table = table /\ r.part \in parts}
  IN  {r \in scope : \A q \in scope : q.at <= r.at}

ListContainers(hosts) == Latest("containers", hosts)
ListPods(namespaces) == Latest("pods", namespaces)
ListNodes == Latest("nodes", {"cluster"})
ListResources(regions) == Latest("resources", regions)

Raised(rows, type, Severity(_)) ==
  {[type |-> type, severity |-> Severity(r), id |-> r.id, part |-> r.part] : r \in rows}

(* detect_container_issues: three queries of the tenant's last report.     *)
ContainerIssues(k) ==
  LET rows == ListContainers(Machines)
      Above(x, limit) == IF x >= limit THEN "critical" ELSE "warning"
  IN  CASE k = 1 -> Raised({r \in rows : r.state.running /\ r.state.cpu >= 75}, "cpu",
                           LAMBDA r : Above(r.state.cpu, 90))
        [] k = 2 -> Raised({r \in rows : r.state.running /\ r.state.memory >= 80}, "memory",
                           LAMBDA r : Above(r.state.memory, 90))
        [] k = 3 -> Raised({r \in rows : r.state.restarts >= 3}, "restarts",
                           LAMBDA r : Above(r.state.restarts, 10))

(* detect_issues: a node that is not ready is selected but raises nothing  *)
(* unless it is also under pressure.                                       *)
PodIssues(k) ==
  LET pods == ListPods(Namespaces)
  IN  CASE k = 1 -> Raised({r \in pods : r.state.status = "CrashLoopBackOff"}, "crash",
                           LAMBDA r : "critical")
        [] k = 2 -> Raised({r \in pods : /\ r.state.status = "Pending"
                                         /\ moment - r.state.since > PendingAfter}, "pending",
                           LAMBDA r : "warning")
        [] k = 3 -> Raised({r \in reports : /\ r.table = "events" /\ r.state.oom
                                            /\ r.at > moment - EventsWithin}, "oom",
                           LAMBDA r : "critical")
        [] k = 4 -> Raised({r \in ListNodes : r.state.pressure}, "pressure",
                           LAMBDA r : "critical")

(* get_resource_utilization                                                *)
RequestedBy(pods) ==
  MapThenSumSet(LAMBDA r : r.state.request, {r \in pods : r.state.status \in {"Running", "Pending"}})

(* get_cost_summary: both queries ask for date = today(); the second lists *)
(* the dearest resources, in any order those that cost the same.           *)
Today == IF moment < Midnight THEN 0 ELSE 1
CostOf(rows) == MapThenSumSet(LAMBDA c : c.cost, rows)
CostsOfToday == {c \in Costs : c.day = Today}
CostByService == [s \in {c.service : c \in CostsOfToday} |->
                    CostOf({c \in CostsOfToday : c.service = s})]
TopCosts ==
  {rows \in SUBSET CostsOfToday :
     /\ Cardinality(rows) <= CostLimit
     /\ Cardinality(rows) < CostLimit => rows = CostsOfToday
     /\ \A r \in rows, c \in CostsOfToday \ rows : c.cost <= r.cost}

(* detect_idle_resources looks at every report, not at the last: disks are *)
(* returned once for each report they are in.                              *)
IdleResources(k) ==
  LET rows == {r \in reports : r.table = "resources"}
  IN  CASE k = 1 -> {r.id : r \in {q \in rows : q.state = "idle"}}
        [] k = 2 -> {r \in rows : r.state = "unattached"}

-----------------------------------------------------------------------------
(* The number of reads of a screen, and what the k-th returns; {} where    *)
(* only its failing matters here.                                          *)
Reads == [hosts |-> 1, hostMap |-> 1, host |-> 7, hostMetrics |-> 1, list |-> 1, events |-> 1,
          clusters |-> 3, cluster |-> 2, container |-> 5, pod |-> 3, containerIssues |-> 3,
          podIssues |-> 4, utilization |-> 2, costs |-> 2, idle |-> 2, topology |-> 2]

HostList == {[host |-> h, status |-> ListStatus(h)] : h \in KnownHosts}
HostMap == {[host |-> h, status |-> MapStatus(h)] : h \in KnownHosts}
HostMetricsRead(h) == {m \in hostMetrics : m.host = h}
ListRead(table) ==
  CASE table = "containers" -> ListContainers(Machines)
    [] table = "pods" -> ListPods(Namespaces)
    [] table = "nodes" -> ListNodes
    [] table = "resources" -> ListResources(Regions)
    [] OTHER -> Latest(table, PartsOf(table))
EventsRead == {r \in reports : r.table = "events"}
ClusterNames == {r.id : r \in {q \in reports : q.table = "clusters"}}

(* ORDER BY timestamp DESC LIMIT 1 of one thing, listed or no more.        *)
LastOf(table, id) ==
  LET rows == {r \in reports : r.table = table /\ r.id = id}
  IN  {r \in rows : \A q \in rows : q.at <= r.at}

(* The host, its metrics, processes, containers, interfaces, disks, agent. *)
HostRead(h, k) ==
  CASE k = 1 -> {hostRows[h]} \ {NoHost}
    [] k = 2 -> {LastMetrics(h)}
    [] k = 4 -> ListContainers({h})
    [] OTHER -> {}

(* The row of a cluster, then its open issues, which nothing here writes.  *)
ClusterRead(name, k) == IF k = 1 THEN LastOf("clusters", name) ELSE {}

ContainerRead(id, k) == IF k = 1 THEN LastOf("containers", id) ELSE {}
PodRead(of, k) == IF k = 1 THEN {r \in ListPods({of.part}) : r.id = of.id} ELSE {}
UtilizationRead(k) == IF k = 1 THEN ListNodes ELSE {RequestedBy(ListPods(Namespaces))}
CostRead(k) == IF k = 1 THEN {{CostByService}} ELSE TopCosts
TopologyRead(region, k) == IF k = 1 THEN ListResources({region}) ELSE {}

ReadOf(kind, of, k) ==
  CASE kind = "hosts" -> HostList
    [] kind = "hostMap" -> HostMap
    [] kind = "host" -> HostRead(of, k)
    [] kind = "hostMetrics" -> HostMetricsRead(of)
    [] kind = "list" -> ListRead(of)
    [] kind = "events" -> EventsRead
    [] kind = "clusters" -> IF k = 1 THEN ClusterNames ELSE ClusterRead(of, k - 1)
    [] kind = "cluster" -> ClusterRead(of, k)
    [] kind = "container" -> ContainerRead(of, k)
    [] kind = "pod" -> PodRead(of, k)
    [] kind = "containerIssues" -> ContainerIssues(k)
    [] kind = "podIssues" -> PodIssues(k)
    [] kind = "utilization" -> UtilizationRead(k)
    [] kind = "idle" -> IdleResources(k)
    [] kind = "topology" -> TopologyRead(of, k)

MayReturn(kind, of, k) == IF kind = "costs" THEN CostRead(k) ELSE {ReadOf(kind, of, k)}

Subjects(kind) ==
  CASE kind \in {"host", "hostMetrics"} -> Machines
    [] kind = "list" -> DOMAIN Contents \ {"events", "clusters"}
    [] kind \in {"cluster", "clusters"} -> UNION {{c.id : c \in content} : content \in Contents["clusters"]}
    [] kind = "container" -> UNION {{c.id : c \in content} : content \in Contents["containers"]}
    [] kind = "pod" -> UNION {{[part |-> p[1], id |-> c.id] : c \in p[2]} :
                                p \in Namespaces \X Contents["pods"]}
    [] kind = "topology" -> Regions
    [] OTHER -> {"tenant"}

OpenScreen ==
  /\ screen = NoScreen
  /\ \E kind \in DOMAIN Reads : \E of \in Subjects(kind) :
       screen' = [NoScreen EXCEPT !.kind = kind, !.of = of, !.since = moment]
  /\ UNCHANGED <<moment, hostRows, hostMetrics, reports, reported>>

(* What cannot be found is a ValueError and answered 404; the answer is    *)
(* put together, and the clock looked at, when the last read is back.      *)
Read ==
  /\ screen.kind # "none" /\ screen.answer = 0
  /\ \E rows \in MayReturn(screen.kind, screen.of, Len(screen.got) + 1) :
     LET k == Len(screen.got) + 1
         missing == k = 1 /\ screen.kind \in {"host", "cluster", "container", "pod"} /\ rows = {}
         noCluster == k = 1 /\ screen.kind = "clusters" /\ screen.of \notin rows
         status == IF missing THEN 404
                   ELSE IF k = Reads[screen.kind] \/ noCluster THEN 200 ELSE 0
     IN  screen' = [screen EXCEPT
           !.got = IF screen.kind = "host" /\ status = 200
                   THEN Append(@, {DetailStatus(CHOOSE r \in @[1] : TRUE, CHOOSE m \in @[2] : TRUE)})
                   ELSE Append(@, rows),
           !.answer = status]
  /\ UNCHANGED <<moment, hostRows, hostMetrics, reports, reported>>

(* Any other exception of a read is answered 500; the list of clusters     *)
(* goes on without the overview of the one whose read failed.              *)
ReadFails ==
  /\ screen.kind # "none" /\ screen.answer = 0
  /\ screen' = [screen EXCEPT !.answer = IF screen.kind = "clusters" /\ screen.got # <<>>
                                          THEN 200 ELSE 500]
  /\ UNCHANGED <<moment, hostRows, hostMetrics, reports, reported>>

CloseScreen ==
  /\ screen.answer # 0
  /\ screen' = NoScreen
  /\ UNCHANGED <<moment, hostRows, hostMetrics, reports, reported>>

-----------------------------------------------------------------------------
Disturb == /\ reported < MaxReports
           /\ reported' = reported + 1
           /\ screen' = IF screen = NoScreen THEN screen ELSE [screen EXCEPT !.disturbed = TRUE]

(* A host's agent writes its row and its metrics of the moment.            *)
HostReports ==
  /\ Disturb
  /\ \E h \in Machines : \E load \in HostLoads : \E size \in MemorySizes :
       /\ \A m \in hostMetrics : m.host = h => m.at < moment
       /\ hostRows' = [hostRows EXCEPT ![h] = [memory |-> size, seen |-> moment]]
       /\ hostMetrics' = hostMetrics \cup
            {[host |-> h, cpu |-> load.cpu, used |-> load.used, at |-> moment]}
  /\ UNCHANGED <<moment, reports>>

SnapshotArrives ==
  /\ Disturb
  /\ \E table \in DOMAIN Contents : \E part \in PartsOf(table) : \E content \in Contents[table] :
       /\ \A r \in reports : r.table = table /\ r.part = part => r.at < moment
       /\ reports' = reports \cup
            {[table |-> table, part |-> part, id |-> c.id, state |-> c.state, at |-> moment] : c \in content}
  /\ UNCHANGED <<moment, hostRows, hostMetrics>>

TimePasses ==
  /\ moment < LastMoment
  /\ moment' = moment + 1
  /\ UNCHANGED <<hostRows, hostMetrics, reports, reported, screen>>

InfraNext == OpenScreen \/ Read \/ ReadFails \/ CloseScreen \/ HostReports \/ SnapshotArrives \/ TimePasses
InfraSpec == InfraInit /\ [][InfraNext]_infraVars

-----------------------------------------------------------------------------
(* The list, the map and the detail of a host compute its status in three  *)
(* places, two in Python and one in SQL, and agree also for a host that    *)
(* reports no memory size or no metrics.                                   *)
HostStatusesAgree ==
  \A h \in KnownHosts :
    /\ ListStatus(h) = MapStatus(h)
    /\ ListStatus(h) = DetailStatus(hostRows[h], LastMetrics(h))

(* A filter never hides what the unfiltered list shows, although each      *)
(* looks up its own last report; and what once reported is listed.         *)
NarrowingHidesNothing ==
  \A table \in DOMAIN Contents : \A part \in PartsOf(table) :
    /\ {r \in Latest(table, PartsOf(table)) : r.part = part} \subseteq Latest(table, {part})
    /\ (\E r \in reports : r.table = table /\ r.part = part) => Latest(table, {part}) # {}

Served(kind) == screen.kind = kind /\ screen.answer = 200
RaisedOnScreen == UNION {screen.got[k] : k \in DOMAIN screen.got}

(* The issues of containers nothing interfered with name only what the     *)
(* lists show, and no pod is both crashing and pending.                    *)
IssuesAreListed ==
  Served("containerIssues") /\ ~screen.disturbed =>
    \A i \in RaisedOnScreen : \E r \in ListContainers({i.part}) : r.id = i.id
PodsAreInOneState ==
  Served("podIssues") /\ ~screen.disturbed =>
    \A i, j \in RaisedOnScreen : i.id = j.id /\ i.part = j.part /\ i.type = "crash" => j.type # "pending"

(* A host is shown as unreachable only if it was silent so long.  Costs    *)
(* are of services with a sum, and add up to the sums if the list did not  *)
(* fill up (cloud.py 301-347), unless the day changed between the reads.   *)
UnreachableWereSilent ==
  Served("host") /\ screen.got[7] = {"unreachable"} =>
    \A r \in screen.got[1] : r.seen + UnreachableAfter < moment
CostsAddUp ==
  Served("costs") /\ (moment < Midnight \/ screen.since >= Midnight) =>
    \A byService \in screen.got[1] :
      /\ \A c \in screen.got[2] : c.service \in DOMAIN byService
      /\ Cardinality(screen.got[2]) < CostLimit =>
           CostOf(screen.got[2]) = MapThenSumSet(LAMBDA s : byService[s], DOMAIN byService)

ScreensAddUp == IssuesAreListed /\ PodsAreInOneState /\ UnreachableWereSilent /\ CostsAddUp

ScreensAgree == HostStatusesAgree /\ NarrowingHidesNothing /\ ScreensAddUp

=============================================================================
