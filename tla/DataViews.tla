------------------------------ MODULE DataViews ------------------------------
(***************************************************************************)
(* api/routes/dashboard.py, log_data.py, metric_data.py, trace_data.py and *)
(* apm_data.py: the pages of the frontend, each a few SQL statements of    *)
(* its own over the tables the writers append to.  Every page repeats its  *)
(* own windows, severities and thresholds.  Another process appends rows,  *)
(* and the clock runs on, between two statements of a page; any statement  *)
(* may fail, and a page of which one fails shows nothing at all.           *)
(* A log row stands for a batch of lines of one service.                   *)
(***************************************************************************)
EXTENDS Integers, Sequences, FiniteSetsExt

CONSTANTS
  DataServices,
  Batches,        \* what arrives at once: severity -> number of lines
  Spans,          \* [error, latency] of a span
  Hour, SixHours, Day,  \* the windows
  SearchLimit,    \* limit of the log search
  TopLimit,       \* LIMIT of top_services (10)
  LastHour,       \* bound: the clock
  MaxArrivals     \* bound: rows

Severities == {"DEBUG", "INFO", "WARN", "ERROR", "FATAL"}
ErrorSeverities == {"ERROR", "FATAL", "CRITICAL"}
Latencies == {"fine", "slow", "verySlow"}  \* up to 1000 ms, up to 5000 ms, longer

ASSUME DataAssumption ==
  /\ {Hour, SixHours, Day, SearchLimit, TopLimit, LastHour, MaxArrivals} \subseteq Nat
  /\ Hour < SixHours /\ SixHours < Day
  /\ \A b \in Batches : b \in [Severities -> Nat] /\ \E s \in Severities : b[s] > 0
  /\ Spans \subseteq [error : BOOLEAN, latency : Latencies]

VARIABLES
  hours,     \* now()
  logRows,   \* logs.log_entries: sequence of [service, lines, at]
  spanRows,  \* traces.spans: sequence of [service, parent, error, latency, at]
  page       \* the page being put together

dataVars == <<hours, logRows, spanRows, page>>

NoPage == [kind |-> "none", since |-> 0, rows |-> 0, spans |-> 0, got |-> <<>>, answer |-> "none"]
DataInit == hours = 0 /\ logRows = <<>> /\ spanRows = <<>> /\ page = NoPage

-----------------------------------------------------------------------------
LogsSince(w) == {i \in DOMAIN logRows : logRows[i].at >= hours - w}
SpansSince(w) == {i \in DOMAIN spanRows : spanRows[i].at >= hours - w}
LinesOf(rows, kinds) ==
  MapThenSumSet(LAMBDA i : MapThenSumSet(LAMBDA s : logRows[i].lines[s], kinds \cap Severities), rows)
LogServicesOf(rows) == {logRows[i].service : i \in rows}
OfService(rows, s) == {i \in rows : logRows[i].service = s}

(* dashboard_overview, statement by statement.  A comment there counts the *)
(* services of logs and traces; the statement under it reads the logs only.*)
TotalServices == Cardinality(LogServicesOf(LogsSince(Day)))

(* Mutant of LogStats: the last hour only.                                 *)
LogStatsOfHour == [total |-> LinesOf(LogsSince(Hour), Severities),
                   errors |-> LinesOf(LogsSince(Hour), ErrorSeverities)]
LogStats == [total |-> LinesOf(LogsSince(Day), Severities),
             errors |-> LinesOf(LogsSince(Day), ErrorSeverities)]
IngestionRate == LinesOf(LogsSince(Hour), Severities)  \* per hour, not per minute

(* The breakdown compares the rate itself with 10 % and 2 %.               *)
Breakdown ==
  LET rows == LogsSince(Hour)
      AtLeastPercent(s, p) == /\ LinesOf(OfService(rows, s), Severities) > 0
                              /\ LinesOf(OfService(rows, s), ErrorSeverities) * 100
                                   >= p * LinesOf(OfService(rows, s), Severities)
  IN  [s \in LogServicesOf(rows) |->
         IF AtLeastPercent(s, 10) THEN "critical"
         ELSE IF AtLeastPercent(s, 2) THEN "warning" ELSE "healthy"]

(* service_health compares it after rounding to hundredths of a percent;   *)
(* the latency is listed but does not count.                               *)
RoundedRate(errors, total) ==
  IF total = 0 THEN 0 ELSE (20000 * errors + total) \div (2 * total)
HealthList ==
  LET rows == LogsSince(Hour)
      Rate(s) == RoundedRate(LinesOf(OfService(rows, s), ErrorSeverities),
                             LinesOf(OfService(rows, s), Severities))
  IN  [s \in LogServicesOf(rows) |->
         IF Rate(s) >= 1000 THEN "critical" ELSE IF Rate(s) >= 200 THEN "warning" ELSE "healthy"]

(* ingestion_chart and log_volume, summed over their points.               *)
IngestionChart == [total |-> LinesOf(LogsSince(SixHours), Severities),
                   errors |-> LinesOf(LogsSince(SixHours), ErrorSeverities)]
LogVolume ==
  LET rows == LogsSince(SixHours)
  IN  [total |-> LinesOf(rows, Severities), info |-> LinesOf(rows, {"INFO"}),
       warn |-> LinesOf(rows, {"WARN", "WARNING"}), errors |-> LinesOf(rows, ErrorSeverities)]

(* top_services shows the TopLimit services of the most lines; which of    *)
(* those that tie is left to ClickHouse.  TopServices are the lists it may *)
(* show.                                                                   *)
ServiceTotals ==
  LET rows == LogsSince(Day)
  IN  {[service |-> s, lines |-> LinesOf(OfService(rows, s), Severities),
        errors |-> LinesOf(OfService(rows, s), ErrorSeverities)] : s \in LogServicesOf(rows)}
TopServices ==
  {rows \in SUBSET ServiceTotals :
     /\ Cardinality(rows) <= TopLimit
     /\ Cardinality(rows) < TopLimit => rows = ServiceTotals
     /\ \A r \in rows, t \in ServiceTotals \ rows : t.lines <= r.lines}
ErrorsOnList(rows) == MapThenSumSet(LAMBDA s : s.errors, rows)
LogServices ==
  LET rows == LogsSince(Day)
  IN  {[service |-> s, lines |-> LinesOf(OfService(rows, s), Severities)] : s \in LogServicesOf(rows)}
LogSeverities == [s \in Severities |-> LinesOf(LogsSince(Day), {s})]
RecentErrors == {i \in DOMAIN logRows : LinesOf({i}, ErrorSeverities) > 0}

(* search_logs without a range: all rows, counted first and listed then.   *)
SearchTotal(s) == LinesOf(OfService(DOMAIN logRows, s), Severities)
SearchPage(s) == IF SearchTotal(s) > SearchLimit THEN SearchLimit ELSE SearchTotal(s)

-----------------------------------------------------------------------------
(* _health_status: thresholds of its own, on the rate and the p99 after    *)
(* they were rounded.  99 of 100 spans decide the p99, with the few spans  *)
(* here the slowest does.                                                  *)
HealthStatus(errors, total, p99) ==
  IF RoundedRate(errors, total) > 1000 \/ p99 = "verySlow" THEN "critical"
  ELSE IF RoundedRate(errors, total) > 500 \/ p99 = "slow" THEN "warning" ELSE "healthy"

(* The spans service_endpoints groups by operation, and shows 50 groups of.*)
RequestsOf(s) == {i \in SpansSince(Hour) : spanRows[i].service = s}
SlowestOf(rows) ==
  IF \E i \in rows : spanRows[i].latency = "verySlow" THEN "verySlow"
  ELSE IF \E i \in rows : spanRows[i].latency = "slow" THEN "slow" ELSE "fine"

SpanStats ==
  [s \in {spanRows[i].service : i \in SpansSince(Hour)} |->
     [count |-> Cardinality(RequestsOf(s)),
      errors |-> Cardinality({i \in RequestsOf(s) : spanRows[i].error}),
      p99 |-> SlowestOf(RequestsOf(s))]]

(* trace_services, apm_services and the nodes of the map.                  *)
TraceServices == [s \in DOMAIN SpanStats |-> SpanStats[s].count]
ApmServices == [s \in DOMAIN SpanStats |->
                  [count |-> SpanStats[s].count,
                   status |-> HealthStatus(SpanStats[s].errors, SpanStats[s].count, SpanStats[s].p99)]]
MapNodes == [s \in DOMAIN ApmServices |-> ApmServices[s].status]

(* The edges of the map: only the child has to be of the last hour.        *)
MapEdges ==
  {<<spanRows[spanRows[i].parent].service, spanRows[i].service>> :
     i \in {j \in SpansSince(Hour) : /\ spanRows[j].parent # 0
                                     /\ spanRows[spanRows[j].parent].service # spanRows[j].service}}

(* service_errors, over the last day; its LIMIT of 20 shows fewer.         *)
ServiceErrors(s) == {i \in SpansSince(Day) : spanRows[i].service = s /\ spanRows[i].error}

(* search_traces groups the spans of the last hour, get_trace returns all. *)
RootOf(i) == IF spanRows[i].parent = 0 THEN i ELSE spanRows[i].parent
SearchTraces == {RootOf(i) : i \in SpansSince(Hour)}
GetTrace(root) == {i \in DOMAIN spanRows : RootOf(i) = root}

-----------------------------------------------------------------------------
Statements == [overview |-> 4, health |-> 2, search |-> 2, map |-> 2]

Result(kind, k) ==
  CASE kind = "overview" -> (CASE k = 1 -> TotalServices [] k = 2 -> LogStats
                               [] k = 3 -> IngestionRate [] k = 4 -> Breakdown)
    [] kind = "health" -> IF k = 1 THEN HealthList ELSE DOMAIN SpanStats
    [] kind = "search" -> IF k = 1 THEN [s \in DataServices |-> SearchTotal(s)]
                          ELSE [s \in DataServices |-> SearchPage(s)]
    [] kind = "map" -> IF k = 1 THEN MapNodes ELSE MapEdges

(* A page without a client or with a bad tenant name is empty at once.     *)
OpenPage ==
  /\ page = NoPage
  /\ \E kind \in DOMAIN Statements :
       page' = [NoPage EXCEPT !.kind = kind, !.since = hours,
                               !.rows = Len(logRows), !.spans = Len(spanRows)]
  /\ UNCHANGED <<hours, logRows, spanRows>>

RunStatement ==
  /\ page.kind # "none" /\ page.answer = "none"
  /\ LET k == Len(page.got) + 1
     IN  page' = [page EXCEPT !.got = Append(@, Result(page.kind, k)),
                              !.answer = IF k = Statements[page.kind] THEN "full" ELSE @]
  /\ UNCHANGED <<hours, logRows, spanRows>>

StatementFails ==
  /\ page.kind # "none" /\ page.answer = "none"
  /\ page' = [page EXCEPT !.answer = "empty", !.got = <<>>]
  /\ UNCHANGED <<hours, logRows, spanRows>>

ClosePage ==
  /\ page.answer # "none"
  /\ page' = NoPage
  /\ UNCHANGED <<hours, logRows, spanRows>>

LogsArrive ==
  /\ Len(logRows) + Len(spanRows) < MaxArrivals
  /\ \E s \in DataServices : \E b \in Batches :
       logRows' = Append(logRows, [service |-> s, lines |-> b, at |-> hours])
  /\ UNCHANGED <<hours, spanRows, page>>

SpanArrives ==
  /\ Len(logRows) + Len(spanRows) < MaxArrivals
  /\ \E s \in DataServices : \E span \in Spans : \E parent \in {0} \cup DOMAIN spanRows :
       /\ parent # 0 => spanRows[parent].parent = 0
       /\ spanRows' = Append(spanRows, [service |-> s, parent |-> parent, error |-> span.error,
                                        latency |-> span.latency, at |-> hours])
  /\ UNCHANGED <<hours, logRows, page>>

HourPasses == hours < LastHour /\ hours' = hours + 1 /\ UNCHANGED <<logRows, spanRows, page>>

DataNext == OpenPage \/ RunStatement \/ StatementFails \/ ClosePage \/ LogsArrive \/ SpanArrives \/ HourPasses
DataSpec == DataInit /\ [][DataNext]_dataVars

-----------------------------------------------------------------------------
(* Two pages opened at one moment show the same: the totals of the         *)
(* overview are those of the lists, the errors of the top services are the *)
(* overview's when no service is left out of the list and no more than     *)
(* those otherwise, the chart is the volume, an error that counts is among *)
(* the recent ones, the health list differs from the overview only where   *)
(* rounding lifts a rate to a threshold, and a service that shows healthy  *)
(* lists at most the 5.005 % of errors that round to five.                 *)
PagesMatch ==
  /\ LogStats.total = MapThenSumSet(LAMBDA s : s.lines, LogServices)
  /\ LogStats.total = MapThenSumSet(LAMBDA s : LogSeverities[s], Severities)
  /\ \A rows \in TopServices :
       /\ ErrorsOnList(rows) <= LogStats.errors
       /\ Cardinality(rows) = TotalServices => ErrorsOnList(rows) = LogStats.errors
  /\ TotalServices = Cardinality(LogServices)
  /\ LogVolume.total = IngestionChart.total /\ LogVolume.errors = IngestionChart.errors
  /\ LogStats.errors > 0 => RecentErrors # {}
  /\ \A s \in DOMAIN Breakdown : Breakdown[s] # HealthList[s] =>
       <<Breakdown[s], HealthList[s]>> \in {<<"healthy", "warning">>, <<"warning", "critical">>}
  /\ \A s \in DOMAIN ApmServices :
       /\ TraceServices[s] = ApmServices[s].count
       /\ ApmServices[s].status = "healthy" =>
            20000 * Cardinality(ServiceErrors(s) \cap SpansSince(Hour)) <= 1001 * ApmServices[s].count
  /\ \A root \in SearchTraces : GetTrace(root) # {}

(* A page whose statements saw different rows or hours still adds up: the  *)
(* breakdown has no more services than were counted or have come since,    *)
(* a full search page has what was counted, and what the map's edges point *)
(* to is a node or has come since.                                         *)
TornPagesAddUp ==
  page.answer = "full" =>
    /\ page.kind = "overview" =>
         /\ Cardinality(DOMAIN page.got[4]) <= page.got[1] + Len(logRows) - page.rows
         /\ page.got[1] > 0 => page.got[2].total > 0 \/ hours > page.since
    /\ page.kind = "search" =>
         \A s \in DataServices : page.got[2][s] >= SearchLimit \/ page.got[2][s] >= page.got[1][s]
    /\ page.kind = "map" =>
         \A e \in page.got[2] : \/ e[2] \in DOMAIN page.got[1]
                                \/ \E i \in page.spans + 1..Len(spanRows) : spanRows[i].service = e[2]

(* The pages of the dashboard, log, trace and APM routes agree.            *)
PagesAddUp == PagesMatch /\ TornPagesAddUp

=============================================================================
