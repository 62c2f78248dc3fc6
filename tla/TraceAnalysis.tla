---------------------------- MODULE TraceAnalysis ----------------------------
(***************************************************************************)
(* services/apm/latency.py: the breakdown of one trace with its critical   *)
(* path, and the analysis of an endpoint.  Spans of the trace arrive in    *)
(* any order, the parent perhaps last or never, and twice when the writer's*)
(* delivery is repeated; what a client calls its parent is not checked.    *)
(***************************************************************************)
EXTENDS Integers, Sequences, FiniteSetsExt

CONSTANTS
  SpanIds,       \* spans of the trace; 0 is the parent of a root
  Durations,
  MaxDepth,      \* nested calls that Python allows (about a thousand)
  MaxTraceRows   \* bound: rows of the trace

ASSUME TraceAssumption ==
  /\ IsFiniteSet(SpanIds) /\ 0 \notin SpanIds
  /\ Durations \subseteq Nat /\ {MaxDepth, MaxTraceRows} \subseteq Nat

VARIABLES
  traceRows,   \* rows of the trace by start time: [id, parent, duration]
  analysis     \* analyze_endpoint, between its reads

traceVars == <<traceRows, analysis>>

-----------------------------------------------------------------------------
(* breakdown_latency: the first row without a parent is the root, or else  *)
(* the first row; a duration of zero counts as one.                        *)
FirstRow(Test(_)) ==
  LET which == {i \in DOMAIN traceRows : Test(traceRows[i])}
  IN  traceRows[IF which = {} THEN 1 ELSE CHOOSE i \in which : \A j \in which : i <= j]
RootRow == FirstRow(LAMBDA r : r.parent = 0)
TotalDuration == IF RootRow.duration = 0 THEN 1 ELSE RootRow.duration

Kids(id) == {i \in DOMAIN traceRows : traceRows[i].parent = id}

(* Mutant of LongestKid: the first child to start.                         *)
EarliestKid(id) == CHOOSE i \in Kids(id) : \A j \in Kids(id) : i <= j

(* max(kids, key=duration): of equals the first.                           *)
LongestKid(id) ==
  CHOOSE i \in Kids(id) : \A j \in Kids(id) :
    \/ traceRows[i].duration > traceRows[j].duration
    \/ traceRows[i].duration = traceRows[j].duration /\ i <= j

(* _mark_critical_path calls itself for the longest child, as deep as      *)
(* Python allows: on rows that are each other's ancestors, and on a chain  *)
(* that goes deeper, RecursionError.                                       *)
CriticalPath ==
  LET walk[n \in 0..MaxDepth] ==
        IF n = 0 THEN <<RootRow.id>>
        ELSE LET path == walk[n - 1]
                 last == path[Len(path)]
             IN  IF Kids(last) = {} THEN path ELSE Append(path, traceRows[LongestKid(last)].id)
  IN  walk[MaxDepth]
Recurses == Kids(CriticalPath[Len(CriticalPath)]) # {}

Breakdown404 == traceRows = <<>>
TraceBreakdown ==
  [i \in DOMAIN traceRows |->
     [id |-> traceRows[i].id,
      share |-> (traceRows[i].duration * 100) \div TotalDuration,
      critical |-> \E k \in DOMAIN CriticalPath : CriticalPath[k] = traceRows[i].id]]

-----------------------------------------------------------------------------
(* analyze_endpoint reads the entry spans of an operation three times: the *)
(* figures, those at or above the 99th percentile, the histogram.  Of the  *)
(* few spans here the percentile is the slowest or just below it; of none  *)
(* it is not a number, and no span is above that.                          *)
NoAnalysis == [step |-> 0, count |-> 0, threshold |-> 0, slow |-> 0, histogram |-> 0]
EntryDurations == {traceRows[i].duration : i \in Kids(0)}

TraceInit == traceRows = <<>> /\ analysis = NoAnalysis

ReadFigures ==
  /\ analysis.step \in {0, 3}
  /\ \E below \in IF EntryDurations = {} THEN {0} ELSE {0, 1} :
       analysis' = [NoAnalysis EXCEPT !.step = 1, !.count = Cardinality(Kids(0)),
         !.threshold = IF EntryDurations = {} THEN 0 ELSE Max(EntryDurations) - below]
  /\ UNCHANGED traceRows

ReadSlow ==
  /\ analysis.step = 1
  /\ analysis' = [analysis EXCEPT !.step = 2, !.threshold = 0,
       !.slow = IF analysis.count = 0 THEN 0
                ELSE Cardinality({i \in Kids(0) : traceRows[i].duration >= analysis.threshold})]
  /\ UNCHANGED traceRows

ReadHistogram ==
  /\ analysis.step = 2
  /\ analysis' = [analysis EXCEPT !.step = 3, !.histogram = Cardinality(Kids(0))]
  /\ UNCHANGED traceRows

(* A row is new or repeats one; rows are read by start time, and a late    *)
(* row may have started first.                                             *)
RowArrives ==
  /\ Len(traceRows) < MaxTraceRows
  /\ \E id \in SpanIds : \E parent \in SpanIds \cup {0} : \E d \in Durations :
       LET row == [id |-> id, parent |-> parent, duration |-> d]
       IN  /\ \A i \in DOMAIN traceRows : traceRows[i].id = id => traceRows[i] = row
           /\ traceRows' \in {Append(traceRows, row), <<row>> \o traceRows}
  /\ UNCHANGED analysis

TraceNext == ReadFigures \/ ReadSlow \/ ReadHistogram \/ RowArrives
TraceSpec == TraceInit /\ [][TraceNext]_traceVars

-----------------------------------------------------------------------------
(* In a breakdown that comes back the critical path starts at the root and *)
(* at each span goes on to one longest child until there is none, whatever *)
(* order the rows came in and however often; it fails to come back only    *)
(* where rows are each other's ancestors, or of more spans than the calls  *)
(* that may be nested.                                                     *)
Critical == {CriticalPath[k] : k \in DOMAIN CriticalPath}
CriticalPathIsLongest ==
  traceRows # <<>> =>
    IF Recurses
    THEN \/ Cardinality({traceRows[i].id : i \in DOMAIN traceRows}) > MaxDepth
         \/ \E S \in SUBSET SpanIds : S # {} /\ \A id \in S :
              \E i \in DOMAIN traceRows : traceRows[i].id = id /\ traceRows[i].parent \in S
    ELSE /\ RootRow.id \in Critical
         /\ \A i \in DOMAIN traceRows : traceRows[i].id \in Critical \ {RootRow.id} =>
              /\ traceRows[i].parent \in Critical
              /\ \A j \in Kids(traceRows[i].parent) : traceRows[j].duration <= traceRows[i].duration
         /\ \A id \in Critical : Kids(id) # {} => \E j \in Kids(id) : traceRows[j].id \in Critical
         /\ TraceBreakdown[CHOOSE i \in DOMAIN traceRows : traceRows[i] = RootRow].share \in {0, 100}

(* An analysis whose reads saw different rows: the histogram has at least  *)
(* the requests that were counted, and there is a slow one to show.        *)
AnalysisAddsUp ==
  analysis.step = 3 => 
    /\ analysis.histogram >= analysis.count /\ analysis.slow <= analysis.histogram
    /\ analysis.count > 0 => analysis.slow > 0

(* Breakdown, critical path (latency.py 208-250) and endpoint analysis     *)
(* explain where the time of a trace went.                                 *)
TracesAreExplained == CriticalPathIsLongest /\ AnalysisAddsUp

=============================================================================
