---------------------------- MODULE AgentTracing ----------------------------
(***************************************************************************)
(* services/agents/tracing.py: AgentTracer collects the spans of one       *)
(* execution in memory, flush() appends them to ClickHouse, and            *)
(* load_waterfall reads them back.  Spans start and end while a flush      *)
(* awaits its insert; flush neither clears what it wrote nor looks whether *)
(* a span has ended (_active_spans is kept and never read), so that a span *)
(* may be stored several times, in different states, also by two flushes   *)
(* that await at once.  Its callers are not in the repository.             *)
(***************************************************************************)
EXTENDS Integers, Sequences, FiniteSetsExt

CONSTANTS
  MaxAgentSpans,  \* bound: spans of the execution
  LastInstant,    \* bound: the monotonic clock
  MaxFlushes      \* bound: calls of flush()

ASSUME TracingAssumption == {MaxAgentSpans, LastInstant, MaxFlushes} \subseteq Nat

VARIABLES
  instant,      \* time.monotonic()
  recorded,     \* self.spans: [parent, began, duration, cost], the id is the index
  dearest,      \* history: the greatest cost each span ever had
  flushing,     \* the rows each pending flush inserts, by the number of the flush
  flushes,      \* calls of flush() so far
  storedSpans,  \* agents.agent_spans: sequence of [id, span]
  shown         \* the waterfall just loaded, and the number of rows then

tracingVars == <<instant, recorded, dearest, flushing, flushes, storedSpans, shown>>

NoFlushes == [f \in {} |-> <<>>]
NothingShown == [rows |-> 0, path |-> <<>>, cost |-> 0, total |-> 0]
TracingInit ==
  /\ instant = 0 /\ recorded = <<>> /\ dearest = <<>>
  /\ flushing = NoFlushes /\ flushes = 0 /\ storedSpans = <<>> /\ shown = NothingShown

-----------------------------------------------------------------------------
(* start_span: a parent is any span a caller has the context of; "" is 0.  *)
(* No two spans begin at one reading of the clock.                         *)
StartSpan ==
  /\ Len(recorded) < MaxAgentSpans
  /\ \A i \in DOMAIN recorded : recorded[i].began < instant
  /\ \E parent \in {0} \cup DOMAIN recorded :
       recorded' = Append(recorded, [parent |-> parent, began |-> instant, duration |-> 0, cost |-> 0])
  /\ dearest' = Append(dearest, 0)
  /\ UNCHANGED <<instant, flushing, flushes, storedSpans>> /\ shown' = NothingShown

(* end_span writes into the span of that id, ended before or not: the cost *)
(* is that of the tokens given now, and nothing when none are given.       *)
EndSpan(i) ==
  /\ \E cost \in {0, 1} :
       /\ recorded' = [recorded EXCEPT ![i].duration = instant - recorded[i].began, ![i].cost = cost]
       /\ dearest' = [dearest EXCEPT ![i] = IF cost > @ THEN cost ELSE @]
  /\ UNCHANGED <<instant, flushing, flushes, storedSpans>> /\ shown' = NothingShown

(* flush: the rows are made before the insert is awaited.                  *)
BeginFlush ==
  /\ recorded # <<>> /\ flushes < MaxFlushes
  /\ flushes' = flushes + 1
  /\ LET rows == [i \in DOMAIN recorded |-> [id |-> i, span |-> recorded[i]]]
     IN  flushing' = [f \in DOMAIN flushing \cup {flushes + 1} |->
                        IF f = flushes + 1 THEN rows ELSE flushing[f]]
  /\ UNCHANGED <<instant, recorded, dearest, storedSpans>> /\ shown' = NothingShown

FlushEnds(f) == flushing' = [g \in DOMAIN flushing \ {f} |-> flushing[g]]

(* Mutant of InsertSpans: the rows stay and may be inserted again.         *)
InsertSpansAgain(f) ==
  /\ storedSpans' = storedSpans \o flushing[f]
  /\ UNCHANGED <<instant, recorded, dearest, flushing, flushes>> /\ shown' = NothingShown

InsertSpans(f) ==
  /\ storedSpans' = storedSpans \o flushing[f]
  /\ FlushEnds(f)
  /\ UNCHANGED <<instant, recorded, dearest, flushes>> /\ shown' = NothingShown

InsertSpansFails(f) ==
  /\ FlushEnds(f)
  /\ UNCHANGED <<instant, recorded, dearest, flushes, storedSpans>> /\ shown' = NothingShown

-----------------------------------------------------------------------------
(* _compute_critical_path of the spans of span_map: of the chains from a   *)
(* root to a leaf the one with the greatest sum of durations, the first    *)
(* that was found if several have it, and none if the sum is zero.         *)
IsLeaf(map, i) == \A j \in DOMAIN map : map[j].parent # i
Chains(map) ==
  {path \in UNION {[1..n -> DOMAIN map] : n \in 1..Cardinality(DOMAIN map)} :
     /\ map[path[1]].parent = 0
     /\ \A k \in 1..Len(path) - 1 : map[path[k + 1]].parent = path[k]
     /\ IsLeaf(map, path[Len(path)])}
TimeOf(map, path) == MapThenSumSet(LAMBDA k : map[path[k]].duration, DOMAIN path)
FoundFirst(p, q) ==
  \E k \in DOMAIN p \cap DOMAIN q : p[k] < q[k] /\ \A j \in 1..k - 1 : p[j] = q[j]
LongestChain(map) ==
  LET longest == {p \in Chains(map) : \A q \in Chains(map) : TimeOf(map, q) <= TimeOf(map, p)}
      best == CHOOSE p \in longest : \A q \in longest : p = q \/ FoundFirst(p, q)
  IN  IF longest = {} THEN <<>> ELSE IF TimeOf(map, best) = 0 THEN <<>> ELSE best

(* get_waterfall                                                           *)
EndOf(span) == span.began + span.duration
Waterfall ==
  [rows |-> Len(recorded), path |-> LongestChain(recorded),
   cost |-> MapThenSumSet(LAMBDA i : recorded[i].cost, DOMAIN recorded),
   total |-> Max({0} \cup {EndOf(recorded[i]) : i \in DOMAIN recorded})]

(* load_waterfall: the rows of one span have one start time, so that any   *)
(* of them may come last and be the one in span_map.                       *)
LoadWaterfall ==
  /\ storedSpans # <<>>
  /\ LET ids == {storedSpans[k].id : k \in DOMAIN storedSpans}
         rowsOf(i) == {storedSpans[k].span : k \in {m \in DOMAIN storedSpans : storedSpans[m].id = i}}
     IN  \E map \in {f \in [ids -> UNION {rowsOf(i) : i \in ids}] : \A i \in ids : f[i] \in rowsOf(i)} :
           shown' = [rows |-> Len(storedSpans), path |-> LongestChain(map),
                     cost |-> MapThenSumSet(LAMBDA k : storedSpans[k].span.cost, DOMAIN storedSpans),
                     total |-> Max({EndOf(storedSpans[k].span) : k \in DOMAIN storedSpans})]
  /\ UNCHANGED <<instant, recorded, dearest, flushing, flushes, storedSpans>>

(* load_waterfall reads the row of the execution first, which another      *)
(* service writes: without it there is no waterfall, and without spans an  *)
(* empty one.                                                              *)
LoadNothing ==
  /\ shown' = NothingShown
  /\ UNCHANGED <<instant, recorded, dearest, flushing, flushes, storedSpans>>

InstantPasses ==
  /\ instant < LastInstant
  /\ instant' = instant + 1
  /\ UNCHANGED <<recorded, dearest, flushing, flushes, storedSpans>> /\ shown' = NothingShown

TracingNext ==
  \/ StartSpan \/ BeginFlush \/ LoadWaterfall \/ LoadNothing \/ InstantPasses
  \/ \E f \in DOMAIN flushing : InsertSpans(f) \/ InsertSpansFails(f)
  \/ \E i \in DOMAIN recorded : EndSpan(i)
TracingSpec == TracingInit /\ [][TracingNext]_tracingVars

-----------------------------------------------------------------------------
(* What is loaded is what was recorded, whatever was flushed when: a path  *)
(* of recorded spans, each the child of the one before, no longer in time  *)
(* than the execution has lasted, and no cost but the greatest a span ever *)
(* had, in every flush.  Flushed once, after the last span ended, it is    *)
(* the waterfall.                                                          *)
LoadedOnce ==
  /\ shown.rows = Len(storedSpans) /\ Len(storedSpans) = Len(recorded)
  /\ {storedSpans[k].id : k \in DOMAIN storedSpans} = DOMAIN recorded
WaterfallsAreFaithful ==
  /\ \A k \in DOMAIN shown.path :
       recorded[shown.path[k]].parent = IF k = 1 THEN 0 ELSE shown.path[k - 1]
  /\ shown.total <= instant
  /\ shown.cost <= flushes * MapThenSumSet(LAMBDA i : dearest[i], DOMAIN dearest)
  /\ LoadedOnce /\ (\A k \in DOMAIN storedSpans : storedSpans[k].span = recorded[storedSpans[k].id]) =>
       shown = Waterfall

=============================================================================
