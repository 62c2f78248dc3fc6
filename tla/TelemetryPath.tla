---------------------------- MODULE TelemetryPath ----------------------------
(***************************************************************************)
(* The whole way of a record: an ingest request goes through the           *)
(* IngestionPipeline, which publishes to JetStream and also writes to      *)
(* ClickHouse directly; the StorageWriter consumes JetStream and inserts   *)
(* batches into the same tables.  The two share nothing but the stream.    *)
(***************************************************************************)
EXTENDS Integers, FiniteSets

CONSTANTS
  Requests, Records, RecordsOf, Logs,                          \* the pipeline's
  Kinds, KindOf, BatchSize, FlushInterval, NoRecord, MaxIssued, MaxFaults

ASSUME TelemetryAssumption ==
  /\ RecordsOf \in [Requests -> SUBSET Records]
  /\ Logs \subseteq Requests
  /\ \A r \in Requests : IsFiniteSet(RecordsOf[r])
  /\ KindOf \in [Records -> Kinds]
  /\ NoRecord \notin Records
  /\ {BatchSize, FlushInterval} \subseteq Nat \ {0}
  /\ {MaxIssued, MaxFaults} \subseteq Nat

VARIABLES
  stream, issued,
  wiring, js, phase, accepted, todo, metrics, parked, deadLetters, direct,
  response, offered, dropped, refused, pressed,
  buffer, handling, sinceFlush, process, table, delivered, doubled, lost,
  unflushed, faults

P == INSTANCE IngestionPipeline
W == INSTANCE StorageWriter

pipelineVars == <<wiring, js, phase, accepted, todo, metrics, parked,
                  deadLetters, direct, response, offered, dropped, refused, pressed>>
writerVars == <<buffer, handling, sinceFlush, process, table, delivered,
                doubled, lost, unflushed, faults>>
vars == <<stream, issued, pipelineVars, writerVars>>

Init == P!Init /\ W!WriterInit

Next ==
  \/ P!Next /\ UNCHANGED writerVars
  \/ (W!WriterNext \/ W!ServerNext) /\ UNCHANGED pipelineVars

Fairness ==
  /\ \A r \in Requests : WF_vars(P!Advance(r) /\ UNCHANGED writerVars)
  /\ \A m \in Records : SF_vars(W!Handle(m) /\ UNCHANGED pipelineVars)
  /\ \A k \in Kinds : WF_vars(W!AckReturns(k) /\ UNCHANGED pipelineVars)
  /\ WF_vars(W!Exit /\ UNCHANGED pipelineVars)
  /\ WF_vars(W!Restart /\ UNCHANGED pipelineVars)

Spec == Init /\ [][Next]_vars
FairSpec == Spec /\ Fairness

-----------------------------------------------------------------------------
Publications(m) == Cardinality({r \in Requests : m \in offered[r]})
InHandler(m) == IF handling[KindOf[m]] = m THEN 1 ELSE 0

(* A row the StorageWriter holds or wrote was accepted by some request and *)
(* published by it: what was rejected, dropped, or dead-lettered by every  *)
(* request that carried it never reaches ClickHouse through the queue.     *)
StoredWasPublished ==
  \A m \in Records :
    buffer[m] + table[m] + lost[m] > 0 => Publications(m) > 0

(* In fair weather (no fault, no expired ack wait) the queue path delivers *)
(* each publication exactly once: it is still owed, in a buffer, or one    *)
(* row, although two requests, three handlers and the timer interleave.    *)
FairWeatherExactlyOnce ==
  \A m \in Records :
    (faults = 0 /\ issued[m] = Publications(m)) =>
      stream[m] - InHandler(m) + buffer[m] + table[m] = Publications(m)

(* What a request published is eventually out of JetStream's hands: in a   *)
(* buffer, in ClickHouse, or gone with a process.                          *)
PublishedIsConsumed ==
  \A m \in Records :
    Publications(m) > 0 ~> buffer[m] + table[m] + lost[m] > 0

=============================================================================
