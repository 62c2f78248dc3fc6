---------------------------- MODULE StorageWriter ----------------------------
(***************************************************************************)
(* services/storage/writer.py: the consumer between NATS JetStream and     *)
(* ClickHouse.  One durable push subscription per kind of telemetry calls  *)
(* a handler that appends the record to the buffer of its kind, awaits     *)
(* msg.ack(), and then flushes the buffer when it is long enough or when   *)
(* the last flush, of ANY kind, is old enough.                             *)
(*                                                                         *)
(* A subscription runs its callbacks one after the other, so there is one  *)
(* handler per kind; handlers of different kinds interleave at the only    *)
(* suspension point, `await msg.ack()`.  Everything after it, the flush    *)
(* included, runs without suspending and is one action.                    *)
(*                                                                         *)
(* Buffers are bags (copies per record): ClickHouse orders rows itself.    *)
(***************************************************************************)
EXTENDS Integers, FiniteSets

CONSTANTS
  Records,        \* telemetry records; a message carries exactly one
  Kinds,          \* logs, metrics, traces
  KindOf,         \* [Records -> Kinds]: the subject a record is published on
  BatchSize,      \* BATCH_SIZE
  FlushInterval,  \* FLUSH_INTERVAL_SECONDS, in ticks
  NoRecord,       \* no handler of the kind is running
  MaxIssued,      \* bound: copies, of all records, JetStream ever has to deliver
  MaxFaults       \* bound: lost acks, failed inserts, stops and crashes

ASSUME WriterAssumption ==
  /\ KindOf \in [Records -> Kinds]
  /\ NoRecord \notin Records
  /\ BatchSize \in Nat \ {0}
  /\ FlushInterval \in Nat \ {0}
  /\ MaxIssued \in Nat
  /\ MaxFaults \in Nat

VARIABLES
  stream,      \* copies of each record JetStream still has to see acknowledged
  buffer,      \* copies in _log_buffer, _metric_buffer or _trace_buffer
  handling,    \* the record whose handler awaits msg.ack(), per kind
  sinceFlush,  \* monotonic() - _last_flush, capped at FlushInterval
  process,     \* "running", "stopped" (stop() has returned) or "down"
  table,       \* rows of each record in ClickHouse
  \* history: what the counters above must add up to
  issued,      \* copies of each record JetStream was ever asked to deliver
  delivered,   \* handler invocations per record
  doubled,     \* rows written by an insert that nevertheless raised
  lost,        \* copies that were only in memory when the process ended
  unflushed,   \* kinds whose last flush failed or was skipped by a failed ack
  faults       \* faults so far (bounded by MaxFaults)

serverVars == <<stream, issued>>
writerVars == <<buffer, handling, sinceFlush, process, table,
                delivered, doubled, lost, unflushed, faults>>
vars == <<serverVars, writerVars>>

Nothing == [r \in Records |-> 0]
Buffered(k) == {r \in Records : KindOf[r] = k /\ buffer[r] > 0}
CopiesIn(bag, S) == UNION {{r} \X (1..bag[r]) : r \in S}
BufferLen(k) == Cardinality(CopiesIn(buffer, Buffered(k)))
NonEmpty(K) == {k \in K : Buffered(k) # {}}

TypeOK ==
  /\ stream \in [Records -> Nat]
  /\ buffer \in [Records -> Nat]
  /\ handling \in [Kinds -> Records \union {NoRecord}]
  /\ sinceFlush \in 0..FlushInterval
  /\ process \in {"running", "stopped", "down"}
  /\ table \in [Records -> Nat]
  /\ issued \in [Records -> Nat]
  /\ delivered \in [Records -> Nat]
  /\ doubled \in [Records -> Nat]
  /\ lost \in [Records -> Nat]
  /\ unflushed \in SUBSET Kinds
  /\ faults \in 0..MaxFaults

WriterInit ==
  /\ buffer = Nothing
  /\ handling = [k \in Kinds |-> NoRecord]
  /\ sinceFlush = 0
  /\ process = "running"
  /\ table = Nothing
  /\ delivered = Nothing
  /\ doubled = Nothing
  /\ lost = Nothing
  /\ unflushed = {}
  /\ faults = 0

ServerInit == stream = Nothing /\ issued = Nothing

Init == WriterInit /\ ServerInit

-----------------------------------------------------------------------------
CanIssue == Cardinality(CopiesIn(issued, Records)) < MaxIssued
Fault == faults < MaxFaults /\ faults' = faults + 1

(* External: JetStream stores a message published on the record's subject. *)
Publish(r) ==
  /\ CanIssue
  /\ stream' = [stream EXCEPT ![r] = @ + 1]
  /\ issued' = [issued EXCEPT ![r] = @ + 1]
  /\ UNCHANGED writerVars

(* External: the ack wait of an unacknowledged message expires while the   *)
(* message waits in the client, and JetStream sends it a second time.      *)
AckWaitExpires(r) ==
  /\ stream[r] > 0
  /\ CanIssue
  /\ stream' = [stream EXCEPT ![r] = @ + 1]
  /\ issued' = [issued EXCEPT ![r] = @ + 1]
  /\ UNCHANGED writerVars

(* Mutant of Handle: a full buffer makes the handler wait for room.        *)
HandleWaitsForRoom(r) ==
  LET k == KindOf[r] IN
  /\ process # "down"
  /\ handling[k] = NoRecord
  /\ stream[r] > 0
  /\ BufferLen(k) < BatchSize
  /\ buffer' = [buffer EXCEPT ![r] = @ + 1]
  /\ delivered' = [delivered EXCEPT ![r] = @ + 1]
  /\ handling' = [handling EXCEPT ![k] = r]
  /\ UNCHANGED <<serverVars, sinceFlush, process, table, doubled, lost,
                 unflushed, faults>>

(* _handle_log, _handle_metric, _handle_trace up to `await msg.ack()`.     *)
(* stop() does not unsubscribe: a stopped writer still gets callbacks.     *)
Handle(r) ==
  LET k == KindOf[r] IN
  /\ process # "down"
  /\ handling[k] = NoRecord
  /\ stream[r] > 0
  /\ buffer' = [buffer EXCEPT ![r] = @ + 1]
  /\ delivered' = [delivered EXCEPT ![r] = @ + 1]
  /\ handling' = [handling EXCEPT ![k] = r]
  /\ UNCHANGED <<serverVars, sinceFlush, process, table, doubled, lost,
                 unflushed, faults>>

(* Mutant of FlushWith: a batch whose insert raised is not put back.       *)
FlushForgetsFailedBatch(K, raised, written) ==
  LET batch(r) == IF KindOf[r] \in K THEN buffer[r] ELSE 0
  IN
  /\ buffer' = [r \in Records |-> buffer[r] - batch(r)]
  /\ table' = [r \in Records |->
                  table[r] + IF KindOf[r] \in written THEN batch(r) ELSE 0]
  /\ doubled' = [r \in Records |->
                  doubled[r] + IF KindOf[r] \in raised \intersect written
                               THEN batch(r) ELSE 0]
  /\ sinceFlush' = IF \E r \in Records : batch(r) > 0 THEN 0 ELSE sinceFlush
  /\ unflushed' = (unflushed \ K) \union raised

(* Mutant of FlushWith: the buffer is copied but never cleared.            *)
FlushKeepsBuffer(K, raised, written) ==
  LET batch(r) == IF KindOf[r] \in K THEN buffer[r] ELSE 0
  IN
  /\ table' = [r \in Records |->
                  table[r] + IF KindOf[r] \in written THEN batch(r) ELSE 0]
  /\ doubled' = [r \in Records |->
                  doubled[r] + IF KindOf[r] \in raised \intersect written
                               THEN batch(r) ELSE 0]
  /\ sinceFlush' = IF \E r \in Records : batch(r) > 0 THEN 0 ELSE sinceFlush
  /\ unflushed' = (unflushed \ K) \union raised
  /\ UNCHANGED buffer

(* _flush_logs, _flush_metrics, _flush_traces for the kinds K, one after   *)
(* the other: the batch is copied, the buffer cleared and _last_flush set; *)
(* a failed insert puts the batch back.  `raised` are the kinds whose      *)
(* insert raised, `written` those whose rows reached ClickHouse: an insert *)
(* that times out may have been written all the same.                      *)
FlushWith(K, raised, written) ==
  LET batch(r) == IF KindOf[r] \in K THEN buffer[r] ELSE 0
  IN
  /\ buffer' = [r \in Records |->
                  IF KindOf[r] \in raised THEN buffer[r] ELSE buffer[r] - batch(r)]
  /\ table' = [r \in Records |->
                  table[r] + IF KindOf[r] \in written THEN batch(r) ELSE 0]
  /\ doubled' = [r \in Records |->
                  doubled[r] + IF KindOf[r] \in raised \intersect written
                               THEN batch(r) ELSE 0]
  /\ sinceFlush' = IF \E r \in Records : batch(r) > 0 THEN 0 ELSE sinceFlush
  /\ unflushed' = (unflushed \ K) \union raised

Flush(K) ==
  \/ /\ FlushWith(K, {}, K)
     /\ UNCHANGED faults
  \/ /\ Fault
     /\ \E raised \in SUBSET NonEmpty(K), written \in SUBSET K :
          /\ raised # {}
          /\ K \ raised \subseteq written
          /\ FlushWith(K, raised, written)

ShouldFlush(k) == BufferLen(k) >= BatchSize \/ sinceFlush >= FlushInterval

FlushIfDue(k) ==
  IF ShouldFlush(k)
  THEN Flush({k})
  ELSE UNCHANGED <<buffer, table, doubled, sinceFlush, unflushed, faults>>

(* msg.ack() returns and the rest of the handler runs.                     *)
AckReturns(k) ==
  /\ handling[k] # NoRecord
  /\ handling' = [handling EXCEPT ![k] = NoRecord]
  /\ stream' = [stream EXCEPT ![handling[k]] = @ - 1]
  /\ FlushIfDue(k)
  /\ UNCHANGED <<issued, process, delivered, lost>>

(* msg.ack() returns but the server never sees it: JetStream redelivers.   *)
(* The flush after it runs, and may fail in its turn.                      *)
AckLost(k) ==
  /\ handling[k] # NoRecord
  /\ Fault
  /\ handling' = [handling EXCEPT ![k] = NoRecord]
  /\ IF ShouldFlush(k)
     THEN \E raised \in SUBSET NonEmpty({k}), written \in SUBSET {k} :
            /\ {k} \ raised \subseteq written
            /\ FlushWith({k}, raised, written)
     ELSE UNCHANGED <<buffer, table, doubled, sinceFlush, unflushed>>
  /\ UNCHANGED <<serverVars, process, delivered, lost>>

(* msg.ack() raises: the record stays in the buffer, no flush is tried and *)
(* JetStream redelivers.                                                   *)
AckRaises(k) ==
  /\ handling[k] # NoRecord
  /\ Fault
  /\ handling' = [handling EXCEPT ![k] = NoRecord]
  /\ unflushed' = unflushed \union {k}
  /\ UNCHANGED <<serverVars, buffer, table, doubled, sinceFlush, process,
                 delivered, lost>>

Tick ==
  /\ sinceFlush < FlushInterval
  /\ sinceFlush' = sinceFlush + 1
  /\ UNCHANGED <<serverVars, buffer, handling, process, table, delivered,
                 doubled, lost, unflushed, faults>>

(* stop(): the three flushes; nothing suspends in between.                 *)
Stop ==
  /\ process = "running"
  /\ Fault
  /\ process' = "stopped"
  /\ \E raised \in SUBSET NonEmpty(Kinds), written \in SUBSET Kinds :
       /\ Kinds \ raised \subseteq written
       /\ FlushWith(Kinds, raised, written)
  /\ UNCHANGED <<serverVars, handling, delivered, lost>>

(* The process ends, in order after stop() or by a crash: its memory goes. *)
EndProcess ==
  /\ process' = "down"
  /\ lost' = [r \in Records |-> lost[r] + buffer[r]]
  /\ buffer' = Nothing
  /\ handling' = [k \in Kinds |-> NoRecord]
  /\ unflushed' = {}
  /\ UNCHANGED <<serverVars, sinceFlush, table, delivered, doubled>>

Exit == process = "stopped" /\ EndProcess /\ UNCHANGED faults
Crash == process # "down" /\ Fault /\ EndProcess

(* Mutant of Restart: the new process never subscribes.                    *)
RestartDoesNotSubscribe ==
  /\ process = "down"
  /\ sinceFlush' = 0
  /\ UNCHANGED <<serverVars, buffer, handling, process, table, delivered,
                 doubled, lost, unflushed, faults>>

(* A new StorageWriter: __init__ and start() resume the durable consumers. *)
Restart ==
  /\ process = "down"
  /\ process' = "running"
  /\ sinceFlush' = 0
  /\ UNCHANGED <<serverVars, buffer, handling, table, delivered, doubled,
                 lost, unflushed, faults>>

WriterNext ==
  \/ \E r \in Records : Handle(r)
  \/ \E k \in Kinds : AckReturns(k) \/ AckLost(k) \/ AckRaises(k)
  \/ Tick
  \/ Stop
  \/ Exit
  \/ Crash
  \/ Restart

ServerNext == \E r \in Records : AckWaitExpires(r)

Next == WriterNext \/ ServerNext \/ \E r \in Records : Publish(r)

(* JetStream keeps delivering what is not acknowledged, awaited acks come  *)
(* back, time passes, and a process that ended is started again.  Nothing  *)
(* obliges anyone to publish, to stop the writer or to break anything.     *)
(* A subscription delivers in stream order, so no record waits for ever    *)
(* behind others: strong fairness per record.                              *)
WriterFairness ==
  /\ \A r \in Records : SF_vars(Handle(r))
  /\ \A k \in Kinds : WF_vars(AckReturns(k))
  /\ WF_vars(Tick)
  /\ WF_vars(Exit)
  /\ WF_vars(Restart)

Spec == Init /\ [][Next]_vars
FairSpec == Spec /\ WriterFairness

-----------------------------------------------------------------------------
(* Every copy a handler was given, plus every row a raising insert wrote   *)
(* all the same, is in a buffer, in ClickHouse, or was in memory when the  *)
(* process ended: the clear, insert and re-queue of _flush_* neither drops *)
(* nor multiplies a record, whatever the handlers of other kinds do while  *)
(* an ack is awaited.                                                      *)
EveryCopyAccountedFor ==
  \A r \in Records :
    delivered[r] + doubled[r] = buffer[r] + table[r] + lost[r]

Settled(r) == issued[r] - stream[r]
InHandler(r) == IF handling[KindOf[r]] = r THEN 1 ELSE 0

(* JetStream gives up a copy only after the writer has taken one: the acks *)
(* the server has seen, and the one being awaited, never outnumber the     *)
(* copies in a buffer, in ClickHouse or lost with the process.             *)
AckFollowsCustody ==
  \A r \in Records :
    Settled(r) + InHandler(r) <= buffer[r] + table[r] + lost[r]

(* A buffer reaches BATCH_SIZE only while its handler is running, or after *)
(* a flush that failed or that a failed ack skipped: otherwise _handle_*   *)
(* has flushed it.                                                         *)
BufferStaysBelowBatch ==
  \A k \in Kinds :
    (handling[k] = NoRecord /\ k \notin unflushed) => BufferLen(k) < BatchSize

(* The writer keeps what it takes, takes it before it lets JetStream give  *)
(* it up, and passes it on in batches.                                     *)
WriterKeepsCopies ==
  EveryCopyAccountedFor /\ AckFollowsCustody /\ BufferStaysBelowBatch

(* Once faults stop, JetStream is eventually owed nothing: whatever is     *)
(* redelivered is handled and acknowledged, across restarts.               *)
EveryDeliveryIsSettled ==
  \A r \in Records : stream[r] > 0 ~> stream[r] = 0

(* docs/prds/PRD-01-data-ingestion.md promises at-least-once delivery of   *)
(* logs: a published record is owed, buffered or stored, whatever happens. *)
AtLeastOnce ==
  \A r \in Records :
    issued[r] > 0 => stream[r] + buffer[r] + table[r] > 0

=============================================================================
