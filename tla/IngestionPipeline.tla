-------------------------- MODULE IngestionPipeline --------------------------
(***************************************************************************)
(* services/ingestion/pipeline.py and router.py: what happens to the       *)
(* records of one ingest request (process_logs, process_metrics,           *)
(* process_traces) on their way to NATS JetStream and ClickHouse.          *)
(*                                                                         *)
(* Requests run concurrently in one event loop.  Validation, enrichment    *)
(* and redaction never suspend (no enricher awaits anything), so they are  *)
(* one action with the start of routing; the suspension points are the     *)
(* JetStream publishes of _publish_batch and route_dlq.  After the last of *)
(* them the counters, the direct ClickHouse write and the response follow  *)
(* without suspending.  The direct write may raise, and then the request   *)
(* fails although its records were routed.                                 *)
(***************************************************************************)
EXTENDS Integers, FiniteSets

CONSTANTS
  Requests,   \* ingest requests; a client's retry is a request of its own
  Records,    \* log records, metric points and spans
  RecordsOf,  \* [Requests -> SUBSET Records]: the body of a request
  Logs        \* requests on the log endpoints: only these are dead-lettered,
              \* and their rows are built without raising

ASSUME PipelineAssumption ==
  /\ RecordsOf \in [Requests -> SUBSET Records]
  /\ Logs \subseteq Requests
  /\ \A r \in Requests : IsFiniteSet(RecordsOf[r])

VARIABLES
  wiring,       \* is there a router, is there a direct writer (set by __init__)
  js,           \* MessageRouter._js is not None
  phase,        \* where process_* is, per request
  accepted,     \* the local list `accepted`, per request
  todo,         \* payloads _publish_batch has not offered yet
  metrics,      \* PipelineMetrics
  parked,       \* IngestionPipeline._buffer, filled when there is no router
  stream,       \* copies of each record JetStream still has to see acknowledged
  issued,       \* copies of each record JetStream was ever asked to deliver
  deadLetters,  \* copies of each record in the dead letter subject
  direct,       \* rows written by DirectWriter
  response,     \* the IngestionResult a client got
  \* history
  offered,      \* records of a request JetStream stored
  dropped,      \* records of a request whose publish failed (logged only)
  refused,      \* requests whose routing raised
  pressed       \* those of them that _check_backpressure turned away

natsVars == <<stream, issued>>
historyVars == <<offered, dropped, refused, pressed>>
pipelineVars == <<wiring, js, phase, accepted, todo, metrics, parked,
                  deadLetters, direct, response, historyVars>>
vars == <<natsVars, pipelineVars>>

NoResponse == [accepted |-> -1, rejected |-> -1]
Raised == [accepted |-> -1, rejected |-> 0]     \* an error, with no counts
Phases == {"idle", "routing", "deadletter", "done", "gone"}
Plus(bag, S) == [m \in Records |-> bag[m] + IF m \in S THEN 1 ELSE 0]
Nothing == [m \in Records |-> 0]

TypeOK ==
  /\ wiring \in [router : BOOLEAN, direct : BOOLEAN]
  /\ js \in BOOLEAN
  /\ phase \in [Requests -> Phases]
  /\ accepted \in [Requests -> SUBSET Records]
  /\ todo \in [Requests -> SUBSET Records]
  /\ metrics \in [accepted : Nat, rejected : Nat, errors : Nat]
  /\ parked \in [Records -> Nat]
  /\ stream \in [Records -> Nat]
  /\ issued \in [Records -> Nat]
  /\ deadLetters \in [Records -> Nat]
  /\ direct \in [Records -> Nat]
  /\ response \in [Requests -> [accepted : Nat, rejected : Nat] \union {NoResponse, Raised}]
  /\ offered \in [Requests -> SUBSET Records]
  /\ dropped \in [Requests -> SUBSET Records]
  /\ refused \in SUBSET Requests
  /\ pressed \in SUBSET refused

PipelineInit ==
  /\ wiring \in [router : BOOLEAN, direct : BOOLEAN]
  /\ js = FALSE
  /\ phase = [r \in Requests |-> "idle"]
  /\ accepted = [r \in Requests |-> {}]
  /\ todo = [r \in Requests |-> {}]
  /\ metrics = [accepted |-> 0, rejected |-> 0, errors |-> 0]
  /\ parked = Nothing
  /\ deadLetters = Nothing
  /\ direct = Nothing
  /\ response = [r \in Requests |-> NoResponse]
  /\ offered = [r \in Requests |-> {}]
  /\ dropped = [r \in Requests |-> {}]
  /\ refused = {}
  /\ pressed = {}

Init == PipelineInit /\ stream = Nothing /\ issued = Nothing

-----------------------------------------------------------------------------
(* The per-record loop: each record is invalid, breaks while it is being   *)
(* processed, or is accepted.                                              *)
Screenings(r) ==
  {[ok |-> ok, broken |-> broken] :
     ok \in SUBSET RecordsOf[r], broken \in SUBSET RecordsOf[r]}

Screened(r, s) ==
  /\ phase[r] = "idle"
  /\ s.ok \intersect s.broken = {}
  /\ accepted' = [accepted EXCEPT ![r] = s.ok]

Counted(ok, rejected, errors) ==
  [accepted |-> metrics.accepted + ok,
   rejected |-> metrics.rejected + rejected,
   errors   |-> metrics.errors + errors]

Invalid(r, s) == Cardinality(RecordsOf[r] \ (s.ok \union s.broken))

(* DirectWriter.write_* swallows a failed insert.                          *)
DirectWrite(S) ==
  \/ wiring.direct /\ direct' = Plus(direct, S)
  \/ UNCHANGED direct

(* ... but building the rows is outside its try: the end of a span is not  *)
(* validated, and one that no datetime can hold ends the request.          *)
RowsRaise(r, ok) == wiring.direct /\ r \notin Logs /\ ok # {}

(* The tail of process_*: write directly, answer with len(accepted).       *)
Finish(r, ok) ==
  /\ phase' = [phase EXCEPT ![r] = "done"]
  /\ \/ /\ IF ok = {} THEN UNCHANGED direct ELSE DirectWrite(ok)
        /\ response' = [response EXCEPT ![r] =
                          [accepted |-> Cardinality(ok),
                           rejected |-> Cardinality(RecordsOf[r]) - Cardinality(ok)]]
     \/ /\ RowsRaise(r, ok)
        /\ response' = [response EXCEPT ![r] = Raised]
        /\ UNCHANGED direct

(* No record passes the loop.                                              *)
ReceiveNothing(r) ==
  /\ \E s \in Screenings(r) :
       /\ Screened(r, s)
       /\ s.ok = {}
       /\ metrics' = Counted(0, Invalid(r, s), Cardinality(s.broken))
       /\ Finish(r, {})
  /\ UNCHANGED <<natsVars, wiring, js, todo, parked, deadLetters, historyVars>>

(* `else: self._buffer.extend(...)`: nothing ever empties that buffer.     *)
ReceiveUnrouted(r) ==
  /\ ~wiring.router
  /\ \E s \in Screenings(r) :
       /\ Screened(r, s)
       /\ s.ok # {}
       /\ metrics' = Counted(Cardinality(s.ok), Invalid(r, s), Cardinality(s.broken))
       /\ parked' = Plus(parked, s.ok)
       /\ Finish(r, s.ok)
  /\ UNCHANGED <<natsVars, wiring, js, todo, deadLetters, historyVars>>

(* _ensure_js: the context is made once, while the client is connected.    *)
EnsureJs == js' \in {js, TRUE}

(* _publish_batch raises before it offers anything: no JetStream, or, with *)
(* it, more than MAX_PENDING_BYTES pending.  Logs go on to route_dlq, which raises  *)
(* at once without JetStream; metrics and traces have no dead letters.     *)
ReceiveRefused(r) ==
  /\ wiring.router
  /\ EnsureJs
  /\ \E s \in Screenings(r) :
       /\ Screened(r, s)
       /\ s.ok # {}
       /\ metrics' = Counted(0, Invalid(r, s),
                             Cardinality(s.broken) + Cardinality(s.ok))
       /\ IF r \in Logs /\ js'
          THEN /\ phase' = [phase EXCEPT ![r] = "deadletter"]
               /\ UNCHANGED <<direct, response>>
          ELSE Finish(r, s.ok)
  /\ refused' = refused \union {r}
  /\ pressed' = IF js' THEN pressed \union {r} ELSE pressed
  /\ UNCHANGED <<natsVars, wiring, todo, parked, deadLetters, offered, dropped>>

(* Mutant of ReceiveRoutable: the client is answered before the publishes. *)
ReceiveAnswersEarly(r) ==
  /\ wiring.router
  /\ js' = TRUE
  /\ \E s \in Screenings(r) :
       /\ Screened(r, s)
       /\ s.ok # {}
       /\ metrics' = Counted(0, Invalid(r, s), Cardinality(s.broken))
       /\ todo' = [todo EXCEPT ![r] = s.ok]
       /\ response' = [response EXCEPT ![r] =
                         [accepted |-> Cardinality(s.ok),
                          rejected |-> Cardinality(RecordsOf[r] \ s.ok)]]
  /\ phase' = [phase EXCEPT ![r] = "routing"]
  /\ UNCHANGED <<natsVars, wiring, parked, deadLetters, direct, historyVars>>

(* _publish_batch gets as far as awaiting the first publish.               *)
ReceiveRoutable(r) ==
  /\ wiring.router
  /\ js' = TRUE
  /\ \E s \in Screenings(r) :
       /\ Screened(r, s)
       /\ s.ok # {}
       /\ metrics' = Counted(0, Invalid(r, s), Cardinality(s.broken))
       /\ todo' = [todo EXCEPT ![r] = s.ok]
  /\ phase' = [phase EXCEPT ![r] = "routing"]
  /\ UNCHANGED <<natsVars, wiring, parked, deadLetters, direct, response,
                 historyVars>>

(* Mutant of AfterOffer: every publish counts the request as accepted.     *)
AfterOfferCountsAgain(r, m) ==
  /\ phase[r] = "routing"
  /\ m \in todo[r]
  /\ todo' = [todo EXCEPT ![r] = @ \ {m}]
  /\ metrics' = Counted(Cardinality(accepted[r]), 0, 0)
  /\ IF todo'[r] = {}
     THEN Finish(r, accepted[r])
     ELSE UNCHANGED <<direct, phase, response>>
  /\ UNCHANGED <<wiring, js, accepted, parked, deadLetters, refused, pressed>>

(* Mutant of AfterOffer: only a request of several payloads is finished.   *)
AfterOfferAwaitsMore(r, m) ==
  /\ phase[r] = "routing"
  /\ m \in todo[r]
  /\ todo' = [todo EXCEPT ![r] = @ \ {m}]
  /\ IF todo'[r] = {} /\ Cardinality(accepted[r]) > 1
     THEN /\ metrics' = Counted(Cardinality(accepted[r]), 0, 0)
          /\ Finish(r, accepted[r])
     ELSE UNCHANGED <<metrics, direct, phase, response>>
  /\ UNCHANGED <<wiring, js, accepted, parked, deadLetters, refused, pressed>>

(* One publish of the loop returns or raises; a failure is only logged.    *)
(* After the last one the request is counted as accepted all the same.     *)
AfterOffer(r, m) ==
  /\ phase[r] = "routing"
  /\ m \in todo[r]
  /\ todo' = [todo EXCEPT ![r] = @ \ {m}]
  /\ IF todo'[r] = {}
     THEN /\ metrics' = Counted(Cardinality(accepted[r]), 0, 0)
          /\ Finish(r, accepted[r])
     ELSE UNCHANGED <<metrics, direct, phase, response>>
  /\ UNCHANGED <<wiring, js, accepted, parked, deadLetters, refused, pressed>>

(* JetStream stores the payload, also when its acknowledgement never comes *)
(* back and the publish raises: that is only logged.                       *)
Publish(r, m) ==
  /\ stream' = [stream EXCEPT ![m] = @ + 1]
  /\ issued' = [issued EXCEPT ![m] = @ + 1]
  /\ offered' = [offered EXCEPT ![r] = @ \union {m}]
  /\ AfterOffer(r, m)
  /\ UNCHANGED dropped

PublishFails(r, m) ==
  /\ dropped' = [dropped EXCEPT ![r] = @ \union {m}]
  /\ AfterOffer(r, m)
  /\ UNCHANGED <<natsVars, offered>>

(* Mutant of DeadLetter: the records are published where logs go.          *)
DeadLetterOnLogSubject(r) ==
  /\ phase[r] = "deadletter"
  /\ stream' = Plus(stream, accepted[r])
  /\ issued' = Plus(issued, accepted[r])
  /\ Finish(r, accepted[r])
  /\ UNCHANGED <<wiring, js, accepted, todo, metrics, parked, deadLetters,
                 historyVars>>

(* route_dlq: one envelope with every record, or a logged failure.         *)
DeadLetter(r) ==
  /\ phase[r] = "deadletter"
  /\ deadLetters' \in {deadLetters, Plus(deadLetters, accepted[r])}
  /\ Finish(r, accepted[r])
  /\ UNCHANGED <<natsVars, wiring, js, accepted, todo, metrics, parked,
                 historyVars>>

(* The API process ends; its counters and its parked records go with it.   *)
Crash ==
  /\ \E r \in Requests : phase[r] \notin {"idle", "gone"}
  /\ phase' = [r \in Requests |-> IF phase[r] = "idle" THEN "idle" ELSE "gone"]
  /\ js' = FALSE
  /\ metrics' = [accepted |-> 0, rejected |-> 0, errors |-> 0]
  /\ parked' = Nothing
  /\ todo' = [r \in Requests |-> {}]
  /\ UNCHANGED <<natsVars, wiring, accepted, deadLetters, direct, response,
                 historyVars>>

Receive(r) ==
  \/ ReceiveNothing(r)
  \/ ReceiveUnrouted(r)
  \/ ReceiveRefused(r)
  \/ ReceiveRoutable(r)

Advance(r) ==
  \/ \E m \in RecordsOf[r] : Publish(r, m) \/ PublishFails(r, m)
  \/ DeadLetter(r)

Next ==
  \/ \E r \in Requests : Receive(r) \/ Advance(r)
  \/ Crash

(* A JetStream publish returns or times out, so a request in flight goes   *)
(* on; nothing obliges a client to send one.                               *)
PipelineFairness == \A r \in Requests : WF_vars(Advance(r))

Spec == Init /\ [][Next]_vars
FairSpec == Spec /\ PipelineFairness
-----------------------------------------------------------------------------
(* The records of a request that the counters have seen so far.            *)
CountedOf(r) ==
  CASE phase[r] \in {"idle", "gone"} -> {}
    [] phase[r] = "routing" -> RecordsOf[r] \ accepted[r]
    [] phase[r] \in {"deadletter", "done"} -> RecordsOf[r]

AllCounted == {p \in Requests \X Records : p[2] \in CountedOf(p[1])}

(* PipelineMetrics counts every record of every request exactly once, as   *)
(* accepted, rejected or an error, while requests interleave at their      *)
(* publishes and process_* updates the shared counters around them.        *)
EveryRecordCountedOnce ==
  metrics.accepted + metrics.rejected + metrics.errors = Cardinality(AllCounted)

(* A request is dead-lettered only as a whole: none of its records has     *)
(* been offered to the stream, so replaying the dead letters cannot        *)
(* duplicate what _publish_batch already published.                        *)
DeadLettersWereNeverOffered ==
  \A r \in refused :
    /\ offered[r] \union dropped[r] = {}
    /\ phase[r] # "routing"

(* Routing offers each accepted payload exactly once: when the request is  *)
(* answered none was skipped by the batching of _publish_batch, and the    *)
(* stream got one copy per request that published the record.              *)
EveryPayloadOfferedOnce ==
  /\ \A r \in Requests :
       /\ offered[r] \intersect dropped[r] = {}
       /\ (phase[r] = "done" /\ wiring.router /\ r \notin refused)
            => offered[r] \union dropped[r] = accepted[r]
  /\ \A m \in Records :
       issued[m] = Cardinality({r \in Requests : m \in offered[r]})

(* What holds of the shared state in every interleaving of the requests:   *)
(* the counters of PipelineMetrics, the dead letters and the offers agree. *)
PipelineInv ==
  TypeOK /\ EveryRecordCountedOnce
         /\ DeadLettersWereNeverOffered /\ EveryPayloadOfferedOnce

(* A request that was received is answered, with its counts or with an     *)
(* error, unless the process ends.                                         *)
EveryRequestIsAnswered ==
  \A r \in Requests :
    phase[r] \in {"routing", "deadletter"} ~> phase[r] \in {"done", "gone"}

(* docs/prds/PRD-01-data-ingestion.md: beyond the queue depth threshold    *)
(* the gateway answers 429 and the client retries, so a request turned     *)
(* away for backpressure does not tell the client its records are accepted.*)
RefusalIsReported ==
  \A r \in pressed : response[r].accepted <= 0

(* The contract of one request, implemented by the pipeline.               *)
FateOf(r, m) ==
  IF m \notin RecordsOf[r] \/ phase[r] = "idle" THEN "unknown"
  ELSE IF m \notin accepted[r] THEN "rejected"
  ELSE IF m \in offered[r] THEN "queued"
  ELSE IF m \in dropped[r] THEN "dropped"
  ELSE IF r \in refused THEN "refused"
  ELSE IF ~wiring.router THEN "parked"
  ELSE "unknown"

Contract == INSTANCE IngestionContract
  WITH fate <- [r \in Requests |-> [m \in Records |-> FateOf(r, m)]],
       answer <- [r \in Requests |-> response[r].accepted],
       gone <- {r \in Requests : phase[r] = "gone"}

ImplementsContract == Contract!ContractSpec

=============================================================================
