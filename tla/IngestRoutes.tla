------------------------------ MODULE IngestRoutes ----------------------------
(***************************************************************************)
(* api/routes/ingest.py, api/routes/compat.py and grpc/server.py: how one  *)
(* tenant's requests get to the pipeline.  The rate limit is checked, the  *)
(* whole body is converted to records, and only then is the pipeline       *)
(* called; what it does with the records is IngestionPipeline's subject,   *)
(* here it accepts any number of them, and may raise where that does.  The *)
(* check is RateLimiter's subject, here it lets a request through or not.  *)
(* A line or an item of a body is told by what the code makes of it.       *)
(***************************************************************************)
EXTENDS Integers, Sequences, SequencesExt, FiniteSetsExt

CONSTANTS
  BulkBodies,    \* bodies of _bulk, as sequences of lines
  LineBodies,    \* bodies of the other endpoints, as sequences of entries
  Exports        \* OTLP exports: [signal, items]

(* What a line of a _bulk body is.                                         *)
BulkLines == {"index", "doc", "delete", "update", "junk"}

ASSUME IngestAssumption ==
  /\ BulkBodies \subseteq Seq(BulkLines)
  /\ \A e \in Exports : e.signal \in {"logs", "metrics", "traces"}

VARIABLE lastCall      \* the request just handled, until its response is sent

ingestVars == <<lastCall>>

NoCall == [route |-> "none", body |-> <<>>, taken |-> <<>>, accepted |-> 0, answer |-> 0]

IngestInit == lastCall = NoCall

-----------------------------------------------------------------------------
IngestReply(route, body, taken, n, answer) ==
  /\ lastCall = NoCall
  /\ lastCall' = [route |-> route, body |-> body, taken |-> taken, accepted |-> n, answer |-> answer]
Failed(route, body, answer) == IngestReply(route, body, <<>>, 0, answer)

(* check_rate_limit as the routes see it, before they look at the body.    *)
CheckRateLimit(route, body, serve) == Failed(route, body, 429) \/ serve

(* The pipeline has accepted n of the records.                             *)
Deliver(route, body, taken) ==
  \E n \in 0..Len(taken) : IngestReply(route, body, taken, n, 200)

(* A span that ends later than a datetime can be makes process_traces      *)
(* raise when the direct writer builds its rows, after what was accepted   *)
(* is published.                                                           *)
RaiseAfter(route, body, taken, answer) ==
  \E n \in 1..Len(taken) : IngestReply(route, body, taken, n, answer)

Positions(body) == [i \in 1..Len(body) |-> i]
Has(body, line) == \E i \in DOMAIN body : body[i] = line
Keep(body, good) == SelectSeq(Positions(body), LAMBDA i : body[i] \in good)

(* The JSON routes: the models refuse a body before the route runs, an     *)
(* event may still have a severity that is none, and a span any end.       *)
IngestJson(body) ==
  \/ Failed("json", body, 422)
  \/ CheckRateLimit("json", body,
       IF Has(body, "badlevel") THEN Failed("json", body, 500)
       ELSE \/ Deliver("json", body, Keep(body, {"entry", "farend"}))
            \/ /\ Has(body, "farend")
               /\ RaiseAfter("json", body, Keep(body, {"entry", "farend"}), 500))

(* splunk_hec_ingest: a line that is not JSON is skipped, a time that is   *)
(* no number ends the request.                                             *)
SplunkHec(body) ==
  CheckRateLimit("hec", body,
    LET events == Keep(body, {"entry", "badlevel", "farend"})
    IN  IF Has(body, "badtime") THEN Failed("hec", body, 500)
        ELSE IF events = <<>> THEN Failed("hec", body, 400)
        ELSE Deliver("hec", body, events))

(* loki_push: a body that is not JSON is refused, an entry without a line  *)
(* is skipped, a level that is none ends the request; a time that is no    *)
(* number is the present.                                                  *)
LokiPush(body) ==
  CheckRateLimit("loki", body,
    \/ Failed("loki", body, 400)
    \/ LET entries == Keep(body, {"entry", "badtime", "farend"})
       IN  IF Has(body, "badlevel") THEN Failed("loki", body, 500)
           ELSE IF entries = <<>> THEN Failed("loki", body, 400)
           ELSE Deliver("loki", body, entries))

(* Mutant of NextLine: an update has no document of its own.               *)
NextLineForgetsUpdate(at, i, line) ==
  CASE at.expect = "action" /\ line \in {"junk", "delete", "update"} -> at
    [] at.expect = "action" /\ line \in {"index", "doc"} -> [at EXCEPT !.expect = "document"]
    [] at.expect = "document" /\ line = "junk" -> [at EXCEPT !.expect = "action"]
    [] OTHER -> [expect |-> "action", docs |-> Append(at.docs, i)]

(* One line of a _bulk body.  A line that is not JSON is skipped where an  *)
(* action is expected, and uses up its action where a document is.         *)
NextLine(at, i, line) ==
  CASE at.expect = "ignored" -> [at EXCEPT !.expect = "action"]
    [] at.expect = "action" /\ line \in {"junk", "delete"} -> at
    [] at.expect = "action" /\ line = "update" -> [at EXCEPT !.expect = "ignored"]
    [] at.expect = "action" /\ line \in {"index", "doc"} -> [at EXCEPT !.expect = "document"]
    [] at.expect = "document" /\ line = "junk" -> [at EXCEPT !.expect = "action"]
    [] OTHER -> [expect |-> "action", docs |-> Append(at.docs, i)]

(* elasticsearch_bulk_ingest                                               *)
Documents(body) ==
  FoldLeft(LAMBDA at, i : NextLine(at, i, body[i]),
           [expect |-> "action", docs |-> <<>>], Positions(body)).docs

ElasticsearchBulk(body) ==
  CheckRateLimit("bulk", body,
    IF Documents(body) = <<>> THEN Failed("bulk", body, 400)
    ELSE Deliver("bulk", body, Documents(body)))

(* prometheus_remote_write: prometheus_pb2 is not part of the program, so  *)
(* nothing is parsed, nothing is stored, and the answer is 204.            *)
PrometheusWrite(body) ==
  CheckRateLimit("prometheus", body, IngestReply("prometheus", body, <<>>, 0, 204))

-----------------------------------------------------------------------------
Transports == {"grpc", "protobuf", "json"}
RangeName == <<"TRACE", "DEBUG", "INFO", "WARN", "ERROR", "FATAL">>
RangeStarts == {1, 5, 9, 13, 17, 21}

(* _SEVERITY_MAP of the gRPC server has all 24 numbers, severity_map of    *)
(* the HTTP routes the first of each range.                                *)
Severity(transport, n) ==
  IF n \in (IF transport = "grpc" THEN 1..24 ELSE RangeStarts)
  THEN RangeName[((n - 1) \div 4) + 1] ELSE "INFO"

(* _extract_value, _otlp_anyvalue, _extract_json_attrs: only gRPC unpacks  *)
(* lists, maps and bytes; in JSON an integer is a string and stays one,    *)
(* and the or-chain misses what is falsy.                                  *)
AttributeValue(transport, v) ==
  CASE v \in {"list", "map", "bytes"} /\ transport # "grpc" -> <<"str of the wrapper", transport>>
    [] v = "falsy" /\ transport = "json" -> <<"str of the wrapper", transport>>
    [] v = "integer" /\ transport = "json" -> <<"str of the integer">>
    [] OTHER -> <<v>>

(* Labels are made strings.                                                *)
Label(transport, v) ==
  IF v = "integer" THEN <<"str of the integer">> ELSE AttributeValue(transport, v)

(* A body that is no text is printed: the message or the JSON object.      *)
BodyText(transport, body) == IF body = "text" THEN <<body>> ELSE <<"str", transport = "json">>

(* Ids are bytes, and none when empty, except in JSON, where they are kept *)
(* as they were sent.                                                      *)
Identifier(transport, id) ==
  CASE id = "empty" /\ transport # "json" -> "none"
    [] id = "upper case" /\ transport # "json" -> "lower case"
    [] OTHER -> id

LogOf(transport, item) ==
  <<[severity  |-> Severity(transport, item.severity),
     body      |-> BodyText(transport, item.body),
     attribute |-> AttributeValue(transport, item.attribute),
     trace     |-> Identifier(transport, item.trace)]>>

(* Each of the three converters knows other kinds of metric, and only gRPC *)
(* keeps the unit and the description.                                     *)
PointOf(transport, item) ==
  LET point(type, value) ==
        <<[type |-> type, value |-> value, label |-> Label(transport, item.label),
           described |-> transport = "grpc" /\ item.described]>>
  IN  CASE item.kind = "gauge" -> point("gauge", item.value)
        [] item.kind = "sum" -> point("counter", item.value)
        [] item.kind = "histogram" ->
             point("histogram", IF transport = "protobuf" THEN item.value ELSE 0)
        [] item.kind = "summary" /\ transport = "grpc" -> point("summary", 0)
        [] OTHER -> <<>>

(* kind_map and status_map; only gRPC keeps the links.                     *)
SpanOf(transport, item) ==
  <<[kind   |-> IF item.kind \in 1..5
                THEN <<"INTERNAL", "SERVER", "CLIENT", "PRODUCER", "CONSUMER">>[item.kind]
                ELSE "INTERNAL",
     status |-> IF item.status \in 0..2 THEN <<"UNSET", "OK", "ERROR">>[item.status + 1] ELSE "UNSET",
     parent |-> Identifier(transport, item.parent),
     attribute |-> AttributeValue(transport, item.attribute),
     links  |-> transport = "grpc" /\ item.links]>>

Convert(transport, export) ==
  LET record(item) == CASE export.signal = "logs" -> LogOf(transport, item)
                        [] export.signal = "metrics" -> PointOf(transport, item)
                        [] export.signal = "traces" -> SpanOf(transport, item)
  IN  FlattenSeq([i \in DOMAIN export.items |-> record(export.items[i])])

(* Nanoseconds in 64 bits end within what a datetime can be, an end in     *)
(* JSON need not.                                                          *)
EndsTooLate(transport, export) ==
  transport = "json" /\ export.signal = "traces" /\ \E i \in DOMAIN export.items : export.items[i].farend

(* otlp_logs, otlp_metrics, otlp_traces: a body that cannot be converted,  *)
(* one of which the pipeline accepts nothing, and one on which it raises,  *)
(* are bad requests.                                                       *)
OtlpHttp(transport, export) ==
  CheckRateLimit("otlp", <<transport, export>>,
    \/ Failed("otlp", <<transport, export>>, 400)
    \/ LET taken == Convert(transport, export)
       IN  \/ \E n \in 0..Len(taken) :
                IngestReply("otlp", <<transport, export>>, taken, n, IF n > 0 THEN 200 ELSE 400)
           \/ /\ EndsTooLate(transport, export)
              /\ RaiseAfter("otlp", <<transport, export>>, taken, 400))

(* Export of the gRPC servicers: no rate limit, and always an answer that  *)
(* tells how many records were rejected.                                   *)
OtlpGrpc(export) == Deliver("otlp", <<"grpc", export>>, Convert("grpc", export))

Respond == lastCall # NoCall /\ lastCall' = NoCall

IngestNext ==
  \/ \E body \in LineBodies :
       IngestJson(body) \/ SplunkHec(body) \/ LokiPush(body) \/ PrometheusWrite(body)
  \/ \E body \in BulkBodies : ElasticsearchBulk(body)
  \/ \E export \in Exports :
       OtlpGrpc(export) \/ \E transport \in Transports \ {"grpc"} : OtlpHttp(transport, export)
  \/ Respond

IngestSpec == IngestInit /\ [][IngestNext]_ingestVars

-----------------------------------------------------------------------------
(* What a client is told failed left nothing in the pipeline, so that it   *)
(* can send the batch again; a batch of spans, one of which ends beyond    *)
(* the year 9999, may be answered with a failure after it is published.    *)
EndsBeyondDatetime ==
  \/ lastCall.route = "json" /\ Has(lastCall.body, "farend")
  \/ lastCall.route = "otlp" /\ EndsTooLate(lastCall.body[1], lastCall.body[2])
FailedCallsLeaveNothing ==
  lastCall.answer >= 400 => lastCall.accepted = 0 \/ EndsBeyondDatetime

(* compat.py 107-111: of a body of well-formed operations the documents of *)
(* index and create are taken, each once and in order; delete and update   *)
(* are ignored, the document of an update included.                        *)
OperationAt(body, i) ==
  CASE body[i] = "delete" -> 1
    [] body[i] \in {"index", "update"} /\ i < Len(body) /\ body[i + 1] \in {"doc", "junk"} -> 2
    [] OTHER -> 0
WellFormed(body) ==
  \E starts \in SUBSET (1..Len(body)) :
    /\ \A i \in starts : OperationAt(body, i) # 0
    /\ \A i \in 1..Len(body) :
         Cardinality({s \in starts : s <= i /\ i < s + OperationAt(body, s)}) = 1
BulkTakesDocuments ==
  (lastCall.route = "bulk" /\ lastCall.answer = 200 /\ WellFormed(lastCall.body)) =>
    LET body == lastCall.body
        sent == {i \in 2..Len(body) : body[i] = "doc" /\ body[i - 1] = "index"}
    IN  /\ {lastCall.taken[n] : n \in DOMAIN lastCall.taken} = sent
        /\ \A n \in 2..Len(lastCall.taken) : lastCall.taken[n - 1] < lastCall.taken[n]

(* The three ways to send an export lead to the same records when it keeps *)
(* to what they have in common: text in bodies, severities that begin a    *)
(* range, attributes that are text or numbers and truths other than        *)
(* integers and nothing, ids in lower case or left out, gauges and sums    *)
(* without unit and description, spans without links.                      *)
PlainAttributes == {"text", "fraction", "truth"}
PlainIds == {"none", "lower case"}
Common(export) ==
  \A i \in DOMAIN export.items :
    LET item == export.items[i]
    IN  CASE export.signal = "logs" ->
               /\ item.severity \in RangeStarts \union {0} /\ item.body = "text"
               /\ item.attribute \in PlainAttributes /\ item.trace \in PlainIds
          [] export.signal = "metrics" ->
               /\ item.kind \notin {"histogram", "summary"} /\ ~item.described
               /\ item.label \in PlainAttributes \union {"integer"}
          [] export.signal = "traces" ->
               /\ item.parent \in PlainIds /\ item.attribute \in PlainAttributes /\ ~item.links
TransportsAgree ==
  lastCall.route = "otlp" =>
    LET export == lastCall.body[2]
    IN  Common(export) => \A t \in Transports : Convert(t, export) = Convert("grpc", export)

BatchesAreUnderstood == FailedCallsLeaveNothing /\ BulkTakesDocuments /\ TransportsAgree

=============================================================================
