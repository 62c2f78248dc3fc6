# A verification project for RayOlly

RayOlly is an observability platform: one Python (asyncio, FastAPI) backend that
ingests logs, metrics and traces, moves them through NATS JetStream into
ClickHouse and later to S3, queries them, and runs alerting, synthetic checks
and LLM agents on top. This directory holds TLA+ models of the parts of the
backend that have a protocol or an algorithm to get wrong, TLC configurations
that check them on small instances, and TLAPS proofs of what matters most about
twenty-three of the models and of two of their compositions.
`PROJECT.json` maps every definition to the lines it models.

All paths below without a prefix are under `src/backend/rayolly/`.

## 1. The system

### Processes and how they meet

The API process runs one event loop (the Dockerfile starts one worker). Requests
are tasks of that loop: they interleave at `await` and nowhere else. That single
fact decides the grain of every model here: an action is the code between two
suspension points, and a function that calls only synchronous clients (the
ClickHouse and S3 clients are synchronous) is one action, or a chain of actions
that nothing of its own process can interleave with. The exception is a plain `def` that FastAPI runs in a thread, as it does with the
ingest rate limit of the compatibility routes: there an action is a read or a write of
shared state. Other processes, the broker,
Redis, ClickHouse and S3 are external: they fail, lose answers and answer late.

    request -> api/routes/ingest.py, compat.py, grpc/server.py
            -> IngestionPipeline -> MessageRouter -> NATS JetStream -> StorageWriter -> ClickHouse
                     \-> DirectWriter ------------------------------------------------^
    NATS -> LiveTail -> WebSocket
    LifecycleScheduler -> RetentionEnforcer -> ColdTierWriter -> S3 (and DELETE in ClickHouse)
    query -> rate limit -> Redis cache -> ClickHouse;   ClickHousePool -> ClickHouse
    synthetics routes -> SyntheticScheduler -> one task per monitor -> ClickHouse, NATS, alerts
    alert routes -> PostgreSQL, or a list of the process
    integration routes -> instances of the process -> third parties
    agent routes -> AgentRuntime -> LLM, tools, Redis (short-term memory, conversations)
    pages (data, APM, infrastructure, agents) -> several queries each -> ClickHouse

### Inventory

Status: M modelled, P partly, - not modelled (reasons in section 8 and in
`PROJECT.json`).

| Component | State | Operations | What is hard | What makes it correct | |
|---|---|---|---|---|---|
| Ingestion pipeline, router | counters, `_buffer`, lazily made JetStream context | process_logs/metrics/traces, publish, dead-letter, direct write | requests interleave at publishes; failures are swallowed at three levels; the direct write may raise after the publish | every record has one fate; counters exact; what is dead-lettered was not published | M |
| Storage writer | three buffers, one flush timer | handle, ack, flush, stop | ack before insert, redelivery, failed and doubtful inserts, crash | no copy dropped or invented; ack after custody; everything gets settled | M |
| Storage lifecycle | policies, running flag; rows and objects outside | enforce, archive, purge, erase, change policy, scheduler | two stores without a transaction, deletes that are carried out later, rows that arrive meanwhile, failures, restarts | a row is somewhere until it expires; holds; nothing overwritten | M |
| ClickHouse pool | semaphore, queue, list of clients, closed flag | initialize, acquire, replace, release, close | cancellation, dead connections, failed replacement, close while in use | one owner per client; permits conserved; a permit means a client | M |
| Query engine and cache, rate limit middleware | Redis entries, Redis counters | limit, look up, execute, store | Redis comes and goes on either side of the handler; overlapping misses | answers not older than their time to live; no going backwards; each request answered | P |
| Live tail | subscription, bounded queue, consumer task, generator | subscribe, consume, send, disconnect, unsubscribe | slow client, ack that raises, redelivery, garbage-collected generator | delivered + dropped = matched, in order; everything released | P |
| Integrations | instances of the process | create, test, sync, update, delete, send with retries | answers written after an await to what may be deleted | deleted stays deleted | P |
| Synthetic monitoring | tasks, last status, route registry, stored results | start, stop, add, remove, create, update, delete, check, assert; uptime, incidents, status page | calls overlap while they await a cancelled task; one result read in three ways | registry agrees with the routes; no orphan loop; screens agree with the results | P |
| Agent runtime, conversations | executions, cancel events, Redis memory | execute, stream, chat, background, cancel | timeout or cancel in the middle of a save; LLM never answers; overlapping chats | memory cleaned; verdict final; every execution returns; turns kept | P |
| Agent tools | none | execute_tool | may hang | errors are returned, never raised | P |
| Ingest routes, gRPC | per-tenant window | limit, convert and call the pipeline | checks race in threads, window edges, three transports, paired lines, half-bad bodies | no refusal too early; a failed call left nothing; transports agree | P |
| Alert routes | rules in PostgreSQL and in memory, history | create, list, evaluate | database fails before, while or after a write | a confirmed rule is kept and evaluated | P |
| Objectives of services and agents | events in ClickHouse | value, budget, burn rate, prediction, verdict | four to six queries with traffic between them, empty windows, targets of 100 | verdicts agree; failures only take budget away | P |
| APM: errors, traces, service map | rows in ClickHouse | group, fingerprint, regress, break down, critical path, map, diff | reads torn apart by writes; spans late, twice or never | a regression had been resolved; a breakdown explains its trace; what a map or a change shows has a cause | P |
| Infrastructure | snapshots in ClickHouse | hosts, containers, clusters, clouds: list, detail, issues, cost | "the latest snapshot" is a subquery per read | a filter hides nothing; screens agree | P |
| Data pages (logs, traces, dashboards) | rows | overview, search, health, map | windows relative to a now per query | pages add up | P |
| PromQL parser | none | parse, translate | precedence, parentheses, levels of SQL | what is supported means what it says | P |
| Log patterns (Drain) | prefix tree, patterns | parse | tree and pattern limits, widening | a template stands for its lines; counts add up | M |
| Agent tracing | spans in memory and rows | start, end, flush, waterfall | flush while spans go on, flushes overlap | a waterfall shows recorded spans | M |
| Agent experiments | experiments, assignments, outcomes | create, assign, record, results, conclude | outcomes between two reads, overlapping inquiries, rounding, late mutation | one variant per execution; a winner was found in its samples; no conclusion is lost | M |
| Agent observability | executions, steps, feedback | record, screens | two inserts, a dozen reads | screens add up | P |
| Metric and compatibility pages | none | _bulk; reads | pairing of lines | documents taken once and in order | P |
| PII, marketplace, profiling, log explorer, views, AI statistics, agent accuracy and forecasts, streaming, vendor clients, evaluator and notifier, metadata, authentication, RUM, health, frontend, migrations | | | | | - |

The hazards these parts are exposed to, each at its line, are in
`PROJECT.json` ("hazards") with the property that would catch it, or the reason
why there is none.

## 2. The modules

| Module | Models | Abstraction |
|---|---|---|
| `IngestionContract` | abstract: what one request promises | fate of each record, answer, gone |
| `IngestionPipeline` | `services/ingestion/pipeline.py`, `router.py`, outcomes of `validators.py`, `direct_writer.py` | a record is a name; screening picks valid, broken and invalid records in any combination |
| `StorageWriter` | `services/storage/writer.py`, JetStream's acks and redelivery | buffers and tables are bags (copies per record) |
| `TelemetryPath` | both of them, sharing the JetStream stream | composition, one side moves at a time |
| `StorageLifecycle` | `services/storage/retention.py`, `cold_tier.py`, `scheduler.py`, `api/routes/storage.py` | time in ticks, object keys as records with the fields the code puts in them |
| `AgentRuntime` | `services/agents/runtime.py`, `memory.py`, `api/routes/agents.py` | LLM responses are their stop reason; a history is the sequence of its chats |
| `ConnectionPool` | `services/query/connection_pool.py`, the fair `asyncio.Semaphore` and `Queue` | a client is a name; replacements are fresh names |
| `QueryPath` | `services/query/engine.py`, `api/routes/query.py`, `api/middleware/rate_limit.py` | an answer is the moment it was read |
| `LiveTail` | `services/logging/live_tail.py`, the WebSocket of `api/routes/logs.py` | one connection; a line is its number |
| `Integrations` | `services/integrations/registry.py`, `webhook.py`, `api/routes/integrations.py` | an outcome of a third party is chosen |
| `SyntheticScheduler` | `services/synthetics/scheduler.py`, `api/routes/synthetics.py` | asyncio tasks are a reusable pool of loops |
| `ApiServices` | the five above, one per behaviour | see below |
| `IngestRoutes` | `api/routes/ingest.py`, `compat.py` (_bulk), `grpc/server.py` | an item of a body is told by what the code makes of it |
| `RateLimiter` | `check_rate_limit` of `api/routes/ingest.py`, on the loop and in threads (`compat.py`) | one tenant; the clock in ticks |
| `PromQL` | `services/query/promql_parser.py` | tokens in, columns of nested SQL out |
| `AlertRules` | `api/routes/alert_data.py` | a metric is above its threshold or not |
| `DrainParser` | `services/ai/patterns.py` | the tree is the set of its paths |
| `SyntheticChecks` | `services/synthetics/monitor.py` | results as the fields the screens use |
| `Slo` | `services/apm/slo.py`, `services/agents/slos.py` | events by age band; ratios are pairs; one evaluation at a time |
| `Infrastructure` | `services/infrastructure/*.py`, `api/routes/infrastructure.py` | a report is a set of rows; a screen a program of reads |
| `DataViews` | `api/routes/dashboard.py`, `log_data.py`, `trace_data.py`, `apm_data.py` | a log row is a batch of lines |
| `ErrorTracking` | `services/apm/errors.py` | a message is a sequence of typed tokens |
| `TraceAnalysis` | `services/apm/latency.py` | durations are small numbers |
| `ServiceMap` | `services/apm/service_map.py` | rows come and go, batches of entry spans; one caller who builds map after map |
| `AgentObservability`, `AgentTracing`, `AgentExperiments` | `services/agents/observability.py`, `tracing.py`, `ab_testing.py` and their routes | runs and outcomes stand for several that went alike |
| `AnalysisServices` | `IngestRoutes`, `PromQL`, `AlertRules`, `DrainParser`, `SyntheticChecks`, `Infrastructure`, `DataViews`, `ErrorTracking`, `TraceAnalysis`, `AgentObservability`, `AgentTracing`, one per behaviour | see below |
| `DecisionServices` | `RateLimiter`, `Slo`, `ServiceMap`, `AgentExperiments`, one per behaviour | see below |
| `StorageWriterProofs`, `IngestionPipelineProofs`, `TelemetryPathProofs`, `StorageLifecycleProofs`, `AgentRuntimeProofs` | theorems about the module of that name | |
| `ApiServicesProofs` | theorems about `ConnectionPool`, `QueryPath`, `LiveTail`, `Integrations`, `SyntheticScheduler` and their composition `ApiServices` | |
| `ServiceRulesProofs` | the lemmas on sums, walks and sets that several services need; theorems about `AlertRules`, `RateLimiter`, `IngestRoutes`, `AgentExperiments`, `Slo`, `SyntheticChecks` and `AgentTracing` | |
| `AnalysisServicesProofs` | theorems about `DrainParser`, `ErrorTracking`, `ServiceMap`, `Infrastructure`, `DataViews` and `TraceAnalysis` | |
| `MC*` | small instances for TLC | |

How state and actions correspond to the code:

* **IngestionPipeline.** `phase[r]` is where `process_*` of request `r` is. The
  four `Receive*` actions are the code up to its first suspension, split by how it
  leaves: nothing valid, no router, routing refused (no JetStream, backpressure),
  or routable. `Publish` and `PublishFails` are one turn of the loop of
  `_publish_batch`; the last turn goes on through the counters, the direct write
  and the response (`Finish`) because nothing suspends in between. The direct write of
  metrics and traces builds rows first and may raise out of the handler after the publish
  (`RowsRaise`, `direct_writer.py:134`); the response is then `Raised`. `DeadLetter` is
  `route_dlq`, for logs only; `pressed` remembers which requests met backpressure. A publish may be stored and raise all the same.
* **StorageWriter.** `Handle(r)` is `_handle_*` up to `await msg.ack()`;
  `AckReturns`, `AckLost` and `AckRaises` are how the await ends, each followed in
  the same action by whatever the handler still does, the flush included.
  `FlushWith(K, raised, written)` is the clear, insert and requeue for the kinds
  in `K`: `raised` are the kinds whose insert raised and `written` those whose rows
  reached ClickHouse. A kind may be in both (stored, and the answer got lost), and
  is in at least one.
  `Stop`, `Exit`, `Crash` and `Restart` are the life of the process.
* **StorageLifecycle.** `job.todo` is the list of statements an enforcement or an
  archive still has to run; `Select`, `Put`, `Drop`, `Purge` are the statements,
  `Abort` and `PurgeFails` their failures. `Drop`, `Purge` and `Erase` return when
  ClickHouse has accepted the ALTER TABLE DELETE: the rows are `doomed`, still read by
  everything, until `Mutate` carries it out. `Insert` may come between any two (other
  processes write), routes only when no job is under way (no statement suspends).
* **AgentRuntime.** `pc` is what an execution awaits. `Timeout`, `Interrupt` and
  the failures end the loop through `End`, which is the `except` and `finally` of
  `execute`; `Clear` is its last await.
* **ConnectionPool.** `Enter` takes a permit or joins the line, `Leave` is the
  release with its hand-over, `Checkout*` the three outcomes of the health check,
  and `CancelWaiting` / `CancelGranted` cancellation before and after the permit.
* **QueryPath.** `stage[r]` is the await a request is at: the lookup in Redis or the
  SETEX. The read of ClickHouse blocks the loop and is the end of the lookup's
  action.
* **LiveTail.** `handler`, `generator` and `consumer` are the three coroutines of a
  connection, `inbox` and `unacked` are NATS, and `queue` the `asyncio.Queue`.
* **Integrations.** `Begin*` is a call up to its await, `End*` the rest, which writes
  to the object the call holds (`target`), listed or not. A PUT may set any status, and
  a create may be refused (`CreateRefused`).
* **SyntheticScheduler.** `Update`, `Delete`, ... are the routes up to their await
  of a cancelled loop, `Finish*` what follows it. `Wake`, `Probe`, `Record`,
  `Alert`, `Sleep`, `Unwind` are a monitor's loop.
* **The screens** (`Infrastructure`, `DataViews`, `AgentObservability`, `ErrorTracking`,
  `ServiceMap`, `AgentExperiments`) have one shape: what others write (rows,
  reports, outcomes) comes in at any time, time passes, and a screen that is open
  makes its reads one after the other, each of what is there at that moment. What
  the code computes from the reads is an operator on what they got. `Slo` likewise makes
  the queries of an evaluation one by one, and two inquiries of `AgentExperiments` may
  overlap.
* **RateLimiter.** `BeginCheck` reads the clock, `ReadWindow` the state, `OpenWindow`,
  `CountRequest` and `Refuse` write what follows from what was read. On the event loop
  (`where`) one check is through before the next begins; in threads they race.
* **IngestRoutes.** `RaiseAfter` is a call whose pipeline raises after publishing, when a
  span ends beyond what a datetime can hold (`EndsTooLate`).
* **The algorithms** (`PromQL`, `DrainParser`, `IngestRoutes`, `TraceAnalysis`,
  `SyntheticChecks`) are functions of bounded inputs that the initial state
  or an action chooses. Recursion is by recursive functions and folds; only `PromQL`,
  whose parser descends into trees, has RECURSIVE operators, and nothing is proved about
  it.

`TelemetryPath` instantiates the unchanged modules and identifies only `stream`
and `issued`: what the pipeline publishes is what JetStream delivers.

`ApiServices`, `AnalysisServices` and `DecisionServices` collect services that share no variable with
one another: what one does is the same whatever the others do meanwhile, and no
property relates two of them. A behaviour therefore is that of one service, chosen
at the start (`service`, `analysed`, `deciding`), and the others stay in their initial states. All
interleavings of the calls inside of a service are there; only the useless product
of independent services is not.

## 3. What is checked

Every property was also run against a mutation of the code's model that it must
refute (an operator next to the definition it mutates, commented "Mutant of").
The mutants are not part of any specification. A type invariant is a conjunct of
the invariant of its module (`PipelineInv`, `LifecycleInv`, `RuntimeInv`,
`ApiInv`, ...).

| Run | Question | Properties |
|---|---|---|
| `storage_writer` | does the writer keep and settle every copy? | `WriterKeepsCopies` of three parts: `EveryCopyAccountedFor` (delivered + doubtful rows = buffered + stored + lost with a process), `AckFollowsCustody` (JetStream never gives up more than the writer has taken), `BufferStaysBelowBatch` (a full buffer is only left by a failure). `EveryDeliveryIsSettled` |
| `ingestion_pipeline` | do concurrent requests meet the contract? | `PipelineInv` (counters exact, dead letters never offered, payloads offered once), `EveryRequestIsAnswered`, and `ImplementsContract`: refinement of `IngestionContract` |
| `telemetry_path` | what does the queue path guarantee end to end? | `StoredWasPublished`, `FairWeatherExactlyOnce`, `PublishedIsConsumed` |
| `storage_lifecycle` | where can an aging row be? | `LifecycleInv` (`RowsAccountedFor`; `DoublesAreDoomed`: a row in both tiers is on its way out of ClickHouse, or a call failed), `ExpiredIsPurged` |
| `agent_runtime` | how does an execution end? | `RuntimeInv` (`ReturnedLeavesNoMemory`, `TurnsAreKept`), `OverIsOver`, `EveryExecutionReturns` |
| `api_services` | do services whose calls overlap keep their promises? | pool: `PoolStaysWhole` (`OneOwner`, `PermitsConserved`), `ClosedHandsOutNothing`, `WaitersAreServed`, and `PermitMeansClient` in `ApiInv`; queries: `AnswersAreFresh`, `NeverBackwards`, `QueriesAreAnswered`; tail: `TailIsHonest`, `TailIsReleased`; integrations: `DeletedStaysDeleted`; scheduler: `SchedulerInv` (the registry follows the routes for any races before a stop; exact when calls on a monitor do not overlap), `SchedulerComesToRest` (loops wind down, calls return) |
| `analysis_services` | do the services that translate and show tell one story? | one property per service, named below |
| `decision_services` | are decisions true of something while what they rest on changes? | one property per service, named below |

The properties of `analysis_services`:

* `SupportedExpressionsWork` (PromQL): parentheses decide, arithmetic is kept, and
  averages and the like over a minute become sound SQL. `rate` and `increase` are left
  out: their SQL is refused (section 5).
* `BatchesAreUnderstood`: what is answered as failed left nothing in the pipeline (but
  for spans whose end no datetime can hold), a well-formed _bulk body gives its
  documents once and in order, and the transports of OTLP agree but for the listed
  items: severities inside a range, bodies that are objects, empty or upper case ids,
  attributes that are integers, nothing, lists, maps or bytes, histograms and summaries,
  units and descriptions, links.
* `ConfirmedRuleIsKept`: a confirmed alert rule is evaluated as soon as the store
  that has it is the one that is read.
* `TemplatesStandForTheirLines` (Drain): a template matches every line it absorbed,
  and the counts account for every line while no branch was replaced (the counts of a
  replaced branch are lost).
* `ChecksTellTheTruth`: incidents are runs of failures; uptime, incidents and status
  page agree, except that the page shows 100 % for a target that was never up; of a check
  without an answer only assertions on the response time and the body may pass.
* `ScreensAgree` (infrastructure): list, map and detail give a host one status; a filter
  hides nothing; a host shown as unreachable was silent that long; the costs of a report
  add up to its totals when all of them fit on its list (`LIMIT 50`, `CostLimit`).
* `PagesAddUp` (logs, traces, health): the errors of the top services (`LIMIT 10`,
  `TopLimit`) are all errors only when no service is left out; the two health lists
  differ only where rounding lifts a rate to a threshold; a page torn apart by arrivals
  contradicts itself only up to what arrived.
* `RegressionsAreReal` (errors), also with spans that arrive late.
* `TracesAreExplained`: the critical path follows longest children to a leaf, or the rows
  are each other's ancestors or nested deeper than Python recurses (`MaxDepth`).
* `ObservationsAddUp` (agent screens): the numbers of a screen agree up to what time and
  writers did between its reads; the page of executions only when it is not full
  (`ListLimit`).
* `WaterfallsAreFaithful` (agent tracing): the path of a waterfall is one of
  recorded spans, its time no more than has passed, its cost at most the greatest of each
  span once per flush, and flushed once after the last span ended it is the recording.

The properties of `decision_services`:

* `RateIsBounded`: a request is refused only when as many as the limit were let through
  since the window it saw began, however checks race; checks that never overlap let at
  most twice the limit through in a span of a window's length. When they race no such
  bound holds: counts are lost.
* `BudgetsFollowTraffic` (an action property): a failure never gives budget back, a
  success never takes any; value, budget and prediction of a service agree whatever
  comes between its queries, those of an agent if nothing does.
* `MapsAreCoherent` of three parts, about rows that come and go between the reads:
  `ChangesHaveCauses` (every change told between two maps is a row that moved between the
  reads it compares), `LostEndsCameLater` (an edge lacks a node only for a service without
  entry spans when the nodes were read), `DetailDiffersForACause` (a detail differs from
  the node it was opened from only by rows of that service).
* `ExperimentsAreFair`: an execution keeps its variant; a winner was found in outcomes
  there were, with five executions on both sides; A wins only if its exact average
  leads although rounded ones are compared, B may trail by a unit since it gets the ties;
  no conclusion is lost.

Four runs show that the code and what is said of it disagree:

| Run | Said | Done |
|---|---|---|
| `writer_crash` (`AtLeastOnce`) | PRD-01:631, logs are delivered at least once, by JetStream acknowledgement | `writer.py:55` acknowledges when the records are in memory. A crash before the flush loses them |
| `backpressure` (`RefusalIsReported`) | PRD-01:575-576, beyond the threshold the gateway returns 429 | a request for metrics meets the router's backpressure; `pipeline.py:160` catches it, nothing is published and the client is told its point was accepted |
| `lifecycle_overwrite` (`ArchiveIsKept`) | PRD-02:73, eleven nines of durability on cold storage | the second metrics archive of a day has the key of the first (`cold_tier.py:114`) and replaces it |
| `agent_polling` (`PollingEnds`) | docstring of `invoke_agent`, the id is for polling | the result is stored under another id (`agents.py:211`); the polled one stays PENDING |

### Bounds, and why they are enough

| Run | Instance |
|---|---|
| `storage_writer`, `writer_crash` | two logs and a metric (two records that share a buffer, one that does not), `BatchSize` 2 so that a buffer can be below, at and above it, `FlushInterval` one tick, `MaxIssued` 3 copies (one redelivery beside two records, or two of one), one fault of any sort |
| `ingestion_pipeline`, `backpressure` | a request of two logs, another that repeats one of them, a metrics request; all four wirings |
| `telemetry_path` | a log request and its repetition, three copies, one fault. One record suffices since the properties speak of one record at a time; the interference of others is what `storage_writer` has |
| `storage_lifecycle`, `lifecycle_overwrite` | two rows of the tenant whose turn is second, two tenants, three days, two times of day, two faults (none in the violation, which needs no failure) |
| `agent_runtime`, `agent_polling` | two executions of any two kinds, one conversation, two rounds, one Redis failure |
| `api_services`, pool | three tasks on two clients (one must wait, two can race for what is released) and one replacement |
| ... query | three requests (one stores, one overlaps, one comes after), a search and a natural-language question that share a cache key, limit 2, one outage; `MaxTime` 3 is past the time to live and `MaxLag` 1 a SETEX that comes late |
| ... tail | four lines of which three match, and a queue of two (`MaxRate` 1): the third finds it full; one redelivery or raising ack |
| ... integrations | three calls on two instances (a create, a delete and a call that is late), two attempts of a webhook |
| ... scheduler | a loaded monitor and a created one, two overlapping calls, two loops, two statuses, one location, one stop. One location: the model has the races between rounds; several would add interleavings of `Record` only |
| `analysis_services` | per service: expressions of up to four nodes and chains of four numbers; bodies of up to two operations; two rules and two troubles of the database; lines of four lengths against a tree of two children and depth 2, five of them parsed; three checks from two locations; two arrivals, reports or writes during a screen, so that each of its reads can differ from the one before; lists that hold one service, three costs and five rows, so that they fill up; three spans of a trace with a repetition, `MaxDepth` 2, which three exceed; two spans of an agent, two flushes that may overlap |
| `decision_services`, limit | two requests at a time, windows and limits of 2 over four ticks: the second window opens, counts are lost, requests are refused |
| ... objectives | three events, targets of 50, 90 and 100 %, two moves of the traffic between the queries of an evaluation (one before and one after the query that matters), a window of 48 h |
| ... map | two services that may call each other or themselves, two sorts of entry spans, two rows that come or go at any of the reads of maps and details |
| ... experiments | two executions on either side of an even split, or on one, three outcomes (each enough for a judgement), two inquiries, alike but for who asks (symmetry); rates in thousandths |

@STATES@
every action fires.

A fault bound counts failing calls, lost acknowledgements, stops and crashes
together. Liveness properties are stated of behaviours in which faults end; the
bound is that end.

`CHECK_DEADLOCK FALSE` is used where the system really stops: requests are sent
at most once, or nothing is left to do. The liveness properties say what must
happen before that.

### Fairness

* Tasks that can run do run, since the event loop is first-in first-out: weak
  fairness per task or request (`Get`, `Release`, `Serve`, `LoopStep`, `Resume`,
  `Advance`, and the steps of a tail that its own coroutines make).
* The heartbeat of a tail is a timer (`Heartbeat`), and the event loop closes a
  generator that was garbage collected (`CloseGenerator`). No line, no ack and no
  client is obliged to come.
* JetStream delivers a subscription in stream order and keeps redelivering, so no
  record waits for ever behind others: strong fairness per record (`Handle`).
* The scheduler's sleep ends, although routes run in between: strong fairness of
  `BeginCycle`.
* A process that ended is restarted (`Restart`), as the deployment's restart policy
  does.
* `asyncio.wait_for` fires (`Timeout`). Neither the LLM nor a tool is assumed to
  answer, and no one is obliged to call, publish, stop or break anything.
  Streamed executions have no timeout, and `EveryExecutionReturns` leaves them out.
* `TelemetryPath` repeats the fairness of both parts except that of the timer's
  `Tick`, which none of its properties needs.
* `ApiFairness` is the fairness of the pool, the query path, the tail and the
  scheduler, each while that service runs.

## 4. What is proved

The theorems hold for every value of the constants that meets the named assumption
of their module (`WriterAssumption`, `PoolAssumption`, ...): any records, kinds,
batch size, number of tasks, requests, clients, lines, monitors, tenants and policies.
The assumptions are the types of the constants and what the code's own constants
satisfy. Finiteness is assumed where the code holds the things in memory or in one
trace: requests (`QueryAssumption`, `TelemetryAssumption`), services (`AlertAssumption`),
the span ids of a trace (`TraceAssumption`), the costs of a report (`InfraAssumption`).
`SchedulerAssumption` has a monitor, without which there is no loop to speak of;
`ExperimentAssumption` says that successes are among the executions an outcome stands
for; `InfraAssumption` that sizes are numbers, costs whole numbers of cents, and that a
report names a thing once; `DataAssumption` that a batch of lines is not empty and that
a span is an error or slow or not; `IngestAssumption` that bulk bodies are sequences of
the modelled lines; `DrainAssumption` that a line of a log has a token, that the tree is
deeper than its first level, and that its limits leave room for one child and one pattern.
TLC evaluates all of them in the runs.

Safety properties that the passing runs check and a theorem states:

| Property | Theorem | In |
|---|---|---|
| `WriterKeepsCopies` | `CopiesStayKept` (its parts: `CopiesAccountedFor`, `CustodyBeforeAck`, `BatchesStaySmall`) | `StorageWriterProofs` |
| `PipelineInv`, `ImplementsContract` | `SharedStateIsCoherent`, `PipelineImplementsContract` | `IngestionPipelineProofs` |
| `StoredWasPublished`, `FairWeatherExactlyOnce` | `NothingFromNowhere`, `ExactlyOnceInFairWeather` | `TelemetryPathProofs` |
| `LifecycleInv` | `RowsHaveTheirPlace` | `StorageLifecycleProofs` |
| `RuntimeInv`, `OverIsOver` | `MemoryAndTurns`, `VerdictsStand` | `AgentRuntimeProofs` |
| `PoolStaysWhole`, `ClosedHandsOutNothing` | `PoolIsWhole` (its parts: `ClientsHaveOneOwner`, `PermitsAreConserved`), `ClosedIsClosed` | `ApiServicesProofs` |
| `AnswersAreFresh`, `NeverBackwards` | `AnswersStayFresh`, `AnswersStayMonotone` | `ApiServicesProofs` |
| `TailIsHonest`, `DeletedStaysDeleted`, `SchedulerInv`, `ApiInv` | `Honest`, `StaysDeleted`, `RegistryIsExact`, `ApiInvariant` | `ApiServicesProofs` |
| `ConfirmedRuleIsKept`, `RateIsBounded`, `BatchesAreUnderstood` | `ConfirmedRulesStay`, `RateStaysBounded`, `CallsAreUnderstood` | `ServiceRulesProofs` |
| `ExperimentsAreFair`, `BudgetsFollowTraffic` | `ExperimentsStayFair`, `BudgetsStayTrue` | `ServiceRulesProofs` |
| `ChecksTellTheTruth`, `WaterfallsAreFaithful` | `ChecksStayTrue`, `WaterfallsStayFaithful` | `ServiceRulesProofs` |
| `TemplatesStandForTheirLines`, `RegressionsAreReal`, `MapsAreCoherent` | `TemplatesStayTrue`, `RegressionsStayReal`, `MapsStayCoherent` | `AnalysisServicesProofs` |
| `ScreensAgree`, `PagesAddUp`, `TracesAreExplained` | `ScreensStayTrue`, `PagesStayTrue`, `TracesStayExplained` | `AnalysisServicesProofs` |

**StorageWriterProofs.** `IInv` is the type, the two invariants of interest and
two facts they need. `HandlersKeepToTheirKind` says that a handler works on a
record of its kind, so that two handlers awaiting their acks never settle the
same delivery. `HandledIsOwed` says that the delivery an ack will settle has not been
settled by anything else; without it `AckReturns` could take the server's count
below zero. The central lemma, `FlushWithOutcome`, says that any flush conserves
copies: what leaves the buffer is in the table, and what is both requeued and
stored is counted as doubled. Each action is then arithmetic on one record.
`BatchesStaySmall` counts a buffer as the set of its copies (`CopiesIn`): a message
adds one copy, a flush empties the buffer or is a failure, and since a handler that has
not come back keeps its kind from being handled again, a full buffer has such a handler
or a failure behind it. Further results: `TypeCorrect`, `HandledOwed` and `BuffersDrain` (a
copy leaves a buffer into ClickHouse or with the process).

**IngestionPipelineProofs.** `Progress` says of each request, at each of its awaits,
where its records are: an accepted one is still to be offered, was offered, or was
dropped, never two of these, and a refused request has offered none. With it every
step of `process_*` is a step or a stutter of `IngestionContract`
(`PipelineImplementsContract`, one lemma per way of moving on): a record that gets
a fate had none, and the answer is given when no record is pending.
`DeadLettersAreFresh`: what goes to the dead letter queue was never offered to the
stream. `SharedStateIsCoherent` is about what all requests share. A counter is the size
of a set, the pairs of a request and a record it counted (`AllCounted`), so that the
actions of one request add to it what they count and leave the pairs of all others
alone; and JetStream holds a record at most as often as requests offered it
(`IssuedByPublishers`).

**TelemetryPathProofs.** The end-to-end properties of pipeline and writer together need
facts about both. `NothingUnpublished`: of a record that no request offered there is no
copy in the stream, a buffer, the table or among the lost; every move of the writer
takes a copy from a place where there is one, which for the acks is `HandlersOwe`.
`FairCopies`: as long as nothing failed, what is unsettled (less the copy in a
handler, which is in the buffer already), buffered and stored adds up to what was
published.

**ApiServicesProofs, pool.** The invariant has two halves. `LineOK` is about the
semaphore: permits are conserved, the line holds exactly the waiting tasks, each
once, and nobody waits while a permit is free. The second part is what makes the
hand-over in `Leave` give the permit to a task that wants it. Two lemmas on
sequences (`RemoveAtLine`, `TailLine`) carry the cancellations. `ClientsOK` is
about the clients: `Ownership` (in the queue, or with one task), and that only
created clients circulate, so that a fresh replacement cannot collide.
`PermitsAreBacked` (`PermitMeansClient`) compares two cardinalities: each way out of
`acquire` gives back a client, or its replacement, or keeps the dead one, before it
gives back the permit. Further results: `TypeCorrect`, `LineIsExact`, `NoPermitIdles`,
`KnownClientsHaveOwners`.

**ApiServicesProofs, queries.** `AnswersStayFresh`: an entry expires by the time of
the read that made it (`BoundedAge`), so that being served again does not extend it.
`AnswersStayMonotone`: as long as a key was not raced (no two requests for it
overlapped, no outage of Redis while it was held or asked for), an answer is stored only
when no other is live and one request asks at a time (`OneAsker`, `CalmWhenDown`), so
reads are answered in their order.

**StorageLifecycleProofs.** `RowsHaveTheirPlace` is `LifecycleInv`. Neither
`RowsAccountedFor` nor `DoublesAreDoomed` is inductive: an archive asks to delete by a
condition (tenant, table, older than the cutoff) what it selected by the same
condition some statements before. `BatchOK` is what relates the two: between SELECT
and DELETE, what the DELETE will cover was selected or came too late and is known as
such; once the object is put, S3 has the batch. A doomed row counts as gone from ClickHouse for the first and may
stay there for the second, so that it does not matter when `Mutate` comes (`MutateKeeps`).
`InsertKeeps` is the step of others that could break it, `PutKeeps` the one that may
replace an object. `JobOK` says that
only the first step of a job can be half done, so that a restart or a failure leaves
no other archive in that state.

**AgentRuntimeProofs.** `MemoryAndTurns` is `RuntimeInv`: every way out of the loop
of a request that saves leads through `clearing` (`KindsKeepTheirPlaces`), and a
conversation whose chats never overlapped has one request under way that loaded the
current history (`OneChat`). `VerdictsStand`: past its loop an execution has a final
verdict.

**ApiServicesProofs, calls that overlap.** `Honest`: the lines with the client, in the generator's hand and in
the queue are one sequence, `Got`, that grows only at its end (`EnqueueEffect`; the
moves of a line along it leave it as it is, by associativity), and lines not yet
taken are later than all of it. `AppendOrder` and `TailOrder` are the lemmas on
increasing sequences. `IdsAreFresh`: an instance in the making was never listed and
nobody else makes it; hence `StaysDeleted`. `RegistryIsExact` is `SchedulerInv`. Its
strengthening (`SchedulerIInv`) follows a loop from its cancellation to the call that
awaits it: until the first stop, an enabled monitor is without a loop only while a call
on it is under way (`EnabledIsRegistered`), and as long as calls did not overlap, at
most one is under way, what it removed stays removed until it adds it again, and every
loop that was not cancelled is the registered one of its monitor (`OneCall`).
`ApiInvariant` and `ApiKeepsPromises` lift all of it to the composition: a behaviour of
`ApiServices` is a behaviour of one service with the others stuttering (`EachAlone`),
and a service that only stutters keeps its promises as well.

**ServiceRulesProofs** and **AnalysisServicesProofs.** These theorems are about the
specification of each service (`AlertSpec`, `IngestSpec`, ..., `TracingSpec`), since
`AnalysisServices` also has `PromQL`, which the prover cannot take in; that composition
lets one of them run and the others stutter.

Most of these services compute by folds: counts, sums, walks along a sequence. The
library's induction theorems take the statement as an operator, which the provers cannot
instantiate, so the induction is stated of a set instead: a set of numbers that has 0
and with each number the next is all of them (`CountingUp`), and likewise for finite sets
and their subsets (`GrowingSets`). On these two rest the lemmas that the proofs share: a
fold exists and is what its steps say (`FoldExists`, `FoldWalks`, `WalkExists`), the sum
over a set is what adding its members one by one gives (`SumsUp`, `SumIs`), a sum over
groups is the sum of the groups' sums (`SumOfGroups`), a set of natural numbers has a
first one (`FirstOf`), and sequences without repetition over a finite set are finitely
many (`SequencesAreFew`).

Of the rules of single services (`ServiceRulesProofs`):

* `ConfirmedRulesStay`: only rules somebody is creating, or created, are in a store
  (`StoresHoldCreated`), a creation is confirmed after one of them has the rule, and of
  the steps that change a store only the restart takes a rule out (`RuleKept`).
* `RateStaysBounded`: a count, written or still in the hands of a check, is at most the
  number of requests let through since its window began (`CountsAreReal`), which racing
  checks can only make truer: they lose counts, they invent none. Hence no refusal comes
  too early. For checks one by one (`OneByOne`) `SpansBounded`, the bound on any span, is
  kept because the count is the number let through since the window began
  (`WindowCounts`), and the span of a window before that has at most the limit: a span
  that reaches into the present begins in one of the two. What was let through is a set
  of numbered requests, so the argument is about cardinalities of its parts.
* `CallsAreUnderstood`: a conversion answers an error before it hands anything over, or
  the pipeline raised after the publish, which only a span's end brings about
  (`RaiseKeeps`); and OTLP's three transports make the same of every common item
  (`ConvertersAgree`). For the _bulk body the walk over its lines is taken apart: of a body of
  well-formed operations the walk stands at the beginning of an operation after every two
  lines (one after a delete), with the documents of the operations before it.
* `ChecksStayTrue`: the walk of `get_incidents` along the results is compared with the
  definition of a run of failures: after k results it has the runs that ended, and an open
  one exactly when the k-th failed. Uptime and the status page count sets of results.
* `WaterfallsStayFaithful`: `TracingIInv` says what rows there are: each holds of a span
  that was recorded, begun when it says it was (`SpansStand`, `RowsStand`), and the cost
  stored, with what overlapping flushes have in their hands, is at most what every flush
  so far could have written (`StoredCosts`). Chains
  of spans are finite and each is in one row, since a chain is no beginning of another.
  That a map drawn from one row of every span is the recording is a pigeonhole: as many
  rows as spans, and no span missing.
* `ExperimentsStayFair`: an inquiry read no more than there is now (`ReadsAreOld`) and
  judged what it read (`Judged`); the winner on the row, and those on their way to it, are
  answers of conclusions (`ConclusionsKept`). That a significant difference is one in the
  shares of successes (`SignificantDiffers`), and that an order of rounded averages is one
  of the exact ones, or a difference within a unit (`RoundedBounds`, `RoundedOrder`,
  `WinnersLead`), is arithmetic of integer division.
* `BudgetsStayTrue`: `SloIInv` says that each answer read so far is a count of events,
  and of the events there are now if nothing moved since the first (`ReadsFit`). What a
  service's evaluation says rests on one of its answers or holds of any two, what an
  agent's says on those of one moment (`Verdicts`); what a step may do to the budget is a
  matter of cross-multiplied fractions, once per kind of objective
  (`FailureTakesBudget`, `SuccessTakesNone`).

Of the services that show the same rows in several ways (`AnalysisServicesProofs`):

* `TemplatesStayTrue`: `DrainIInv` says that every pattern was made from lines, and
  widening a template keeps what it matched (`WidenStands`), whichever of the patterns
  that fit best was taken. The counts need the tree: as long as the root replaced no
  branch, paths are only added, a line is led to where it was led before, and so a line
  that made a pattern finds it again; hence a line finds a pattern or makes one, and the
  counts of the patterns, grouped by where they are, sum up to the lines that found room.
* `RegressionsStayReal`: the resolutions an inquiry read are older than the end of its
  range (`ResolvedBefore`), an occurrence missing from the rows it read is not
  (`RowsBegin`), and the resolutions it reads last include those it read first. That a
  group has a first occurrence at all is `LeastNumber`.
* `MapsStayCoherent`: what was read of a service or a row is what the tables say now,
  unless a row of it moved since (`SnapshotStands`, `ReadStands`); so two maps, or a map
  and a detail of it, differ only by what moved between their reads. `RowsMove` is the step
  that matters: it changes what the tables say of one service or row, and appends that
  very row to the moves.
* `ScreensStayTrue`: the tables hold one row of a
  thing and moment (`OneRowEach`), and what an undisturbed screen of issues has got, the
  last reports still say (`IssuesStand`); hence no pod is in two states. That a filtered
  list is never empty where something reported needs a last moment (`LatestMoment`, from
  `LeastNumber`). That the costs of a summary add up is
  `SumOfGroups`, for a list that did not fill up: then it has every row there is.
* `PagesStayTrue`: that two pages agree is arithmetic about one state. The totals are sums
  over the same lines grouped by service, by severity or by hour; the errors of a list that
  leaves out no service are all of them; rounding lifts a rate by less than a step
  (`RoundingLifts`), so that a service shown as healthy has at most 5.005 % of errors. What
  a page read while rows came in
  is compared with the rows there were when it began, of which nothing ever goes.
* `TracesStayExplained`: the path of a breakdown goes down from the root by longest children
  (`WayDown`), one step for every step of the walk until it stands at a leaf. If it takes
  more steps than there are span ids, one comes twice, and the rows are each other's
  ancestors; if more than `MaxDepth`, there are as many spans: the two cases in which the
  code runs into Python's recursion limit. The reads of an analysis see
  what those before them saw, or more.

Only model-checked:

* all liveness properties (fairness and ENABLED are beyond the prover);
* `SupportedExpressionsWork`, which needs RECURSIVE operators and is an induction over
  expressions;
* `ObservationsAddUp`: its screens are sums of sequences of steps, read in up to six parts
  while runs are recorded in two inserts; the lemmas on sums are there, the invariant that
  relates each part to the rows of its moment is not written.

## 5. Observations

Met while modelling, not runs of their own.

Ingestion and storage:

* The writer's timer is looked at only when a message arrives, and one timer serves
  three buffers (`writer.py:80`); PRD-02:180 says 1000 rows or one second.
* With a direct writer and a StorageWriter both present, every record is stored
  twice (`pipeline.py:117,168`, `writer.py:154`); PRD-01:632 calls metrics
  effectively exactly-once. `StorageWriter`, `ClickHousePool`, `SyntheticScheduler`
  and `LifecycleScheduler` are not instantiated by `api/app.py` at this commit: the
  models are of the classes, run as their docstrings and parameters intend.
* Both writers insert columns that `backend/migrations/clickhouse/001_initial_schema.sql`
  lacks (`writer.py:91-98,174-178`, `direct_writer.py:66-70,162-167`).
* A publish that fails is logged and the record still counts as accepted
  (`router.py:91`): the contract has the fate "dropped" for it.
* `StorageWriter.stop` does not unsubscribe (`writer.py:206`).
* The DELETE of an archive covers rows that arrived after its SELECT
  (`cold_tier.py:68`); the model's `excused` names them. `validators.py` accepts
  records as old as the default hot window, so such rows do arrive.
* `gdpr_erase` ignores the cold tier, so an archived row of the user stays in S3.
  S3 objects never expire, and traces are never archived.
* `check_rate_limit` (`ingest.py:68`) and `RateLimitMiddleware` (`rate_limit.py:33`)
  say "sliding window"; both use fixed ones, and twice the limit passes around the end of
  one. The compatibility routes check in the thread pool (`compat.py:31,104,205,270`),
  where concurrent checks lose counts and let any number through. The gRPC server has no
  limit.
* A batch can be published and then answered as failed: `DirectWriter` builds rows after
  the publish and a span's end beyond the year 9999 raises (`direct_writer.py:134`); the
  OTLP routes answer 400 (`ingest.py:206-208,240-242,274-276`), the JSON ones 500. A
  client that sends it again stores the records twice.
* A compliance hold does not hold (PRD-02:1430): the manual archive does not look at it
  (`storage.py:130`), a policy change edits the default that all tenants share
  (`storage.py:107-113`), and a restart forgets it.
* The deletes of archives, purges and erasures are asynchronous mutations (no
  `mutations_sync`): a query over both tiers finds archived rows twice until then, and
  counts reported at return are not settled.
* The transports of OTLP differ: over HTTP rejected records are not reported, an
  export without accepted records is a 400, severities inside a range (18) are INFO
  where gRPC says ERROR; a histogram's value is its sum over protobuf and 0 otherwise;
  summaries and links exist over gRPC only; integers arrive as strings over JSON
  (`ingest.py:415-421`), ids as upper case or empty stay so, bodies that are objects come
  as text or not at all. `_bulk`: a line that does not parse where an
  action is due shifts the pairs after it. Prometheus remote write answers 204 and
  stores nothing. One bad time in a HEC batch is a 500 for the whole batch.

Queries and API:

* After `ClickHousePool.close()` a task that gets a permit waits on the empty
  queue for ever (`connection_pool.py:110`).
* `Redis.from_url` is given no `socket_timeout`: that a query is answered rests on Redis
  answering or failing, which the model assumes.
* The rate-limit middleware runs a request twice when the handler raises
  (`rate_limit.py:50-56`), and it runs before the tenant middleware (`app.py:155`), so
  it finds no tenant and never counts.
* The query kind is not part of the cache key: a search and a natural-language question
  can share an entry (`engine.py:197`). PRD-03:483-484 has the step of a PromQL query
  in the key; the code does not.
* A PUT of an integration keeps the status its old configuration earned, and answers
  400 to a bad status after the configuration has changed. A test of an instance that
  is deleted meanwhile ends in a KeyError. A webhook with `retry_count` 0 raises None.
* Rules kept in memory are hidden as soon as the database lists one; alert history gets
  a row per poll although its comment says new firings (`alert_data.py:83,221`).
* PromQL: `rate()` and `increase()` select `(max(value) - min(value)) AS value` and add
  `HAVING max(value) >= min(value)` (`promql_parser.py:557-564`): the alias shadows the
  column, and ClickHouse refuses the nested aggregation, although the module's docstring
  (line 3) lists `rate()` as supported. `unless` and `^` are copied into SQL, `a / b % c` binds wrongly, `sum(a) /
  sum(b)` parses as one aggregation, an aggregation over a plain vector lacks `ts`.
* When the lengths branch of the Drain tree overflows, the branch "*" is replaced on
  every message and its patterns are out of reach (`patterns.py:83`).

Synthetic monitoring and objectives:

* DELETE of a monitor during a PUT of it leaves its checks running
  (`synthetics.py:278-281,297`). `stop()` can leave a loop it does not know
  (`scheduler.py:75`), which ends by itself only while the scheduler stays stopped.
  An update forgets the last status (`scheduler.py:99`).
* `_check_http` passes plain functions as event hooks to `httpx.AsyncClient`
  (`monitor.py:177-189`), which awaits them: every HTTP check raises a TypeError and is
  DOWN. The model's outcomes of a check include the ones the code was meant to have.
* The status page shows 100 % for 0 % (`row["uptime_pct_24h"] or 100.0`); a raised check
  has response time 0, which passes "lt"; the body assertion always passes,
  `header_matches` always fails; incidents mix locations.
* The burn rate divides by the fraction of the window as well (`slo.py:334`), although the
  docstring (`slo.py:316-319`) and `test_slo_service.py:89-97` say error rate by allowed
  rate: traffic that fails exactly as often as allowed burns at up to hundreds, not at 1. A
  quiet service makes a NaN that drops the objective from the list; an unknown type
  fails the list. For agents a target of 1.0 shows a full budget.

Screens:

* The APM and RUM routes get their ClickHouse client from a stub that returns None
  (`core/dependencies.py:91-97`), those of agent observability and infrastructure a
  client without the method they call; no schema for their tables is in the
  repository. The services are modelled as called with a client that works.
* Infrastructure: the list of containers without a filter shows the hosts of the last
  report only, with a filter that host's last report, gone containers included; idle
  disks come once per snapshot; the issues found are never written where the overview
  counts them. The two queries of a cost summary can fall on different days.
* The cost screen reads 50 rows and shows 20; beyond 50 resources (`cloud.py:338`) its list
  and its totals part. The overview counts ten services' errors (`dashboard.py:146`), and
  its comment at line 42 says services come from logs and traces, but only logs are read.
* The service map's edges may name no node; `service-health` says it counts latency and
  does not, and rounds before it compares, which the overview does not.
* Errors: the number rule runs before those for timestamps and lines (`errors.py:93`), so
  they never match; groups with one fingerprint are not merged; `compare_latency` says at
  least 10 ms and means more. A span that is its own ancestor makes
  `_mark_critical_path` recurse without end, and a chain of about a thousand spans is too
  deep for Python (`latency.py:327-337`).
* Agents: a tool's error rate is always 0 (`observability.py:590-637`); recording an
  execution again doubles it. A second `flush` of a tracer doubles the cost. The results of
  an experiment ignore `min_sample_size` (100, `ab_testing.py:50`) for a bar of 5; the
  z-test, "on the success metric" by the comment at line 285, is on the rate of success
  whatever the metric, which only names the winner afterwards; averages that round to the
  same, and a missing accuracy (a NaN), let B win; executions are assigned after its
  conclusion.

Agents:

* Reaching `MAX_ITERATIONS`, and a cancelled stream, count as COMPLETED. A
  conversation's history is loaded and never shown to the LLM
  (`runtime.py:393-438,523`). Of two overlapping chats one turn is lost
  (`runtime.py:519-535`). The cancel route asks a new runtime and changes nothing
  (`agents.py:355-358`). The background task has no reference (`agents.py:217`).

## 6. Plan

Done: the pipeline with its contract, the writer and their composition; the
lifecycle; the agent runtime; the five services of `ApiServices`, the eleven of
`AnalysisServices` and the four of `DecisionServices`; proofs of every safety property of the passing runs, a refinement
among them, but for `SupportedExpressionsWork` and `ObservationsAddUp`.

What would be worth adding:

1. Proofs: `ObservationsAddUp`, from the sums and groups of `ServiceRulesProofs`.
2. Models: the starting and stopping of the gRPC server, tenant injection into query
   text, saved queries and log views, latency comparisons.
3. An abstract specification of a query without a cache, refined by `QueryPath` up to
   staleness.

## 7. Running it

    tlc -workers 2 -config MCStorageWriter.cfg MCStorageWriter
    tlapm StorageWriterProofs.tla

Every cfg names its module by its prefix: `MCWriterCrash` belongs to
`MCStorageWriter`, `MCPipelineBackpressure` to `MCIngestionPipeline`,
`MCLifecycleOverwrite` to `MCStorageLifecycle`, `MCAgentPolling` to `MCAgentRuntime`.

## 8. Not modelled, and why

* Text and floating point: PII patterns, tenant injection into SQL, the log explorer,
  anomaly scores, forecasts, accuracy and cost of agents, latency comparisons, profiles.
* One call and no state: the vendors' clients, RUM, metric pages, the read endpoints of
  the compatibility API, health, benchmarks.
* Synchronous and alone: the agent marketplace and the log views are dictionaries of the
  process whose operations neither suspend nor interact.
* Without a caller at this commit: the read-modify-write of the metadata repositories,
  the audit log, agent streaming and multi-model calls, query streaming, the evaluator
  (whose `_load_rules` returns an empty list) and the notifier; the routes of
  `alerts.py` are placeholders.
* Authentication, SSO, SCIM, tenants and roles: conversions of tokens and headers by
  libraries.
* Inside modelled parts: the metadata of a record, the sockets of a check, long-term agent
  memory in PostgreSQL, the expiry of Redis keys of agents, the pool's legacy helpers (they
  take no client out of the queue), the list of an APM endpoint's slow requests beyond its
  LIMIT 50, cancellation of an agent's task outside of its loop,
  quantiles and samples of the screens, metric series of hosts, label matchers of PromQL.
* The message of a batch: one JetStream message carries one record, as
  `MessageRouter` publishes them; the writer also accepts lists, which nothing sends.
