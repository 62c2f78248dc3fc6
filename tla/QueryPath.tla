------------------------------- MODULE QueryPath ------------------------------
(***************************************************************************)
(* services/query/engine.py behind api/routes/query.py: a query request    *)
(* passes the middleware, looks its key up in the Redis cache, and, on a   *)
(* miss, reads ClickHouse, stores the answer with a time to live and       *)
(* answers.  Requests interleave at the two awaits on Redis; the read of   *)
(* ClickHouse blocks the event loop.  Redis fails and comes back, with or  *)
(* without its data; every error of the cache is swallowed.                *)
(*                                                                         *)
(* Rows arrive all the time, so what a query reads is told by when it read *)
(* it.  A request is asked once; one unit of time is 15 seconds.           *)
(***************************************************************************)
EXTENDS Integers, FiniteSets

CONSTANTS
  Requests,     \* numbered in the order they are asked
  Questions,    \* what a request can ask: [route, kind, text, ranged]
  Limit,        \* requests of one tenant in a window, RATE_LIMITS["default"]
  MaxTime,      \* bound: the clock
  MaxOutages,   \* bound: times Redis fails
  MaxLag        \* bound: how long a SETEX may take after the read

ASSUME QueryAssumption ==
  /\ \A q \in Questions : /\ q.route \in {"query", "search", "prometheus", "labels"}
                          /\ q.kind \in {"SQL", "PROMQL", "SEARCH", "NL"}
                          /\ q.ranged \in BOOLEAN
  /\ Requests \subseteq Nat /\ IsFiniteSet(Requests)
  /\ {Limit, MaxTime, MaxOutages, MaxLag} \subseteq Nat

VARIABLES
  time,
  redisUp,
  outages,      \* times Redis failed
  cache,        \* key -> the entry Redis holds, or NoEntry
  counted,      \* requests counted by the limiter in the current window
  stage,        \* where each request is
  question,     \* what it asked
  read,         \* when the rows it read or was given were read
  response,     \* the status of the response
  raced         \* keys two requests asked for at once, or during an outage

queryVars == <<time, redisUp, outages, cache, counted, stage, question, read, response, raced>>

-----------------------------------------------------------------------------
NoEntry == [readAt |-> 0, expires |-> 0]
NoQuestion == [route |-> "query", kind |-> "SQL", text |-> "", ranged |-> FALSE]

(* _generate_query_id: the text and the time range, not the kind.          *)
KeyOf(q) == [text |-> q.text, ranged |-> q.ranged]
Keys == {KeyOf(q) : q \in Questions}

(* _determine_cache_ttl: 15 s without a time range, 30 s with one.         *)
TimeToLive(key) == IF key.ranged THEN 2 ELSE 1

Key(r) == KeyOf(question[r])
Live(key) == cache[key].expires > time
Asked(r) == stage[r] # "idle"
Answered(r) == response[r] # "none"
Open(r) == Asked(r) /\ ~Answered(r)

QueryTypeOK ==
  /\ time \in 0..MaxTime
  /\ redisUp \in BOOLEAN
  /\ outages \in 0..MaxOutages
  /\ cache \in [Keys -> [readAt : 0..MaxTime, expires : 0..(MaxTime + 2)]]
  /\ counted \in 0..Cardinality(Requests)
  /\ stage \in [Requests -> {"idle", "lookup", "execute", "store", "done"}]
  /\ question \in [Requests -> Questions \union {NoQuestion}]
  /\ read \in [Requests -> 0..MaxTime]
  /\ response \in [Requests -> {"none", "rows", "hit", "empty", "error",
                              "400", "429", "500"}]
  /\ raced \in SUBSET Keys

QueryInit ==
  /\ time = 0
  /\ redisUp = TRUE
  /\ outages = 0
  /\ cache = [k \in Keys |-> NoEntry]
  /\ counted = 0
  /\ stage = [r \in Requests |-> "idle"]
  /\ question = [r \in Requests |-> NoQuestion]
  /\ read = [r \in Requests |-> 0]
  /\ response = [r \in Requests |-> "none"]
  /\ raced = {}

-----------------------------------------------------------------------------
(* create_app: add_middleware puts each one around those added before it,  *)
(* so they run in the opposite order of the calls.                         *)
Stack == <<"ErrorHandler", "RequestId", "RequestLogging", "RateLimit", "Tenant",
           "RBAC", "CORS">>
Before(m, n) == \E i, j \in DOMAIN Stack : i < j /\ Stack[i] = m /\ Stack[j] = n

(* RateLimitMiddleware.dispatch lets a request through whose tenant is not *)
(* in its state yet, or without Redis; it counts the others by INCR.       *)
RateLimit(pass, refuse) ==
  IF ~Before("Tenant", "RateLimit") \/ ~redisUp
  THEN pass /\ UNCHANGED counted
  ELSE /\ counted' = counted + 1
       /\ IF counted < Limit THEN pass ELSE refuse

(* The request reaches its route; QueryEngine.execute starts.              *)
Ask(r) ==
  /\ stage[r] = "idle"
  /\ \A s \in Requests : s < r => Asked(s)
  /\ \E q \in Questions :
       /\ question' = [question EXCEPT ![r] = q]
       /\ raced' = IF ~redisUp \/ \E s \in Requests : Open(s) /\ Key(s) = KeyOf(q)
                   THEN raced \union {KeyOf(q)} ELSE raced
  /\ RateLimit(stage' = [stage EXCEPT ![r] = "lookup"] /\ UNCHANGED response,
               /\ stage' = [stage EXCEPT ![r] = "done"]
               /\ response' = [response EXCEPT ![r] = "429"])
  /\ UNCHANGED <<time, redisUp, outages, cache, read>>

(* Mutant of Answer: a hit is stored again, with a new time to live.       *)
AnswerAndRenew(r, status) ==
  /\ stage' = [stage EXCEPT ![r] = "done"]
  /\ response' = [response EXCEPT ![r] = status]
  /\ cache' = IF status = "hit"
              THEN [cache EXCEPT ![Key(r)].expires = time + TimeToLive(Key(r))] ELSE cache

(* The coroutine ends with a response.                                     *)
Answer(r, status) ==
  /\ stage' = [stage EXCEPT ![r] = "done"]
  /\ response' = [response EXCEPT ![r] = status]
  /\ UNCHANGED cache

(* Mutant of Lookup: it waits until Redis answers.                         *)
LookupInsists(r) ==
  /\ stage[r] = "lookup"
  /\ redisUp
  /\ IF Live(Key(r))
     THEN /\ read' = [read EXCEPT ![r] = cache[Key(r)].readAt]
          /\ Answer(r, "hit")
     ELSE /\ stage' = [stage EXCEPT ![r] = "execute"]
          /\ UNCHANGED <<read, response, cache>>
  /\ UNCHANGED <<time, redisUp, outages, counted, question, raced>>

(* QueryCache.get: a live entry is the answer, whatever kind of query      *)
(* stored it; no entry and any error of Redis are a miss.                  *)
Lookup(r) ==
  /\ stage[r] = "lookup"
  /\ IF redisUp /\ Live(Key(r))
     THEN /\ read' = [read EXCEPT ![r] = cache[Key(r)].readAt]
          /\ Answer(r, "hit")
     ELSE /\ stage' = [stage EXCEPT ![r] = "execute"]
          /\ UNCHANGED <<read, response, cache>>
  /\ UNCHANGED <<time, redisUp, outages, counted, question, raced>>

(* What the routes make of a QueryExecutionError.                          *)
StatusOfFailure(route) ==
  CASE route = "query" -> "400"          \* HTTPException
    [] route = "search" -> "500"         \* not caught: ErrorHandlerMiddleware
    [] route = "prometheus" -> "error"   \* {"status": "error", ...}
    [] route = "labels" -> "empty"       \* {"status": "success", "data": []}

(* Mutant of Execute: the answer is given first and stored later.          *)
ExecuteThenStoreLater(r) ==
  /\ stage[r] = "execute"
  /\ IF question[r].kind = "NL"
     THEN Answer(r, "500") /\ UNCHANGED read
     ELSE \/ /\ read' = [read EXCEPT ![r] = time]
             /\ stage' = [stage EXCEPT ![r] = "store"]
             /\ response' = [response EXCEPT ![r] = "rows"]
             /\ UNCHANGED cache
          \/ Answer(r, StatusOfFailure(question[r].route)) /\ UNCHANGED read
  /\ UNCHANGED <<time, redisUp, outages, counted, question, raced>>

(* The plan and the blocking read of ClickHouse.  A natural-language query *)
(* raises NotImplementedError and a PromQL selector without its closing    *)
(* brace ValueError, which no route catches; the read may fail, and what   *)
(* failed is not stored.                                                   *)
Execute(r) ==
  /\ stage[r] = "execute"
  /\ IF question[r].kind = "NL"
     THEN Answer(r, "500") /\ UNCHANGED read
     ELSE \/ /\ read' = [read EXCEPT ![r] = time]
             /\ stage' = [stage EXCEPT ![r] = "store"]
             /\ UNCHANGED <<response, cache>>
          \/ /\ \E status \in {StatusOfFailure(question[r].route)} \cup
                              (IF question[r].kind = "PROMQL" THEN {"500"} ELSE {}) : Answer(r, status)
             /\ UNCHANGED read
  /\ UNCHANGED <<time, redisUp, outages, counted, question, raced>>

(* QueryCache.set: Redis applies the SETEX, over whatever entry is there,  *)
(* or fails; the rows are answered either way.                             *)
Store(r) ==
  /\ stage[r] = "store"
  /\ stage' = [stage EXCEPT ![r] = "done"]
  /\ response' = [response EXCEPT ![r] = "rows"]
  /\ cache' = IF redisUp
              THEN [cache EXCEPT ![Key(r)] = [readAt |-> read[r], expires |-> time + TimeToLive(Key(r))]]
              ELSE cache
  /\ UNCHANGED <<time, redisUp, outages, counted, question, read, raced>>

-----------------------------------------------------------------------------
(* External: time passes; a window of the limiter is four units.           *)
Tick ==
  /\ time < MaxTime
  /\ \A r \in Requests : stage[r] = "store" => time < read[r] + MaxLag
  /\ time' = time + 1
  /\ counted' = IF (time + 1) % 4 = 0 THEN 0 ELSE counted
  /\ UNCHANGED <<redisUp, outages, cache, stage, question, read, response, raced>>

(* External: Redis becomes unreachable, which disturbs the requests that   *)
(* are open and the keys it holds.                                         *)
RedisFails ==
  /\ redisUp
  /\ outages < MaxOutages
  /\ redisUp' = FALSE
  /\ outages' = outages + 1
  /\ raced' = raced \union {k \in Keys : Live(k)} \union {Key(r) : r \in {r \in Requests : Open(r)}}
  /\ UNCHANGED <<time, cache, counted, stage, question, read, response>>

(* External: Redis is back, with its data or empty after a restart.        *)
RedisRecovers ==
  /\ ~redisUp
  /\ redisUp' = TRUE
  /\ cache' \in {cache, [k \in Keys |-> NoEntry]}
  /\ UNCHANGED <<time, outages, counted, stage, question, read, response, raced>>

Serve(r) == Lookup(r) \/ Execute(r) \/ Store(r)

QueryNext ==
  \/ \E r \in Requests : Ask(r) \/ Serve(r)
  \/ Tick \/ RedisFails \/ RedisRecovers

(* Coroutines are scheduled, and a Redis call returns or raises.           *)
QueryFairness == \A r \in Requests : WF_queryVars(Serve(r))

QuerySpec == QueryInit /\ [][QueryNext]_queryVars
QueryFairSpec == QuerySpec /\ QueryFairness

-----------------------------------------------------------------------------
Rows(r) == response[r] \in {"rows", "hit"}
Answering(r) == ~Answered(r) /\ Answered(r)' /\ Rows(r)'

(* However often an answer is served again, it tells what the tables held  *)
(* no longer ago than the time to live of its key and the time its SETEX   *)
(* took: hits do not extend one another (engine.py 94-96).                 *)
AnswersAreFresh ==
  [][\A r \in Requests :
       Answering(r) => time < read'[r] + TimeToLive(Key(r)) + MaxLag]_queryVars

(* Who asks the same question again after the answer came never gets older *)
(* rows, unless two requests for the key overlapped or Redis was away: a   *)
(* late SETEX may then put an older answer over a newer one.               *)
NeverBackwards ==
  [][\A r, s \in Requests :
       (/\ Answering(r) /\ Answered(s) /\ Rows(s)
        /\ Key(r) = Key(s) /\ Key(r) \notin raced)
       => read'[r] >= read[s]]_queryVars

(* Every request is answered, also when Redis never comes back: whenever   *)
(* one is open there comes a time when none is (each is asked once).       *)
QueriesAreAnswered == (\E r \in Requests : Open(r)) ~> (\A r \in Requests : ~Open(r))

=============================================================================
