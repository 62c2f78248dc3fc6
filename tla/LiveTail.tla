-------------------------------- MODULE LiveTail ------------------------------
(***************************************************************************)
(* services/logging/live_tail.py behind the websocket of api/routes/logs.py*)
(* Three coroutines of one event loop and the NATS server: the route sends *)
(* events to the client, the generator of subscribe() yields them from a   *)
(* bounded queue or yields a heartbeat, and a consumer task takes messages *)
(* of the subscription, puts the lines that match into the queue, and      *)
(* acknowledges them.  Every connection has a service, a queue and a       *)
(* subscription of its own, so one connection is modelled.  A message      *)
(* carries one log line: the router publishes records one by one.          *)
(***************************************************************************)
EXTENDS Integers, Sequences, FiniteSets

CONSTANTS
  MaxLines,     \* bound: lines published while the tail is there
  Matching,     \* the lines that match the filter of the client
  MaxRate,      \* max_rate
  MaxFaults     \* bound: redeliveries and acknowledgements that raise

ASSUME TailAssumption ==
  MaxLines \in Nat /\ Matching \subseteq 1..MaxLines /\ MaxRate \in Nat /\ MaxFaults \in Nat

VARIABLES
  handler,       \* the websocket handler
  client,        \* the client is connected
  subscription,  \* at the NATS server
  generator,     \* subscribe()
  event,         \* the line it yielded; none in a heartbeat
  consumer,      \* _consume()
  published,     \* lines published so far
  inbox,         \* messages delivered to the subscription, not yet taken
  handling,      \* the message the consumer acknowledges, 0 if none
  unacked,       \* messages the server may deliver again
  queue,         \* the asyncio.Queue
  matched, dropped,   \* TailStats
  tailSent,      \* lines the client got
  redelivered,   \* deliveries beyond the first
  faults         \* redeliveries and acknowledgements that raised

tailVars == <<handler, client, subscription, generator, event, consumer, published, inbox,
          handling, unacked, queue, matched, dropped, tailSent, redelivered, faults>>

Lines == 1..MaxLines
QueueSize == 2 * MaxRate

TailTypeOK ==
  /\ handler \in {"accepted", "streaming", "leaving", "left"}
  /\ client \in BOOLEAN
  /\ subscription \in {"none", "active", "gone"}
  /\ generator \in {"new", "waiting", "yielded", "closed"}
  /\ event \in Seq(Matching) /\ Len(event) <= 1
  /\ consumer \in {"none", "waiting", "acking", "ended"}
  /\ published \in 0..MaxLines
  /\ inbox \in Seq(Lines)
  /\ handling \in Lines \union {0}
  /\ unacked \in SUBSET Lines
  /\ queue \in Seq(Matching) /\ Len(queue) <= QueueSize
  /\ matched \in Nat /\ dropped \in 0..matched
  /\ tailSent \in Seq(Matching)
  /\ redelivered \in 0..MaxFaults
  /\ faults \in 0..MaxFaults

TailInit ==
  /\ handler = "accepted"
  /\ client = TRUE
  /\ subscription = "none"
  /\ generator = "new"
  /\ event = <<>>
  /\ consumer = "none"
  /\ published = 0
  /\ inbox = <<>>
  /\ handling = 0
  /\ unacked = {}
  /\ queue = <<>>
  /\ matched = 0 /\ dropped = 0
  /\ tailSent = <<>>
  /\ redelivered = 0 /\ faults = 0

tailStats == <<matched, dropped>>
server == <<published, inbox, unacked, redelivered, faults>>

-----------------------------------------------------------------------------
(* The filter arrives: the route iterates over subscribe(), which makes    *)
(* the subscription (only lines from now on) and starts the consumer.      *)
Subscribe ==
  /\ handler = "accepted"
  /\ handler' = "streaming"
  /\ subscription' = "active"
  /\ generator' = "waiting"
  /\ consumer' = "waiting"
  /\ UNCHANGED <<client, event, server, handling, queue, tailStats, tailSent>>

(* No filter comes, or js.subscribe raises: the generator's own except and *)
(* finally run, and there is nothing to release.                           *)
SubscribeFails ==
  /\ handler = "accepted"
  /\ handler' = "leaving"
  /\ generator' = "closed"
  /\ consumer' = "ended"
  /\ UNCHANGED <<client, event, subscription, server, handling, queue, tailStats, tailSent>>

(* Mutant of Enqueue: what does not fit is forgotten without being counted.*)
EnqueueForgets(line) ==
  IF Len(queue) < QueueSize
  THEN queue' = Append(queue, line) /\ UNCHANGED dropped
  ELSE UNCHANGED <<queue, dropped>>

(* queue.put_nowait, or QueueFull.                                         *)
Enqueue(line) ==
  IF Len(queue) < QueueSize
  THEN queue' = Append(queue, line) /\ UNCHANGED dropped
  ELSE dropped' = dropped + 1 /\ UNCHANGED queue

(* _consume takes the next message; _message_handler does not suspend and  *)
(* swallows whatever a message makes it raise.                             *)
Handle ==
  /\ consumer = "waiting"
  /\ inbox # <<>>
  /\ inbox' = Tail(inbox)
  /\ handling' = Head(inbox)
  /\ consumer' = "acking"
  /\ IF Head(inbox) \in Matching
     THEN matched' = matched + 1 /\ Enqueue(Head(inbox))
     ELSE UNCHANGED <<tailStats, queue>>
  /\ UNCHANGED <<handler, event, client, subscription, generator, published, unacked, tailSent,
                 redelivered, faults>>

(* `await msg.ack()` returns ...                                           *)
Acknowledge ==
  /\ consumer = "acking"
  /\ consumer' = "waiting"
  /\ unacked' = unacked \ {handling}
  /\ handling' = 0
  /\ UNCHANGED <<handler, event, client, subscription, generator, published, inbox, queue,
                 tailStats, tailSent, redelivered, faults>>

(* ... or raises, which ends the consumer.  Nobody awaits it until the     *)
(* tail ends: the client goes on getting what is queued, and heartbeats.   *)
AcknowledgeRaises ==
  /\ consumer = "acking"
  /\ faults < MaxFaults
  /\ faults' = faults + 1
  /\ consumer' = "ended"
  /\ handling' = 0
  /\ UNCHANGED <<handler, event, client, subscription, generator, published, inbox, unacked,
                 queue, tailStats, tailSent, redelivered>>

(* `await queue.get()` returns: the generator yields the line.             *)
YieldLine ==
  /\ generator = "waiting"
  /\ queue # <<>>
  /\ generator' = "yielded"
  /\ event' = <<Head(queue)>>
  /\ queue' = Tail(queue)
  /\ UNCHANGED <<handler, client, subscription, consumer, server, handling, tailStats, tailSent>>

(* Mutant of Heartbeat: `await queue.get()` without a timeout.             *)
NoHeartbeat ==
  FALSE /\ UNCHANGED tailVars

(* Thirty seconds without a line: it yields a heartbeat.                   *)
Heartbeat ==
  /\ generator = "waiting"
  /\ queue = <<>>
  /\ generator' = "yielded"
  /\ event' = <<>>
  /\ UNCHANGED <<handler, client, subscription, consumer, server, handling, queue,
                 tailStats, tailSent>>

(* The route sends what was yielded; send_json raises when the client is   *)
(* gone, and the route leaves with the generator suspended at its yield.   *)
Send ==
  /\ handler = "streaming"
  /\ generator = "yielded"
  /\ event' = <<>>
  /\ IF client
     THEN generator' = "waiting" /\ tailSent' = tailSent \o event /\ UNCHANGED handler
     ELSE handler' = "leaving" /\ UNCHANGED <<generator, tailSent>>
  /\ UNCHANGED <<client, subscription, consumer, server, handling, queue, tailStats>>

(* The finally of the route: unsubscribe() pops the subscription and ends  *)
(* it; the suspended generator is left to the garbage collector.           *)
LeaveTail ==
  /\ handler = "leaving"
  /\ handler' = "left"
  /\ subscription' = IF subscription = "active" THEN "gone" ELSE subscription
  /\ UNCHANGED <<client, event, generator, consumer, server, handling, queue, tailStats, tailSent>>

(* The event loop closes the collected generator: its finally cancels the  *)
(* consumer and waits for it; unsubscribe() finds nothing to release.      *)
CloseGenerator ==
  /\ handler = "left"
  /\ generator = "yielded"
  /\ generator' = "closed"
  /\ consumer' = "ended"
  /\ handling' = 0
  /\ UNCHANGED <<handler, event, client, subscription, server, queue, tailStats, tailSent>>

-----------------------------------------------------------------------------
(* External: a line is published, and delivered if there is a subscription.*)
Publish ==
  /\ published < MaxLines
  /\ published' = published + 1
  /\ IF subscription = "active"
     THEN /\ inbox' = Append(inbox, published + 1)
          /\ unacked' = unacked \union {published + 1}
     ELSE UNCHANGED <<inbox, unacked>>
  /\ UNCHANGED <<handler, event, client, subscription, generator, consumer, handling, queue,
                 tailStats, tailSent, redelivered, faults>>

(* External: the ack wait of a message is over.                            *)
Redeliver ==
  /\ subscription = "active"
  /\ faults < MaxFaults
  /\ faults' = faults + 1
  /\ redelivered' = redelivered + 1
  /\ \E m \in unacked : inbox' = Append(inbox, m)
  /\ UNCHANGED <<handler, event, client, subscription, generator, consumer, published, handling,
                 unacked, queue, tailStats, tailSent>>

(* External: the client closes its connection.                             *)
Disconnect ==
  /\ client
  /\ client' = FALSE
  /\ UNCHANGED <<handler, event, subscription, generator, consumer, server, handling, queue,
                 tailStats, tailSent>>

TailNext ==
  \/ Subscribe \/ SubscribeFails
  \/ Handle \/ Acknowledge \/ AcknowledgeRaises
  \/ YieldLine \/ Heartbeat \/ Send \/ LeaveTail \/ CloseGenerator
  \/ Publish \/ Redeliver \/ Disconnect

(* The timer of the heartbeat fires, coroutines run, and the loop closes   *)
(* collected generators.                                                   *)
TailFairness == WF_tailVars(YieldLine) /\ WF_tailVars(Heartbeat) /\ WF_tailVars(Send)
            /\ WF_tailVars(LeaveTail) /\ WF_tailVars(CloseGenerator)

TailSpec == TailInit /\ [][TailNext]_tailVars
TailFairSpec == TailSpec /\ TailFairness

-----------------------------------------------------------------------------
Got == tailSent \o event \o queue

(* While the client is there, every line that matched is with it, on its   *)
(* way, or counted in the `dropped` it is told; and unless a message was   *)
(* delivered twice the lines come once and in order, gaps included.        *)
TailIsHonest ==
  client => /\ Len(Got) + dropped = matched
            /\ redelivered = 0 => \A i, j \in DOMAIN Got : i < j => Got[i] < Got[j]

(* A client that is gone leaves nothing behind: subscription and consumer  *)
(* end, also if no line ever comes again or the consumer died before.      *)
TailIsReleased ==
  (~client /\ handler # "accepted") ~> (subscription # "active" /\ consumer = "ended")

=============================================================================
