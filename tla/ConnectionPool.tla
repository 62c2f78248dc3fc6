---------------------------- MODULE ConnectionPool ---------------------------
(***************************************************************************)
(* services/query/connection_pool.py: a fixed number of ClickHouse clients *)
(* shared by the query tasks of one event loop.                            *)
(*                                                                         *)
(* acquire() takes a permit of an asyncio.Semaphore, then a client from an *)
(* asyncio.Queue, checks its health, replaces it when it is dead, and puts *)
(* it back when the caller is done.  Only the semaphore, an empty queue    *)
(* and the caller's own body suspend; health check, replacement, put and   *)
(* release run without suspending.  The semaphore is fair: release() hands *)
(* the permit to the longest waiter, and acquire() queues behind waiters.  *)
(* Clients in the queue are a bag (copies per client).                     *)
(***************************************************************************)
EXTENDS Integers, Sequences, FiniteSets, SequencesExt

CONSTANTS
  Tasks,      \* tasks that acquire clients
  Clients,    \* every client ever created (bounds the replacements)
  NoClient,
  PoolSize    \* pool_size

ASSUME PoolAssumption ==
  /\ PoolSize \in Nat \ {0}
  /\ NoClient \notin Clients
  /\ IsFiniteSet(Tasks)

VARIABLES
  permits,    \* the semaphore's value
  waiters,    \* tasks waiting for a permit, longest first
  idle,       \* copies of each client in the _available queue
  all,        \* _all_clients
  closed,     \* _closed
  pc,         \* where acquire() is, per task
  holds,      \* the client a task got
  alive,      \* clients whose connection works
  created,    \* clients made so far
  setup       \* "new", "partial" (initialize() raised) or "ready"

vars == <<permits, waiters, idle, all, closed, pc, holds, alive, created, setup>>

Inside == {t \in Tasks : pc[t] \in {"granted", "getting", "using"}}
Using == {t \in Tasks : pc[t] = "using"}
QueueEmpty == \A c \in Clients : idle[c] = 0
Fresh == Clients \ created

TypeOK ==
  /\ permits \in Nat
  /\ waiters \in Seq(Tasks)
  /\ idle \in [Clients -> Nat]
  /\ all \in SUBSET Clients
  /\ closed \in BOOLEAN
  /\ pc \in [Tasks -> {"out", "waiting", "granted", "getting", "using"}]
  /\ holds \in [Tasks -> Clients \union {NoClient}]
  /\ alive \in SUBSET Clients
  /\ created \in SUBSET Clients
  /\ setup \in {"new", "partial", "ready"}

Init ==
  /\ permits = 0
  /\ waiters = <<>>
  /\ idle = [c \in Clients |-> 0]
  /\ all = {}
  /\ closed = FALSE
  /\ pc = [t \in Tasks |-> "out"]
  /\ holds = [t \in Tasks |-> NoClient]
  /\ alive = {}
  /\ created = {}
  /\ setup = "new"

-----------------------------------------------------------------------------
(* initialize(): a new semaphore, then PoolSize clients; when creating one *)
(* raises, the clients made before it stay.  It is called at start-up, and *)
(* called again when it failed, before any task uses the pool.             *)
Initialize ==
  /\ setup # "ready"
  /\ ~closed
  /\ \A t \in Tasks : pc[t] = "out"
  /\ permits' = PoolSize
  /\ \E new \in SUBSET Fresh :
       /\ IsFiniteSet(new) /\ Cardinality(new) <= PoolSize
       /\ setup' = IF Cardinality(new) = PoolSize THEN "ready" ELSE "partial"
       /\ created' = created \union new
       /\ alive' = alive \union new
       /\ all' = all \union new
       /\ idle' = [c \in Clients |-> idle[c] + IF c \in new THEN 1 ELSE 0]
  /\ UNCHANGED <<waiters, closed, pc, holds>>

(* acquire() up to the permit.  With no semaphore, or closed, it raises.   *)
Enter(t) ==
  /\ pc[t] = "out"
  /\ ~closed
  /\ setup # "new"
  /\ IF permits > 0 /\ waiters = <<>>
     THEN /\ permits' = permits - 1
          /\ pc' = [pc EXCEPT ![t] = "granted"]
          /\ UNCHANGED waiters
     ELSE /\ waiters' = Append(waiters, t)
          /\ pc' = [pc EXCEPT ![t] = "waiting"]
          /\ UNCHANGED permits
  /\ UNCHANGED <<idle, all, closed, holds, alive, created, setup>>

(* Mutant of Leave: release() gives the permit back but wakes nobody.      *)
LeaveWakesNobody(t) ==
  /\ permits' = permits + 1
  /\ pc' = [pc EXCEPT ![t] = "out"]
  /\ UNCHANGED waiters

(* `async with self._semaphore` ends: release() wakes the longest waiter   *)
(* with the permit, or gives the permit back.                              *)
Leave(t) ==
  IF waiters = <<>>
  THEN /\ permits' = permits + 1
       /\ pc' = [pc EXCEPT ![t] = "out"]
       /\ UNCHANGED waiters
  ELSE /\ waiters' = Tail(waiters)
       /\ pc' = [pc EXCEPT ![t] = "out", ![Head(waiters)] = "granted"]
       /\ UNCHANGED permits

(* `await self._available.get()` finds the queue empty.                    *)
Block(t) ==
  /\ pc[t] = "granted"
  /\ QueueEmpty
  /\ pc' = [pc EXCEPT ![t] = "getting"]
  /\ UNCHANGED <<permits, waiters, idle, all, closed, holds, alive, created, setup>>

CanGet(t, c) == pc[t] \in {"granted", "getting"} /\ idle[c] > 0

(* The client is alive and handed to the caller.                           *)
Checkout(t, c) ==
  /\ CanGet(t, c)
  /\ c \in alive
  /\ idle' = [idle EXCEPT ![c] = @ - 1]
  /\ holds' = [holds EXCEPT ![t] = c]
  /\ pc' = [pc EXCEPT ![t] = "using"]
  /\ UNCHANGED <<permits, waiters, all, closed, alive, created, setup>>

(* _replace_client: the dead client leaves _all_clients, a new one joins.  *)
CheckoutReplaced(t, c) ==
  /\ CanGet(t, c)
  /\ c \notin alive
  /\ \E new \in Fresh :
       /\ created' = created \union {new}
       /\ alive' = alive \union {new}
       /\ all' = (all \ {c}) \union {new}
       /\ holds' = [holds EXCEPT ![t] = new]
  /\ idle' = [idle EXCEPT ![c] = @ - 1]
  /\ pc' = [pc EXCEPT ![t] = "using"]
  /\ UNCHANGED <<permits, waiters, closed, setup>>

(* Mutant of CheckoutFails: the client that could not be replaced is lost. *)
CheckoutFailsLosesClient(t, c) ==
  /\ CanGet(t, c)
  /\ c \notin alive
  /\ all' = all \ {c}
  /\ idle' = [idle EXCEPT ![c] = @ - 1]
  /\ Leave(t)
  /\ UNCHANGED <<closed, holds, alive, created, setup>>

(* _create_client raises in _replace_client: the dead client goes back to  *)
(* the queue, though no longer to _all_clients, and acquire() raises.      *)
CheckoutFails(t, c) ==
  /\ CanGet(t, c)
  /\ c \notin alive
  /\ all' = all \ {c}
  /\ idle' = [idle EXCEPT ![c] = IF closed THEN @ - 1 ELSE @]
  /\ Leave(t)
  /\ UNCHANGED <<closed, holds, alive, created, setup>>

(* Mutant of Release: the client is put back into a closed pool.           *)
ReleaseIntoClosed(t) ==
  /\ pc[t] = "using"
  /\ holds' = [holds EXCEPT ![t] = NoClient]
  /\ idle' = [idle EXCEPT ![holds[t]] = @ + 1]
  /\ Leave(t)
  /\ UNCHANGED <<all, closed, alive, created, setup>>

(* The caller's body ends, normally, with an error or cancelled: `finally` *)
(* puts the client back unless the pool was closed meanwhile.              *)
Release(t) ==
  /\ pc[t] = "using"
  /\ holds' = [holds EXCEPT ![t] = NoClient]
  /\ idle' = IF closed THEN idle ELSE [idle EXCEPT ![holds[t]] = @ + 1]
  /\ Leave(t)
  /\ UNCHANGED <<all, closed, alive, created, setup>>

(* Mutant of CancelWaiting: a waiter without a permit gives one back.      *)
CancelWaitingMintsPermit(t) ==
  /\ pc[t] = "waiting"
  /\ \E i \in 1..Len(waiters) : waiters[i] = t /\ waiters' = RemoveAt(waiters, i)
  /\ pc' = [pc EXCEPT ![t] = "out"]
  /\ permits' = permits + 1
  /\ UNCHANGED <<idle, all, closed, holds, alive, created, setup>>

(* The task is cancelled while it waits for a permit.                      *)
CancelWaiting(t) ==
  /\ pc[t] = "waiting"
  /\ \E i \in 1..Len(waiters) : waiters[i] = t /\ waiters' = RemoveAt(waiters, i)
  /\ pc' = [pc EXCEPT ![t] = "out"]
  /\ UNCHANGED <<permits, idle, all, closed, holds, alive, created, setup>>

(* ... or, with the permit, before it got a client.                        *)
CancelGranted(t) ==
  /\ pc[t] \in {"granted", "getting"}
  /\ Leave(t)
  /\ UNCHANGED <<idle, all, closed, holds, alive, created, setup>>

(* close(): every client in _all_clients, the ones in use included.        *)
Close ==
  /\ ~closed
  /\ closed' = TRUE
  /\ alive' = alive \ all
  /\ all' = {}
  /\ idle' = [c \in Clients |-> 0]
  /\ UNCHANGED <<permits, waiters, pc, holds, created, setup>>

(* External: the server drops a connection.                                *)
ConnectionDies(c) ==
  /\ c \in alive
  /\ alive' = alive \ {c}
  /\ UNCHANGED <<permits, waiters, idle, all, closed, pc, holds, created, setup>>

Get(t) ==
  \/ Block(t)
  \/ \E c \in Clients : Checkout(t, c) \/ CheckoutReplaced(t, c) \/ CheckoutFails(t, c)

Next ==
  \/ Initialize
  \/ \E t \in Tasks : \/ Enter(t) \/ Get(t) \/ Release(t)
                      \/ CancelWaiting(t) \/ CancelGranted(t)
  \/ Close
  \/ \E c \in Clients : ConnectionDies(c)

(* A scheduled task runs, and callers do not keep a client for ever.       *)
Fairness == \A t \in Tasks : WF_vars(Get(t)) /\ WF_vars(Release(t))

Spec == Init /\ [][Next]_vars
FairSpec == Spec /\ Fairness

-----------------------------------------------------------------------------
(* A client is in one place: in the queue once, or with one task, also     *)
(* when it was replaced, its replacement failed, or its task was cancelled.*)
OneOwner ==
  \A c \in Clients :
    idle[c] + Cardinality({t \in Tasks : holds[t] = c}) <= 1

(* The semaphore neither leaks nor mints permits: cancelled waiters,       *)
(* hand-offs and failed replacements included.                             *)
PermitsConserved ==
  setup # "new" => permits + Cardinality(Inside) = PoolSize

(* Neither a client nor a permit is ever in two hands, or in none.         *)
PoolStaysWhole == OneOwner /\ PermitsConserved

Queued == UNION {{c} \X (1..idle[c]) : c \in Clients}

(* In a pool that was fully initialized and is open, a permit means a      *)
(* client: whoever has the permit never waits on the queue, whatever died  *)
(* or failed to be replaced before.                                        *)
PermitMeansClient ==
  (setup = "ready" /\ ~closed) =>
    Cardinality(Queued) >= permits + Cardinality(Inside \ Using)

(* A closed pool hands out nothing, and has nothing left to hand out: what *)
(* was in use is not put back.                                             *)
ClosedHandsOutNothing ==
  [][closed => /\ \A c \in Clients : idle'[c] = 0
               /\ Using' \subseteq Using]_vars

(* While the pool is open, a task that waits gets a client, fails to, or   *)
(* is cancelled: cancellations and failures of others do not strand it.    *)
WaitersAreServed ==
  \A t \in Tasks :
    (pc[t] \in {"waiting", "granted"} /\ setup = "ready")
      ~> (pc[t] \in {"using", "out"} \/ closed)

=============================================================================
