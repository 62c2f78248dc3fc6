----------------------------- MODULE RateLimiter -----------------------------
(***************************************************************************)
(* check_rate_limit of api/routes/ingest.py, for the requests of one       *)
(* tenant.  It is a plain function: the JSON and OTLP routes call it on    *)
(* the event loop, one request at a time, the compatibility routes depend  *)
(* on it and run it in a thread of the pool.  Nothing guards its state, so *)
(* that checks in threads, and one on the loop, interleave between the     *)
(* clock, the read of the state and the write.                             *)
(***************************************************************************)
EXTENDS Integers, FiniteSets

CONSTANTS
  Requesters,    \* bound: the requests that are checked at a time
  RateWindow,    \* _RATE_LIMIT_WINDOW
  RateMax,       \* _RATE_LIMIT_MAX
  LastTime       \* bound: the clock

ASSUME RateAssumption == RateWindow \in Nat /\ RateMax \in Nat /\ LastTime \in Nat

VARIABLES
  clock,
  window,       \* _rate_limit_state of the tenant: [start, count], start -1 when there is none
  checks,       \* for each requester how far its check is and what it has read
  admitted,     \* requests let through: [at, number]
  refused,      \* the windows in which a request was refused, as their starts
  overlapped    \* whether a check ever began while another was under way

rateVars == <<clock, window, checks, admitted, refused, overlapped>>

NotChecking == [step |-> "idle", on |-> "none", now |-> 0, start |-> 0, count |-> 0]

RateInit ==
  /\ clock = 0
  /\ window = [start |-> -1, count |-> 0]
  /\ checks = [r \in Requesters |-> NotChecking]
  /\ admitted = {}
  /\ refused = {}
  /\ overlapped = FALSE

-----------------------------------------------------------------------------
(* The time is read first.  The loop runs one check through before it      *)
(* turns to another request.                                               *)
BeginCheck(r, where) ==
  /\ checks[r].step = "idle"
  /\ where = "loop" => \A other \in Requesters : checks[other].on # "loop"
  /\ checks' = [checks EXCEPT ![r] = [NotChecking EXCEPT !.step = "timed", !.on = where, !.now = clock]]
  /\ overlapped' = (overlapped \/ \E other \in Requesters : checks[other].step # "idle")
  /\ UNCHANGED <<clock, window, admitted, refused>>

(* A tenant without a window is given an empty one that begins now.        *)
ReadWindow(r) ==
  /\ checks[r].step = "timed"
  /\ checks' = [checks EXCEPT ![r] =
                  [@ EXCEPT !.step = "read", !.count = window.count,
                            !.start = IF window.start < 0 THEN checks[r].now ELSE window.start]]
  /\ UNCHANGED <<clock, window, admitted, refused, overlapped>>

(* Mutant of Exhausted: one request more.                                  *)
ExhaustedLate(check) == check.count > RateMax

Exhausted(check) == check.count >= RateMax
Elapsed(check) == check.now - check.start > RateWindow

EndCheck(r) ==
  /\ checks[r].step = "read"
  /\ checks' = [checks EXCEPT ![r] = NotChecking]
  /\ UNCHANGED <<clock, overlapped>>

Admit(start, count) ==
  /\ window' = [start |-> start, count |-> count]
  /\ admitted' = admitted \union {[at |-> clock, number |-> Cardinality(admitted) + 1]}
  /\ UNCHANGED refused

(* The first request after a window is over opens the next, the others are *)
(* counted in what was read, and refused requests are not counted.         *)
OpenWindow(r) == EndCheck(r) /\ Elapsed(checks[r]) /\ Admit(checks[r].now, 1)

CountRequest(r) ==
  /\ EndCheck(r)
  /\ ~Elapsed(checks[r]) /\ ~Exhausted(checks[r])
  /\ Admit(checks[r].start, checks[r].count + 1)

Refuse(r) ==
  /\ EndCheck(r)
  /\ ~Elapsed(checks[r]) /\ Exhausted(checks[r])
  /\ refused' = refused \union {checks[r].start}
  /\ UNCHANGED <<window, admitted>>

RateClockTicks ==
  /\ clock < LastTime
  /\ clock' = clock + 1
  /\ UNCHANGED <<window, checks, admitted, refused, overlapped>>

RateNext ==
  \/ \E r \in Requesters :
       \/ \E where \in {"loop", "thread"} : BeginCheck(r, where)
       \/ ReadWindow(r) \/ OpenWindow(r) \/ CountRequest(r) \/ Refuse(r)
  \/ RateClockTicks

RateSpec == RateInit /\ [][RateNext]_rateVars

-----------------------------------------------------------------------------
AdmittedBetween(from, to) == {a \in admitted : from <= a.at /\ a.at < to}
AdmittedSince(from) == {a \in admitted : from <= a.at}

(* ingest.py 67-81: however the checks interleave and lose each other's    *)
(* counts, a request is refused only when as many as the limit were let    *)
(* through since the window it saw began.  The windows are fixed, so that  *)
(* a tenant whose checks never overlap may get twice the limit through in  *)
(* a span of their length, but never more.                                 *)
RateIsBounded ==
  /\ \A start \in refused : Cardinality(AdmittedSince(start)) >= RateMax
  /\ ~overlapped =>
       \A t \in 0..LastTime : Cardinality(AdmittedBetween(t, t + RateWindow)) <= 2 * RateMax

=============================================================================
