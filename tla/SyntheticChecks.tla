---------------------------- MODULE SyntheticChecks ---------------------------
(***************************************************************************)
(* services/synthetics/monitor.py: one check of a monitor's target from a  *)
(* location, the assertions on its result, and what the routes make of the *)
(* stored results: uptime, incidents, and the status page.  When checks    *)
(* are made, and that a result is stored, is SyntheticScheduler's part.    *)
(***************************************************************************)
EXTENDS Integers, Sequences, SequencesExt, FiniteSets

CONSTANTS
  Locations,
  MaxChecks    \* bound: stored results

ASSUME ChecksAssumption == MaxChecks \in Nat

VARIABLES
  protocol,    \* MonitorType
  checkResults   \* synthetic_check_results, by timestamp

checkVars == <<protocol, checkResults>>

Protocols == {"http", "ssl", "dns", "tcp"}     \* api and browser are http, grpc is tcp

(* External: what can come of asking the target.  "raises" is an exception *)
(* that the handler of the protocol does not catch.  (_check_http gives    *)
(* plain functions as event hooks to an asynchronous client, which has to  *)
(* await them: with httpx as documented "raises" is all that comes of it.) *)
Outcomes(p) ==
  CASE p = "http" -> {"answers", "client error", "server error", "timeout", "raises"}
    [] p = "ssl" -> {"valid", "expires soon", "fails", "raises"}
    [] p = "dns" -> {"resolves", "fails", "raises"}
    [] p = "tcp" -> {"connects", "fails", "raises"}

(* Assertions, one or two of each type; a code of 0 stands for None.       *)
Assertions ==
  {[type |-> "status_code", operator |-> "eq", expected |-> 200],
   [type |-> "status_code", operator |-> "lt", expected |-> 500],
   [type |-> "status_code", operator |-> "contains", expected |-> 200],
   [type |-> "response_time", operator |-> "lt", expected |-> 2],
   [type |-> "response_time", operator |-> "gt", expected |-> 0],
   [type |-> "body_contains", operator |-> "contains", expected |-> 0],
   [type |-> "header_matches", operator |-> "matches", expected |-> 0],
   [type |-> "ssl_expiry_days", operator |-> "gt", expected |-> 14],
   [type |-> "dns_resolves", operator |-> "eq", expected |-> 1]}

CheckTypeOK ==
  /\ protocol \in Protocols
  /\ checkResults \in Seq([location : Locations, status : {"up", "down", "degraded"},
                             code : {0, 200, 404, 503}, time : 0..2,
                             passed : SUBSET Assertions])
  /\ Len(checkResults) <= MaxChecks

CheckInit == protocol \in Protocols /\ checkResults = <<>>

-----------------------------------------------------------------------------
Compare(operator, actual, expected) ==
  \/ operator = "eq" /\ actual = expected
  \/ operator = "lt" /\ actual < expected
  \/ operator = "gt" /\ actual > expected

(* Mutant of Passes: no status code compares like 0.                       *)
PassesOnNone(result, a) ==
  CASE a.type = "status_code" -> Compare(a.operator, result.code, a.expected)
    [] a.type = "response_time" -> Compare(a.operator, result.time, a.expected)
    [] a.type = "body_contains" -> TRUE
    [] a.type \in {"ssl_expiry_days", "dns_resolves"} -> result.status # "down"
    [] OTHER -> FALSE

(* _eval_single_assertion: the body is not looked at, headers never match, *)
(* and expiry and resolution are the status of the check, whatever they    *)
(* are expected to be.                                                     *)
Passes(result, a) ==
  CASE a.type = "status_code" -> result.code # 0 /\ Compare(a.operator, result.code, a.expected)
    [] a.type = "response_time" -> Compare(a.operator, result.time, a.expected)
    [] a.type = "body_contains" -> TRUE
    [] a.type \in {"ssl_expiry_days", "dns_resolves"} -> result.status # "down"
    [] OTHER -> FALSE

(* _check_http, _check_ssl, _check_dns and _check_tcp, and the exception   *)
(* handler of execute_check, which knows no response time.                 *)
Status(outcome) ==
  CASE outcome \in {"answers", "valid", "resolves", "connects"} -> "up"
    [] outcome \in {"client error", "expires soon"} -> "degraded"
    [] OTHER -> "down"
Code(outcome) ==
  CASE outcome = "answers" -> 200 [] outcome = "client error" -> 404
    [] outcome = "server error" -> 503 [] OTHER -> 0

(* execute_check                                                           *)
ExecuteCheck(l) ==
  /\ Len(checkResults) < MaxChecks
  /\ \E outcome \in Outcomes(protocol), t \in 1..2 :
       LET result == [location |-> l, status |-> Status(outcome), code |-> Code(outcome),
                      time |-> IF outcome = "raises" THEN 0 ELSE t]
           row == [location |-> l, status |-> result.status, code |-> result.code,
                   time |-> result.time, passed |-> {a \in Assertions : Passes(result, a)}]
       IN  checkResults' = Append(checkResults, row)
  /\ UNCHANGED protocol

CheckNext == \E l \in Locations : ExecuteCheck(l)
CheckSpec == CheckInit /\ [][CheckNext]_checkVars

-----------------------------------------------------------------------------
Down(i) == checkResults[i].status = "down"
Total == Len(checkResults)
Passed == Cardinality({i \in 1..Total : checkResults[i].status = "up"})

(* get_uptime: the share of checks that were up, in hundredths of a        *)
(* percent; all of them if there is none.                                  *)
Uptime == IF Total > 0 THEN (Passed * 10000) \div Total ELSE 10000

(* get_status_page: `or 100.0` takes a share of zero for a missing one.    *)
PageUptime == IF Total = 0 \/ Passed = 0 THEN 10000 ELSE Uptime

(* _extract_incidents: one pass over the rows of all locations; only       *)
(* `start` tells whether an incident is open.                              *)
ExtractIncidents ==
  LET step(at, i) ==
        CASE Down(i) /\ at.start = 0 -> [at EXCEPT !.start = i]
          [] ~Down(i) /\ at.start # 0 ->
               [start |-> 0, incidents |-> Append(at.incidents, <<at.start, i>>)]
          [] OTHER -> at
      end == FoldLeft(step, [start |-> 0, incidents |-> <<>>], [i \in 1..Total |-> i])
  IN  IF end.start = 0 THEN end.incidents ELSE Append(end.incidents, <<end.start, 0>>)

(* The incidents are the longest runs of checks that were down, of         *)
(* whatever locations, in order; only the last one may be open.            *)
IncidentsAreRuns ==
  LET starts == {i \in 1..Total : Down(i) /\ (i = 1 \/ ~Down(i - 1))}
      endOf(i) == {j \in i..Total : ~Down(j) /\ \A k \in i..(j - 1) : Down(k)}
  IN  /\ {ExtractIncidents[n][1] : n \in DOMAIN ExtractIncidents} = starts
      /\ Len(ExtractIncidents) = Cardinality(starts)
      /\ \A n \in DOMAIN ExtractIncidents :
           LET i == ExtractIncidents[n][1]
           IN  IF endOf(i) = {} THEN ExtractIncidents[n][2] = 0 /\ n = Len(ExtractIncidents)
               ELSE ExtractIncidents[n][2] \in endOf(i)

(* Uptime and incidents are told from the same rows: full uptime leaves    *)
(* none.  The status page agrees with the uptime, but where nothing at all *)
(* was up: there it shows 100 for an uptime of 0, as the code does.        *)
FiguresAgree ==
  /\ Uptime = 10000 => ExtractIncidents = <<>>
  /\ Passed > 0 => PageUptime = Uptime

(* A target that gave no answer satisfies no assertion about its status,   *)
(* headers, certificate or names.  The other two kinds are out of the      *)
(* claim, since they may pass without an answer: "lt" on a response time   *)
(* that was left at 0, and a body assertion, which always passes.          *)
NothingPassesUnanswered ==
  \A i \in 1..Total :
    (Down(i) /\ checkResults[i].code = 0) =>
      \A a \in checkResults[i].passed : a.type \in {"response_time", "body_contains"}

(* Stored checks tell what happened to the target, with the two exceptions *)
(* that the parts above name: the page of a target never up, and time and  *)
(* body of a check without an answer (monitor.py 405-446, 470-558,         *)
(* 560-612); with the types of the variables.                              *)
ChecksTellTheTruth == CheckTypeOK /\ IncidentsAreRuns /\ FiguresAgree /\ NothingPassesUnanswered

=============================================================================
