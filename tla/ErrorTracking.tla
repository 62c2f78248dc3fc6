---------------------------- MODULE ErrorTracking ----------------------------
(***************************************************************************)
(* services/apm/errors.py: the errors of a service are grouped, given a    *)
(* fingerprint, and compared with the ones that were marked resolved.  The *)
(* tables (spans and apm.error_resolutions) are written by others; an      *)
(* inquiry reads them one after the other while errors go on occurring and *)
(* being resolved.  A message is a sequence of tokens [kind, value].       *)
(***************************************************************************)
EXTENDS Integers, Sequences, FiniteSets

CONSTANTS
  Messages,     \* what the service may report
  NewFor,       \* an error seen for less than this (an hour) is new
  LastTick,     \* bound: the clock
  MaxErrors,    \* bound: occurrences
  MaxResolved   \* bound: resolutions

ASSUME ErrorAssumption == {NewFor, LastTick, MaxErrors, MaxResolved} \subseteq Nat

VARIABLES
  tick,
  occurrences,   \* spans with an error: set of [message, at]
  resolutions,   \* set of [fingerprint, at]
  inquiry        \* the detect_regressions being answered; seen is history: the
                 \* spans stored when it read its rows

errorVars == <<tick, occurrences, resolutions, inquiry>>

NoInquiry == [step |-> "none", start |-> 0, end |-> 0, resolved |-> {}, rows |-> {}, seen |-> {},
              groups |-> {}, regressions |-> {}]
ErrorInit == tick = 0 /\ occurrences = {} /\ resolutions = {} /\ inquiry = NoInquiry

-----------------------------------------------------------------------------
(* _normalize: the patterns run in order, and the one for numbers of four  *)
(* digits comes before those for timestamps and lines.  It takes the year  *)
(* out of a timestamp, whose pattern then no longer matches, so the rest   *)
(* of it stays; a line of four digits becomes another text than one of     *)
(* three.                                                                  *)
Normalize(token) ==
  CASE token.kind \in {"uuid", "hex", "number", "ip", "address", "quoted"} -> [token EXCEPT !.value = 0]
    [] token.kind = "line" -> [token EXCEPT !.value = IF @ >= 1000 THEN 1000 ELSE 1]
    [] OTHER -> token
Fingerprint(message) == [i \in DOMAIN message |-> Normalize(message[i])]

(* The rows of GROUP BY message: two messages with one fingerprint stay    *)
(* two groups.                                                             *)
Grouped(start, end) ==
  LET seen(m) == {o.at : o \in {q \in occurrences : q.message = m /\ start <= q.at /\ q.at <= end}}
  IN  {[message |-> m,
        first |-> CHOOSE t \in seen(m) : \A u \in seen(m) : t <= u,
        last |-> CHOOSE t \in seen(m) : \A u \in seen(m) : u <= t] : m \in {q \in Messages : seen(q) # {}}}

StatusIn(row, fingerprints) ==
  IF Fingerprint(row.message) \in fingerprints THEN "regressed"
  ELSE IF row.last - row.first < NewFor THEN "new" ELSE "ongoing"

(* Mutant of Regressions: any group of a resolved fingerprint.             *)
RegressionsOfAny(groups, resolvedAt) ==
  {[message |-> g.message, reappeared |-> g.first, resolved |-> resolvedAt[Fingerprint(g.message)]] :
     g \in {h \in groups : Fingerprint(h.message) \in DOMAIN resolvedAt}}

(* Only a group that began after the resolution has come back.             *)
Regressions(groups, resolvedAt) ==
  {[message |-> g.message, reappeared |-> g.first, resolved |-> resolvedAt[Fingerprint(g.message)]] :
     g \in {h \in groups : /\ Fingerprint(h.message) \in DOMAIN resolvedAt
                           /\ h.first > resolvedAt[Fingerprint(h.message)]}}

-----------------------------------------------------------------------------
(* detect_regressions: the resolutions before the end of the range ...     *)
ReadResolutions ==
  /\ inquiry.step = "none"
  /\ \E start \in 0..tick :
       LET resolved == {r \in resolutions : r.at < tick}
       IN  inquiry' = [NoInquiry EXCEPT !.step = IF resolved = {} THEN "done" ELSE "rows",
                                        !.start = start, !.end = tick, !.resolved = resolved]
  /\ UNCHANGED <<tick, occurrences, resolutions>>

(* ... then get_error_groups: the rows ...                                 *)
ReadRows ==
  /\ inquiry.step = "rows"
  /\ inquiry' = [inquiry EXCEPT !.step = "fingerprints", !.rows = Grouped(inquiry.start, inquiry.end),
                                    !.seen = occurrences]
  /\ UNCHANGED <<tick, occurrences, resolutions>>

(* ... and the fingerprints of all resolutions.  The dictionary keeps one  *)
(* resolution of each fingerprint, whichever the table returned last.      *)
ReadFingerprints ==
  /\ inquiry.step = "fingerprints"
  /\ LET fingerprints == {r.fingerprint : r \in resolutions}
         groups == {[message |-> row.message, first |-> row.first, last |-> row.last,
                     status |-> StatusIn(row, fingerprints)] : row \in inquiry.rows}
         known == {r.fingerprint : r \in inquiry.resolved}
     IN  \E resolvedAt \in [known -> {r.at : r \in inquiry.resolved}] :
           /\ \A f \in known : [fingerprint |-> f, at |-> resolvedAt[f]] \in inquiry.resolved
           /\ inquiry' = [inquiry EXCEPT !.step = "done", !.groups = groups,
                                         !.regressions = Regressions(groups, resolvedAt)]
  /\ UNCHANGED <<tick, occurrences, resolutions>>

EndInquiry == inquiry.step = "done" /\ inquiry' = NoInquiry /\ UNCHANGED <<tick, occurrences, resolutions>>

-----------------------------------------------------------------------------
(* A span is stored when its batch is: any time after it happened, also    *)
(* after a resolution that is younger.                                     *)
ErrorOccurs ==
  /\ Cardinality(occurrences) < MaxErrors
  /\ \E m \in Messages, at \in 0..tick : occurrences' = occurrences \cup {[message |-> m, at |-> at]}
  /\ UNCHANGED <<tick, resolutions, inquiry>>

(* Someone marks an error they have seen as resolved.                      *)
ErrorIsResolved ==
  /\ Cardinality(resolutions) < MaxResolved
  /\ \E o \in occurrences :
       resolutions' = resolutions \cup {[fingerprint |-> Fingerprint(o.message), at |-> tick]}
  /\ UNCHANGED <<tick, occurrences, inquiry>>

TickPasses == tick < LastTick /\ tick' = tick + 1 /\ UNCHANGED <<occurrences, resolutions, inquiry>>

ErrorNext == ReadResolutions \/ ReadRows \/ ReadFingerprints \/ EndInquiry
             \/ ErrorOccurs \/ ErrorIsResolved \/ TickPasses
ErrorSpec == ErrorInit /\ [][ErrorNext]_errorVars

-----------------------------------------------------------------------------
(* A regression that is reported is one: nothing of its message in the     *)
(* range that was stored when the rows were read is older than a           *)
(* resolution of its fingerprint, the list of groups shows it as regressed,*)
(* and no group that was resolved before the inquiry began is shown as     *)
(* new.  (A span older than the resolution that arrives later makes no     *)
(* difference to the answer: it has been given.)                           *)
RegressionsAreReal ==
  inquiry.step = "done" =>
    /\ \A r \in inquiry.regressions :
         /\ [fingerprint |-> Fingerprint(r.message), at |-> r.resolved] \in resolutions
         /\ \A o \in inquiry.seen : o.message = r.message /\ o.at \in inquiry.start..inquiry.end =>
              o.at > r.resolved
         /\ \E g \in inquiry.groups : g.message = r.message /\ g.status = "regressed"
    /\ \A g \in inquiry.groups : g.status # "regressed" =>
         \A r \in inquiry.resolved : r.fingerprint # Fingerprint(g.message)

=============================================================================
