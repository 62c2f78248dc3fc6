----------------------- MODULE AnalysisServicesProofs -----------------------
(***************************************************************************)
(* Six of the services that analyse what came in, each for any inputs and  *)
(* any bounds: the templates and the tree of Drain; of APM the regressions *)
(* and the service map, read table by table, the critical path of a trace  *)
(* and the analysis of an endpoint; the screens of the infrastructure; and *)
(* the pages of the dashboard, read statement by statement.  What folds    *)
(* and sums over data give is proved by induction for a set in place of    *)
(* the claim (CountingUp, GrowingSets).                                    *)
(***************************************************************************)
EXTENDS DrainParser, ErrorTracking, ServiceMap, Infrastructure, DataViews,
        TraceAnalysis, ServiceRulesProofs, FiniteSetTheorems, TLAPS

-----------------------------------------------------------------------------
(* Templates.  A pattern lies in some leaf; which one does not matter.     *)
Tokens == STRING \union {Wild}

PatternsIn(paths) ==
  [id : Seq(Tokens), path : paths, tokens : Seq(Tokens), count : Nat, attached : BOOLEAN,
   lines : SUBSET Logs]

DrainIInv == (\E paths : found \in Seq(PatternsIn(paths))) /\ TemplatesMatch

Stands(tokens, log) ==
  /\ Len(log) = Len(tokens)
  /\ \A k \in DOMAIN log : tokens[k] \in {log[k], Wild}

LEMMA TemplatesStand ==
  TemplatesMatch <=> \A i \in DOMAIN found : \A log \in found[i].lines : Stands(found[i].tokens, log)
BY DEF TemplatesMatch, Stands

LEMMA FunctionIsSequence ==
  ASSUME NEW S, NEW n \in Nat, NEW f \in [1..n -> S]
  PROVE  f \in Seq(S) /\ Len(f) = n
OBVIOUS

LEMMA SequenceOfMore ==
  ASSUME NEW S, NEW T, S \subseteq T, NEW s \in Seq(S)
  PROVE  s \in Seq(T)
<1>1. Len(s) \in Nat /\ s \in [1..Len(s) -> S]
  OBVIOUS
<1>2. \A i \in 1..Len(s) : s[i] \in T
  BY <1>1
<1>3. s \in [1..Len(s) -> T]
  BY <1>1, <1>2
<1>4. s \in Seq(T)
  BY <1>1, <1>3, FunctionIsSequence
<1> QED BY <1>4

LEMMA LogsAreLines ==
  ASSUME NEW log \in Logs
  PROVE  log \in Seq(Tokens) /\ Len(log) \in Nat /\ Len(log) > 0 /\ DOMAIN log = 1..Len(log)
<1>1. log \in Seq(STRING) /\ log # <<>>
  BY DrainAssumption DEF DrainAssumption
<1>2. log \in Seq(Tokens)
  BY <1>1, SequenceOfMore DEF Tokens
<1> QED BY <1>1, <1>2

Wider(p, tokens, lines) == [p EXCEPT !.count = @ + 1, !.tokens = tokens, !.lines = lines]

LEMMA WiderPattern ==
  ASSUME NEW paths, NEW p \in PatternsIn(paths), NEW tokens \in Seq(Tokens), NEW lines \in SUBSET Logs
  PROVE  /\ Wider(p, tokens, lines) \in PatternsIn(paths)
         /\ Wider(p, tokens, lines).tokens = tokens
         /\ Wider(p, tokens, lines).lines = lines
<1> DEFINE n == p.count + 1
           C == [p EXCEPT !.count = n]
           T == [C EXCEPT !.tokens = tokens]
           L == [T EXCEPT !.lines = lines]
<1>0. n \in Nat
  BY DEF PatternsIn
<1> HIDE DEF n
<1>1. C \in PatternsIn(paths)
  BY <1>0 DEF PatternsIn
<1> HIDE DEF C
<1>2. T \in PatternsIn(paths) /\ T.tokens = tokens
  BY <1>1 DEF PatternsIn
<1> HIDE DEF T
<1>3. L \in PatternsIn(paths) /\ L.tokens = tokens /\ L.lines = lines
  BY <1>2 DEF PatternsIn
<1> QED BY <1>3 DEF L, T, C, n, Wider

LEMMA TemplateStands ==
  ASSUME NEW log \in Logs
  PROVE  Template(log) \in Seq(Tokens) /\ Stands(Template(log), log)
<1>1. log \in Seq(Tokens) /\ Len(log) \in Nat /\ DOMAIN log = 1..Len(log)
  BY LogsAreLines
<1>2. \A i \in DOMAIN log : log[i] \in Tokens
  BY <1>1
<1>3. Template(log) = [i \in 1..Len(log) |-> IF log[i] \in Variables THEN Wild ELSE log[i]]
  BY <1>1 DEF Template
<1>4. Template(log) \in [1..Len(log) -> Tokens]
  BY <1>1, <1>2, <1>3 DEF Tokens
<1>5. Template(log) \in Seq(Tokens) /\ Len(Template(log)) = Len(log)
  BY <1>1, <1>4, FunctionIsSequence
<1> QED BY <1>1, <1>3, <1>5 DEF Stands

(* Widening by one line leaves what stood for others.                      *)
LEMMA WidenStands ==
  ASSUME NEW tokens \in Seq(Tokens), NEW log \in Logs, Len(log) = Len(tokens)
  PROVE  /\ Widen(tokens, log) \in Seq(Tokens)
         /\ Stands(Widen(tokens, log), log)
         /\ \A other \in Logs : Stands(tokens, other) => Stands(Widen(tokens, log), other)
<1>1. /\ log \in Seq(Tokens) /\ DOMAIN log = 1..Len(log)
      /\ DOMAIN tokens = 1..Len(tokens) /\ Len(tokens) \in Nat
  BY LogsAreLines
<1>2. \A i \in 1..Len(tokens) : tokens[i] \in Tokens
  BY <1>1
<1>3. Widen(tokens, log) = [i \in 1..Len(tokens) |-> IF tokens[i] = log[i] THEN tokens[i] ELSE Wild]
  BY <1>1 DEF Widen
<1>4. Widen(tokens, log) \in [1..Len(tokens) -> Tokens]
  BY <1>2, <1>3 DEF Tokens
<1>5. Widen(tokens, log) \in Seq(Tokens) /\ Len(Widen(tokens, log)) = Len(tokens)
  BY <1>1, <1>4, FunctionIsSequence
<1>6. Stands(Widen(tokens, log), log)
  BY <1>1, <1>3, <1>5 DEF Stands
<1>7. ASSUME NEW other \in Logs, Stands(tokens, other)
      PROVE  Stands(Widen(tokens, log), other)
  <2>1. Len(other) = Len(tokens) /\ DOMAIN other = 1..Len(tokens)
    BY <1>7, LogsAreLines DEF Stands
  <2>2. \A k \in DOMAIN other : tokens[k] \in {other[k], Wild}
    BY <1>7 DEF Stands
  <2>3. \A k \in DOMAIN other : Widen(tokens, log)[k] \in {other[k], Wild}
    BY <2>1, <2>2, <1>3
  <2> QED BY <2>1, <2>3, <1>5 DEF Stands
<1> QED BY <1>5, <1>6, <1>7

(* A pattern found for a line has its length.                              *)
LEMMA BestFits ==
  ASSUME NEW log \in Logs, NEW path, NEW i \in Best(log, path)
  PROVE  i \in DOMAIN found /\ Len(log) = Len(found[i].tokens)
<1>1. i \in DOMAIN found /\ Matches(log, found[i].tokens) * 2 >= Len(log)
  BY DEF Best
<1>2. Len(log) \in Nat /\ Len(log) > 0
  BY LogsAreLines
<1>3. Len(log) # Len(found[i].tokens) => Matches(log, found[i].tokens) = 0
  BY DEF Matches
<1> QED BY <1>1, <1>2, <1>3

(* What a line of an overflowing length does to the patterns before.       *)
Cut(p, log) == Overflows(log) /\ IsPrefix(<<Other>>, p.path)

Carried(p, q, log) ==
  /\ q.id = p.id /\ q.path = p.path /\ q.tokens = p.tokens /\ q.count = p.count
  /\ q.lines = p.lines
  /\ q.attached <=> p.attached /\ ~Cut(p, log)

LEMMA OldPatterns ==
  ASSUME NEW log \in Logs, NEW paths, found \in Seq(PatternsIn(paths))
  PROVE  LET old == Detached(log)
             n == Len(found)
         IN  /\ n \in Nat /\ DOMAIN found = 1..n
             /\ old \in Seq(PatternsIn(paths)) /\ Len(old) = n /\ DOMAIN old = 1..n
             /\ \A i \in 1..n : Carried(found[i], old[i], log)
             /\ ~Overflows(log) => \A i \in 1..n : old[i] = found[i]
<1>1. DOMAIN found = 1..Len(found) /\ Len(found) \in Nat
  OBVIOUS
<1>2. \A i \in 1..Len(found) : found[i] \in PatternsIn(paths)
  OBVIOUS
<1> DEFINE kept(i) == IF Cut(found[i], log)
                      THEN [found[i] EXCEPT !.attached = FALSE] ELSE found[i]
<1>3. Detached(log) = [i \in 1..Len(found) |-> kept(i)]
  BY <1>1 DEF Detached, Cut
<1>4. ASSUME NEW i \in 1..Len(found)
      PROVE  kept(i) \in PatternsIn(paths) /\ Carried(found[i], kept(i), log)
  <2>1. found[i] \in PatternsIn(paths)
    BY <1>2
  <2> DEFINE p == found[i]
             cut == [p EXCEPT !.attached = FALSE]
  <2> HIDE DEF p
  <2>2. cut \in PatternsIn(paths)
    BY <2>1 DEF PatternsIn, p
  <2>3. /\ cut.id = p.id /\ cut.path = p.path /\ cut.tokens = p.tokens /\ cut.count = p.count
        /\ cut.lines = p.lines /\ cut.attached = FALSE
    BY <2>1 DEF PatternsIn, p
  <2> HIDE DEF cut
  <2>6. kept(i) = IF Cut(p, log) THEN cut ELSE p
    BY DEF cut, p
  <2> HIDE DEF kept
  <2>4. CASE Cut(found[i], log)
    BY <2>2, <2>3, <2>4, <2>6 DEF Carried, p
  <2>5. CASE ~Cut(found[i], log)
    BY <2>1, <2>5, <2>6 DEF Carried, p
  <2> QED BY <2>4, <2>5
<1>5. ~Overflows(log) => \A i \in 1..Len(found) : kept(i) = found[i]
  BY DEF Cut
<1> HIDE DEF kept
<1>6. Detached(log) \in [1..Len(found) -> PatternsIn(paths)]
  BY <1>3, <1>4
<1>7. /\ Detached(log) \in Seq(PatternsIn(paths)) /\ Len(Detached(log)) = Len(found)
      /\ DOMAIN Detached(log) = 1..Len(found)
  BY <1>1, <1>6, FunctionIsSequence
<1>8. \A i \in 1..Len(found) : Detached(log)[i] = kept(i)
  BY <1>3
<1> QED BY <1>1, <1>4, <1>5, <1>7, <1>8, Zenon

LEMMA DetachedKeeps ==
  ASSUME DrainIInv, NEW log \in Logs, NEW paths, found \in Seq(PatternsIn(paths))
  PROVE  /\ Detached(log) \in Seq(PatternsIn(paths))
         /\ DOMAIN Detached(log) = DOMAIN found
         /\ \A i \in DOMAIN found : /\ Detached(log)[i].tokens = found[i].tokens
                                    /\ Detached(log)[i].lines = found[i].lines
<1>1. /\ Detached(log) \in Seq(PatternsIn(paths))
      /\ DOMAIN found = 1..Len(found) /\ DOMAIN Detached(log) = 1..Len(found)
      /\ \A i \in 1..Len(found) : Carried(found[i], Detached(log)[i], log)
  BY OldPatterns
<1>2. \A i \in DOMAIN found : Carried(found[i], Detached(log)[i], log)
  BY Zenon, <1>1
<1>3. \A i \in DOMAIN found : /\ Detached(log)[i].tokens = found[i].tokens
                              /\ Detached(log)[i].lines = found[i].lines
  BY SMTT(30), <1>2 DEF Carried
<1> QED BY Zenon, <1>1, <1>3

LEMMA ParseKeeps ==
  ASSUME DrainIInv, NEW log \in Logs, Parse(log)
  PROVE  DrainIInv'
<1> DEFINE at == Navigate(log)
           best == IF Overflows(log) THEN {} ELSE Best(log, at.path)
           old == Detached(log)
           new == [id |-> Template(log), path |-> at.path, tokens |-> Template(log),
                   count |-> 1, attached |-> TRUE, lines |-> {log}]
<1>1. \/ \E i \in best : found' = [old EXCEPT ![i].count = @ + 1,
                                            ![i].tokens = Widen(@, log),
                                            ![i].lines = @ \union {log}]
      \/ found' = Append(old, new)
      \/ found' = old
  BY Zenon DEF Parse
<1>2. PICK paths : found \in Seq(PatternsIn(paths))
  BY DEF DrainIInv
<1>3. /\ old \in Seq(PatternsIn(paths)) /\ DOMAIN old = DOMAIN found
      /\ \A i \in DOMAIN found : old[i].tokens = found[i].tokens /\ old[i].lines = found[i].lines
  BY <1>2, DetachedKeeps
<1>4. \A i \in DOMAIN found : \A line \in found[i].lines : Stands(found[i].tokens, line)
  BY TemplatesStand DEF DrainIInv
<1>5. \A i \in DOMAIN old : /\ old[i] \in PatternsIn(paths)
                            /\ \A line \in old[i].lines : Stands(old[i].tokens, line)
  BY <1>3, <1>4
<1>6. \A i \in best : i \in DOMAIN old /\ Len(log) = Len(old[i].tokens)
  BY <1>3, BestFits
<1>7. Template(log) \in Seq(Tokens) /\ Stands(Template(log), log)
  BY TemplateStands
<1> HIDE DEF old, best
<1>8. ASSUME NEW q, NEW all, found' = q, q \in Seq(PatternsIn(all)),
             \A i \in DOMAIN q : \A line \in q[i].lines : Stands(q[i].tokens, line)
      PROVE  DrainIInv'
  BY <1>8 DEF DrainIInv, TemplatesMatch, Stands
<1>9. CASE found' = old
  BY <1>9, <1>3, <1>5, <1>8
<1>10. CASE found' = Append(old, new)
  <2> DEFINE all == paths \union {at.path}
  <2>1. new \in PatternsIn(all)
    BY <1>7 DEF PatternsIn
  <2>2. PatternsIn(paths) \subseteq PatternsIn(all)
    BY DEF PatternsIn
  <2>3. old \in Seq(PatternsIn(all))
    BY <2>2, <1>3, SequenceOfMore
  <2>4. new.tokens = Template(log) /\ new.lines = {log}
    OBVIOUS
  <2>5. \A line \in new.lines : Stands(new.tokens, line)
    BY <2>4, <1>7
  <2> HIDE DEF new, all
  <2>6. /\ Append(old, new) \in Seq(PatternsIn(all))
        /\ \A i \in DOMAIN Append(old, new) :
             (i \in DOMAIN old /\ Append(old, new)[i] = old[i]) \/ Append(old, new)[i] = new
    BY <2>1, <2>3
  <2>7. \A i \in DOMAIN Append(old, new) :
          \A line \in Append(old, new)[i].lines : Stands(Append(old, new)[i].tokens, line)
    BY <2>5, <2>6, <1>5
  <2> QED BY <2>6, <2>7, <1>8, <1>10
<1>11. ASSUME NEW i \in best,
              found' = [old EXCEPT ![i].count = @ + 1, ![i].tokens = Widen(@, log),
                                   ![i].lines = @ \union {log}]
       PROVE  DrainIInv'
  <2> DEFINE wider == Wider(old[i], Widen(old[i].tokens, log), old[i].lines \union {log})
             q == [old EXCEPT ![i] = wider]
  <2>1. old[i] \in PatternsIn(paths) /\ old[i].tokens \in Seq(Tokens) /\ old[i].lines \subseteq Logs
    BY <1>5, <1>6 DEF PatternsIn
  <2>2. /\ Widen(old[i].tokens, log) \in Seq(Tokens)
        /\ Stands(Widen(old[i].tokens, log), log)
        /\ \A other \in Logs :
             Stands(old[i].tokens, other) => Stands(Widen(old[i].tokens, log), other)
    BY <2>1, <1>6, WidenStands
  <2>3. /\ wider \in PatternsIn(paths)
        /\ wider.tokens = Widen(old[i].tokens, log)
        /\ wider.lines = old[i].lines \union {log}
    <3>1. old[i].lines \union {log} \subseteq Logs
      BY <2>1
    <3> QED BY <2>1, <2>2, <3>1, WiderPattern
  <2>4. found' = q
    BY <1>11, <1>6 DEF Wider
  <2>5. \A line \in wider.lines : Stands(wider.tokens, line)
    BY <2>1, <2>2, <2>3, <1>5, <1>6
  <2> HIDE DEF wider
  <2>6. q \in Seq(PatternsIn(paths))
    BY <2>3, <1>3, <1>6
  <2>7. \A j \in DOMAIN q : j \in DOMAIN old /\ (q[j] = old[j] \/ q[j] = wider)
    BY <1>3, <1>6
  <2> HIDE DEF q
  <2>8. \A j \in DOMAIN q : \A line \in q[j].lines : Stands(q[j].tokens, line)
    BY <2>5, <2>7, <1>5
  <2> QED BY Zenon, <2>4, <2>6, <2>8, <1>8
<1> QED BY Zenon, <1>1, <1>9, <1>10, <1>11

-----------------------------------------------------------------------------
(* Errors.  Who asks for regressions read the resolutions first: all of    *)
(* them are older than the end of the range, and what is added to either   *)
(* table while the other reads go on is not.                               *)
TablesTyped ==
  /\ tick \in Nat
  /\ \A o \in occurrences : o.message \in Messages /\ o.at \in 0..tick
  /\ \A r \in resolutions : r = [fingerprint |-> r.fingerprint, at |-> r.at] /\ r.at \in 0..tick

InquiryShaped ==
  inquiry = [step |-> inquiry.step, start |-> inquiry.start, end |-> inquiry.end,
             resolved |-> inquiry.resolved, rows |-> inquiry.rows, seen |-> inquiry.seen,
             groups |-> inquiry.groups, regressions |-> inquiry.regressions]

ResolvedBefore ==
  /\ inquiry.end \in Nat /\ inquiry.start \in Nat /\ inquiry.end <= tick
  /\ inquiry.step \in {"none", "rows", "fingerprints", "done"}
  /\ inquiry.resolved \subseteq {r \in resolutions : r.at < inquiry.end}
  /\ inquiry.seen \subseteq occurrences

(* Of the spans that were stored when it was read a row has the first.     *)
RowsBegin ==
  inquiry.step = "fingerprints" =>
    \A row \in inquiry.rows :
      /\ row.first \in Nat
      /\ \A o \in inquiry.seen : o.message = row.message /\ o.at \in inquiry.start..inquiry.end =>
           row.first <= o.at

AnswerIsReal ==
  inquiry.step = "done" =>
    /\ \A r \in inquiry.regressions :
         /\ [fingerprint |-> Fingerprint(r.message), at |-> r.resolved] \in resolutions
         /\ \A o \in inquiry.seen : o.message = r.message /\ o.at \in inquiry.start..inquiry.end =>
              o.at > r.resolved
         /\ \E g \in inquiry.groups : g.message = r.message /\ g.status = "regressed"
    /\ \A g \in inquiry.groups : g.status # "regressed" =>
         \A r \in inquiry.resolved : r.fingerprint # Fingerprint(g.message)

ErrorIInv == TablesTyped /\ InquiryShaped /\ ResolvedBefore /\ RowsBegin /\ AnswerIsReal

LEMMA InitErrors == ErrorInit => ErrorIInv
BY DEF ErrorInit, NoInquiry, ErrorIInv, TablesTyped, InquiryShaped, ResolvedBefore, RowsBegin, AnswerIsReal

(* Time, errors and resolutions.                                           *)
LEMMA TablesMove ==
  ASSUME ErrorIInv, ErrorOccurs \/ ErrorIsResolved \/ TickPasses \/ UNCHANGED errorVars
  PROVE  ErrorIInv'
<1>1. UNCHANGED inquiry
  BY DEF ErrorOccurs, ErrorIsResolved, TickPasses, errorVars
<1>2. /\ tick' \in {tick, tick + 1}
      /\ \A o \in occurrences' : o \in occurrences \/ (o.message \in Messages /\ o.at \in 0..tick)
      /\ occurrences \subseteq occurrences'
      /\ \A r \in resolutions' : r \in resolutions \/ \E f : r = [fingerprint |-> f, at |-> tick]
      /\ resolutions \subseteq resolutions'
  BY DEF ErrorOccurs, ErrorIsResolved, TickPasses, errorVars
<1>3. tick \in Nat /\ tick' \in Nat /\ tick <= tick'
  BY <1>2 DEF ErrorIInv, TablesTyped
<1>4. TablesTyped'
  <2>1. \A o \in occurrences' : o.message \in Messages /\ o.at \in 0..tick'
    BY <1>2, <1>3 DEF ErrorIInv, TablesTyped
  <2>2. \A r \in resolutions' : r = [fingerprint |-> r.fingerprint, at |-> r.at] /\ r.at \in 0..tick'
    <3> SUFFICES ASSUME NEW r \in resolutions'
                 PROVE  r = [fingerprint |-> r.fingerprint, at |-> r.at] /\ r.at \in 0..tick'
      OBVIOUS
    <3>1. CASE r \in resolutions
      BY <3>1, <1>3 DEF ErrorIInv, TablesTyped
    <3>2. CASE \E f : r = [fingerprint |-> f, at |-> tick]
      BY <3>2, <1>3
    <3> QED BY <3>1, <3>2, <1>2
  <2> QED BY <2>1, <2>2, <1>3 DEF TablesTyped
<1>5. ResolvedBefore'
  BY <1>1, <1>2, <1>3 DEF ErrorIInv, ResolvedBefore
<1>7. RowsBegin'
  BY <1>1 DEF ErrorIInv, RowsBegin
<1>8. AnswerIsReal'
  BY <1>1, <1>2 DEF ErrorIInv, AnswerIsReal
<1>9. InquiryShaped'
  BY <1>1 DEF ErrorIInv, InquiryShaped
<1> QED BY <1>4, <1>5, <1>7, <1>8, <1>9 DEF ErrorIInv

LEMMA InquiryBeginsOrEnds ==
  ASSUME ErrorIInv, ReadResolutions \/ EndInquiry
  PROVE  ErrorIInv'
<1>1. UNCHANGED <<tick, occurrences, resolutions>>
  BY DEF ReadResolutions, EndInquiry
<1>2. tick \in Nat /\ TablesTyped'
  BY <1>1 DEF ErrorIInv, TablesTyped
<1>3. CASE EndInquiry
  <2>1. inquiry' = NoInquiry
    BY <1>3 DEF EndInquiry
  <2>2. /\ inquiry'.step = "none" /\ inquiry'.end = 0 /\ inquiry'.start = 0 /\ inquiry'.resolved = {} /\ inquiry'.seen = {}
    BY <2>1 DEF NoInquiry
  <2>3. InquiryShaped'
    BY <2>1 DEF NoInquiry, InquiryShaped
  <2> QED BY <2>2, <2>3, <1>1, <1>2 DEF ErrorIInv, ResolvedBefore, RowsBegin, AnswerIsReal
<1>4. CASE ReadResolutions
  <2>1. PICK start \in 0..tick :
          LET resolved == {r \in resolutions : r.at < tick}
          IN  inquiry' = [NoInquiry EXCEPT !.step = IF resolved = {} THEN "done" ELSE "rows",
                                           !.start = start, !.end = tick, !.resolved = resolved]
    BY <1>4, Zenon DEF ReadResolutions
  <2> DEFINE resolved == {r \in resolutions : r.at < tick}
             step == IF resolved = {} THEN "done" ELSE "rows"
  <2>2. inquiry' = [NoInquiry EXCEPT !.step = step, !.start = start, !.end = tick,
                                     !.resolved = resolved]
    BY <2>1
  <2>3. step \in {"rows", "done"}
    OBVIOUS
  <2>4. \A r \in resolved : r \in resolutions /\ r.at < tick
    OBVIOUS
  <2> HIDE DEF resolved, step
  <2>5. /\ inquiry'.step = step /\ inquiry'.start = start /\ inquiry'.end = tick
        /\ inquiry'.resolved = resolved /\ inquiry'.regressions = {} /\ inquiry'.groups = {}
        /\ inquiry'.seen = {}
    BY <2>2 DEF NoInquiry
  <2>6. start \in Nat
    BY <1>2
  <2>7. ResolvedBefore'
    BY <2>3, <2>4, <2>5, <2>6, <1>1, <1>2 DEF ResolvedBefore
  <2>8. RowsBegin' /\ AnswerIsReal'
    BY <2>3, <2>5 DEF RowsBegin, AnswerIsReal
  <2>9. InquiryShaped'
    BY <2>2 DEF NoInquiry, InquiryShaped
  <2> QED BY <2>7, <2>8, <2>9, <1>2, Zenon DEF ErrorIInv
<1> QED BY <1>3, <1>4

(* The first of a group is the earliest of its occurrences.                *)
LEMMA GroupsBegin ==
  ASSUME TablesTyped, NEW start, NEW end, NEW row \in Grouped(start, end)
  PROVE  /\ row.first \in Nat
         /\ \A o \in occurrences : o.message = row.message /\ start <= o.at /\ o.at <= end =>
              row.first <= o.at
<1> DEFINE seen(m) == {o.at : o \in {q \in occurrences : q.message = m /\ start <= q.at /\ q.at <= end}}
<1>1. PICK m \in Messages :
        /\ seen(m) # {}
        /\ row = [message |-> m,
                  first |-> CHOOSE t \in seen(m) : \A u \in seen(m) : t <= u,
                  last |-> CHOOSE t \in seen(m) : \A u \in seen(m) : u <= t]
  BY DEF Grouped
<1>2. seen(m) \subseteq Nat
  BY DEF TablesTyped
<1>3. \A o \in occurrences : o.message = m /\ start <= o.at /\ o.at <= end => o.at \in seen(m)
  OBVIOUS
<1> HIDE DEF seen
<1>4. \E t \in seen(m) : \A u \in seen(m) : t <= u
  BY <1>1, <1>2, LeastNumber
<1>5. row.message = m /\ row.first = CHOOSE t \in seen(m) : \A u \in seen(m) : t <= u
  BY <1>1
<1>6. row.first \in seen(m) /\ \A u \in seen(m) : row.first <= u
  BY <1>4, <1>5
<1> QED BY <1>2, <1>3, <1>5, <1>6

(* A read gives the inquiry a step and what it read.                       *)
LEMMA RowsRead ==
  ASSUME ErrorIInv, ReadRows
  PROVE  ErrorIInv'
<1>1. /\ UNCHANGED <<tick, occurrences, resolutions>>
      /\ inquiry' = [inquiry EXCEPT !.step = "fingerprints",
                                    !.rows = Grouped(inquiry.start, inquiry.end),
                                    !.seen = occurrences]
  BY DEF ReadRows
<1>2. /\ inquiry'.step = "fingerprints" /\ inquiry'.rows = Grouped(inquiry.start, inquiry.end)
      /\ inquiry'.seen = occurrences
      /\ inquiry'.start = inquiry.start /\ inquiry'.end = inquiry.end
      /\ inquiry'.resolved = inquiry.resolved
      /\ InquiryShaped'
  <2> DEFINE rows == Grouped(inquiry.start, inquiry.end)
  <2> HIDE DEF rows
  <2>1. InquiryShaped /\ inquiry' = [inquiry EXCEPT !.step = "fingerprints", !.rows = rows, !.seen = occurrences]
    BY <1>1 DEF rows, ErrorIInv
  <2>2. /\ inquiry'.step = "fingerprints" /\ inquiry'.rows = rows /\ inquiry'.seen = occurrences
        /\ inquiry'.start = inquiry.start /\ inquiry'.end = inquiry.end
        /\ inquiry'.resolved = inquiry.resolved
        /\ InquiryShaped'
    BY <2>1 DEF InquiryShaped
  <2> QED BY <2>2 DEF rows
<1>3. TablesTyped' /\ ResolvedBefore'
  BY <1>1, <1>2 DEF ErrorIInv, TablesTyped, ResolvedBefore
<1>4. RowsBegin'
  <2>1. TablesTyped /\ inquiry.start \in Nat /\ inquiry.end \in Nat
    BY DEF ErrorIInv, ResolvedBefore
  <2>2. \A row \in Grouped(inquiry.start, inquiry.end) :
          /\ row.first \in Nat
          /\ \A o \in occurrences : o.message = row.message /\ inquiry.start <= o.at /\ o.at <= inquiry.end
               => row.first <= o.at
    BY <2>1, GroupsBegin
  <2> HIDE DEF Grouped
  <2> QED BY <2>1, <2>2, <1>1, <1>2 DEF RowsBegin
<1>5. AnswerIsReal'
  BY <1>2 DEF AnswerIsReal
<1> QED BY <1>2, <1>3, <1>4, <1>5 DEF ErrorIInv

LEMMA FingerprintsRead ==
  ASSUME ErrorIInv, ReadFingerprints
  PROVE  ErrorIInv'
<1> DEFINE fingerprints == {r.fingerprint : r \in resolutions}
           groups == {[message |-> row.message, first |-> row.first, last |-> row.last,
                       status |-> StatusIn(row, fingerprints)] : row \in inquiry.rows}
           known == {r.fingerprint : r \in inquiry.resolved}
<1>1. /\ UNCHANGED <<tick, occurrences, resolutions>>
      /\ inquiry.step = "fingerprints"
  BY DEF ReadFingerprints
<1>2. PICK resolvedAt \in [known -> {r.at : r \in inquiry.resolved}] :
        /\ \A f \in known : [fingerprint |-> f, at |-> resolvedAt[f]] \in inquiry.resolved
        /\ inquiry' = [inquiry EXCEPT !.step = "done", !.groups = groups,
                                      !.regressions = Regressions(groups, resolvedAt)]
  BY DEF ReadFingerprints
<1> DEFINE regressions == Regressions(groups, resolvedAt)
<1>3. known \subseteq fingerprints /\ DOMAIN resolvedAt = known
  BY DEF ErrorIInv, ResolvedBefore
<1>4. \A f \in known : /\ [fingerprint |-> f, at |-> resolvedAt[f]] \in resolutions
                       /\ resolvedAt[f] \in Nat /\ resolvedAt[f] < inquiry.end
  <2> SUFFICES ASSUME NEW f \in known
               PROVE  /\ [fingerprint |-> f, at |-> resolvedAt[f]] \in resolutions
                      /\ resolvedAt[f] \in Nat /\ resolvedAt[f] < inquiry.end
    OBVIOUS
  <2> DEFINE s == [fingerprint |-> f, at |-> resolvedAt[f]]
  <2>1. s \in inquiry.resolved
    BY <1>2
  <2>2. s.at = resolvedAt[f]
    OBVIOUS
  <2> HIDE DEF s, known
  <2>3. s \in resolutions /\ s.at < inquiry.end /\ s.at \in 0..tick /\ tick \in Nat
    BY <2>1 DEF ErrorIInv, ResolvedBefore, TablesTyped
  <2> QED BY <2>2, <2>3 DEF s
<1>5. ASSUME NEW g \in groups
      PROVE  \E row \in inquiry.rows :
               /\ g.message = row.message /\ g.first = row.first
               /\ Fingerprint(g.message) \in fingerprints => g.status = "regressed"
  <2>1. PICK row \in inquiry.rows :
          g = [message |-> row.message, first |-> row.first, last |-> row.last,
               status |-> StatusIn(row, fingerprints)]
    OBVIOUS
  <2> HIDE DEF fingerprints, groups
  <2>2. g.message = row.message /\ g.first = row.first /\ g.status = StatusIn(row, fingerprints)
    BY <2>1
  <2>3. Fingerprint(row.message) \in fingerprints => StatusIn(row, fingerprints) = "regressed"
    BY DEF StatusIn
  <2> QED BY <2>2, <2>3
<1>6. ASSUME NEW r \in regressions
      PROVE  \E g \in groups : /\ r.message = g.message /\ Fingerprint(g.message) \in known
                              /\ r.resolved = resolvedAt[Fingerprint(g.message)]
                              /\ g.first > r.resolved
  <2> HIDE DEF groups, known
  <2>1. PICK g \in groups :
          /\ Fingerprint(g.message) \in DOMAIN resolvedAt
          /\ g.first > resolvedAt[Fingerprint(g.message)]
          /\ r = [message |-> g.message, reappeared |-> g.first,
                  resolved |-> resolvedAt[Fingerprint(g.message)]]
    BY Zenon DEF Regressions
  <2>2. r.message = g.message /\ r.resolved = resolvedAt[Fingerprint(g.message)]
    BY <2>1
  <2> QED BY <2>1, <2>2, <1>3
<1> HIDE DEF groups, known, fingerprints, regressions
<1>7. /\ inquiry'.step = "done" /\ inquiry'.groups = groups /\ inquiry'.regressions = regressions
      /\ inquiry'.start = inquiry.start /\ inquiry'.end = inquiry.end
      /\ inquiry'.resolved = inquiry.resolved /\ inquiry'.seen = inquiry.seen
      /\ InquiryShaped'
  <2>1. inquiry' = [inquiry EXCEPT !.step = "done", !.groups = groups, !.regressions = regressions]
    BY <1>2 DEF regressions
  <2>2. InquiryShaped
    BY DEF ErrorIInv
  <2> QED BY <2>1, <2>2 DEF InquiryShaped
<1>8. TablesTyped' /\ ResolvedBefore'
  BY <1>1, <1>7 DEF ErrorIInv, TablesTyped, ResolvedBefore
<1>9. RowsBegin'
  BY <1>7 DEF RowsBegin
<1>10. ASSUME NEW r \in regressions
       PROVE  /\ [fingerprint |-> Fingerprint(r.message), at |-> r.resolved] \in resolutions
              /\ \A o \in inquiry.seen :
                   o.message = r.message /\ o.at \in inquiry.start..inquiry.end => o.at > r.resolved
              /\ \E g \in groups : g.message = r.message /\ g.status = "regressed"
  <2>1. PICK g \in groups : /\ r.message = g.message /\ Fingerprint(g.message) \in known
                            /\ r.resolved = resolvedAt[Fingerprint(g.message)]
                            /\ g.first > r.resolved
    BY <1>6
  <2>2. PICK row \in inquiry.rows :
          /\ g.message = row.message /\ g.first = row.first
          /\ Fingerprint(g.message) \in fingerprints => g.status = "regressed"
    BY <1>5
  <2>3. /\ [fingerprint |-> Fingerprint(r.message), at |-> r.resolved] \in resolutions
        /\ r.resolved \in Nat /\ r.resolved < inquiry.end
    BY <2>1, <1>4
  <2>4. \A o \in inquiry.seen :
          o.message = r.message /\ o.at \in inquiry.start..inquiry.end => o.at > r.resolved
    <3> SUFFICES ASSUME NEW o \in inquiry.seen, o.message = r.message,
                        o.at \in inquiry.start..inquiry.end
                 PROVE  o.at > r.resolved
      OBVIOUS
    <3>1. row.first \in Nat /\ row.first <= o.at
      BY <2>1, <2>2, <1>1 DEF ErrorIInv, RowsBegin
    <3>2. o.at \in Nat /\ inquiry.end \in Nat
      BY DEF ErrorIInv, TablesTyped, ResolvedBefore
    <3>3. row.first > r.resolved
      BY <2>1, <2>2
    <3> QED BY <3>1, <3>2, <3>3, <2>3
  <2>5. g.status = "regressed"
    BY <2>1, <2>2, <1>3
  <2> QED BY <2>1, <2>3, <2>4, <2>5
<1>11. \A g \in groups : g.status # "regressed" =>
         \A r \in inquiry.resolved : r.fingerprint # Fingerprint(g.message)
  <2>1. \A r \in inquiry.resolved : r.fingerprint \in fingerprints
    BY <1>3 DEF known
  <2> QED BY <2>1, <1>5
<1>12. AnswerIsReal'
  BY <1>1, <1>7, <1>10, <1>11 DEF AnswerIsReal
<1> QED BY <1>7, <1>8, <1>9, <1>12 DEF ErrorIInv

(* For any messages, times and writers: what detect_regressions (errors.py *)
(* 309-355) reports had been resolved and came back since, although errors *)
(* and resolutions are added between its three reads.                      *)
THEOREM RegressionsStayReal == ErrorSpec => []RegressionsAreReal
<1>1. ErrorIInv /\ [ErrorNext]_errorVars => ErrorIInv'
  BY TablesMove, InquiryBeginsOrEnds, RowsRead, FingerprintsRead DEF ErrorNext
<1>2. ErrorIInv => RegressionsAreReal
  BY DEF ErrorIInv, AnswerIsReal, RegressionsAreReal
<1> QED BY InitErrors, <1>1, <1>2, PTL DEF ErrorSpec

-----------------------------------------------------------------------------
(* Maps.  What a map says of a service or a row is what the tables said    *)
(* when it was read, and so what they say now of all that did not come or  *)
(* go since.  The moves, the tables, a map and a detail are arguments      *)
(* here, so that the lemmas compare any two states.                        *)
MovedIn(ms, table, a, b) == {ms[i].row : i \in {j \in DOMAIN ms : /\ j > a /\ j <= b
                                                                  /\ ms[j].table = table}}
ServiceMoved(ms, s, a, b) == \E r \in MovedIn(ms, "spans", a, b) : r.service = s
HealthIn(rows, s) == HealthOfRows({r \in rows : r.service = s})
NodesIn(rows) == [s \in {r.service : r \in rows} |-> HealthIn(rows, s)]
TargetsIn(edges, s) == {e.target : e \in {f \in edges : f.source = s}}
SourcesIn(edges, s) == {e.source : e \in {f \in edges : f.target = s}}
ProtocolsIn(edges, s) == {e.protocol : e \in {f \in edges : f.target = s}}

NodesAgree(ms, kept, a, others, b) ==
  \A s : ~ServiceMoved(ms, s, a, b) =>
           /\ s \in DOMAIN kept <=> s \in DOMAIN others
           /\ s \in DOMAIN kept => kept[s] = others[s]
EdgesAgree(ms, edges, a, others, b) ==
  \A e : e \notin MovedIn(ms, "edges", a, b) => (e \in edges <=> e \in others)

MapShaped(map) ==
  \A s \in DOMAIN map.nodes : /\ map.dependencies[s] = TargetsIn(map.edges, s)
                              /\ map.types[s] = TypeOfService(ProtocolsIn(map.edges, s))
SnapshotStands(ms, rows, edges, map) ==
  /\ map.nodesAt \in 0..Len(ms) /\ map.edgesAt \in 0..Len(ms)
  /\ NodesAgree(ms, map.nodes, map.nodesAt, NodesIn(rows), Len(ms))
  /\ EdgesAgree(ms, map.edges, map.edgesAt, edges, Len(ms))
  /\ MapShaped(map)

ReadStands(ms, rows, read, last) ==
  read.reading => /\ read.at \in 0..Len(ms)
                  /\ NodesAgree(ms, read.nodes, read.at, NodesIn(rows), Len(ms))
                  /\ NodesAgree(ms, last.nodes, last.nodesAt, read.nodes, read.at)
BeforeStands(ms, before, last) ==
  /\ NodesAgree(ms, before.nodes, before.nodesAt, last.nodes, last.nodesAt)
  /\ EdgesAgree(ms, before.edges, before.edgesAt, last.edges, last.edgesAt)

(* Each part of a detail that was read differs for a cause.                *)
PartsHaveCauses(ms, d) ==
  LET s == d.service
      map == d.of
  IN  /\ d.health # map.nodes[s] => ServiceMoved(ms, s, map.nodesAt, d.at)
      /\ d.step >= 2 /\ d.targets # TargetsIn(map.edges, s) =>
           \E r \in MovedIn(ms, "edges", map.edgesAt, d.at) : r.source = s
      /\ d.step >= 3 /\ d.sources # SourcesIn(map.edges, s) =>
           \E r \in MovedIn(ms, "edges", map.edgesAt, d.at) : r.target = s
      /\ d.step >= 4 /\ d.type # TypeOfService(ProtocolsIn(map.edges, s)) =>
           \E r \in MovedIn(ms, "edges", map.edgesAt, d.at) : r.target = s
DetailStands(ms, rows, edges, d) ==
  d.step # 0 => /\ SnapshotStands(ms, rows, edges, d.of)
                /\ d.at \in 0..Len(ms)
                /\ d.service \in DOMAIN d.of.nodes => PartsHaveCauses(ms, d)

MapIInv ==
  /\ \E S : rowMoves \in Seq(S)
  /\ SnapshotStands(rowMoves, entryRows, edgeRows, maps.last)
  /\ ReadStands(rowMoves, entryRows, nodesRead, maps.last)
  /\ BeforeStands(rowMoves, maps.before, maps.last)
  /\ DetailStands(rowMoves, entryRows, edgeRows, detail)
  /\ detail.step \in 0..4
  /\ detail = [step |-> detail.step, service |-> detail.service, of |-> detail.of,
               health |-> detail.health, targets |-> detail.targets, sources |-> detail.sources,
               type |-> detail.type, at |-> detail.at]

(* What moved up to a moment stays so; what moved by a later one is more.  *)
LEMMA MovesStay ==
  ASSUME NEW S, NEW ms \in Seq(S), NEW m
  PROVE  \A t, a : \A b \in 0..Len(ms) : MovedIn(Append(ms, m), t, a, b) = MovedIn(ms, t, a, b)
<1>1. /\ DOMAIN Append(ms, m) = 1..(Len(ms) + 1) /\ DOMAIN ms = 1..Len(ms) /\ Len(ms) \in Nat
      /\ \A i \in 1..Len(ms) : Append(ms, m)[i] = ms[i]
  OBVIOUS
<1> SUFFICES ASSUME NEW t, NEW a, NEW b \in 0..Len(ms)
             PROVE  MovedIn(Append(ms, m), t, a, b) = MovedIn(ms, t, a, b)
  OBVIOUS
<1> DEFINE now == Append(ms, m)
<1> HIDE DEF now
<1>2. /\ DOMAIN now = 1..(Len(ms) + 1)
      /\ \A i \in 1..Len(ms) : now[i] = ms[i]
  BY <1>1 DEF now
<1>3. {j \in DOMAIN now : j > a /\ j <= b /\ now[j].table = t}
        = {j \in DOMAIN ms : j > a /\ j <= b /\ ms[j].table = t}
  BY <1>1, <1>2
<1>4. \A j \in {j \in DOMAIN ms : j > a /\ j <= b /\ ms[j].table = t} : now[j].row = ms[j].row
  BY <1>1, <1>2
<1>5. MovedIn(now, t, a, b) = MovedIn(ms, t, a, b)
  BY <1>3, <1>4 DEF MovedIn
<1> QED BY <1>5 DEF now

LEMMA MovesGrow ==
  \A ms, t, a : \A b, c \in Nat : b <= c /\ DOMAIN ms \subseteq Nat =>
    MovedIn(ms, t, a, b) \subseteq MovedIn(ms, t, a, c)
BY DEF MovedIn

LEMMA LastMove ==
  ASSUME NEW S, NEW ms \in Seq(S), NEW m
  PROVE  \A a \in 0..Len(ms) : m.row \in MovedIn(Append(ms, m), m.table, a, Len(Append(ms, m)))
<1> DEFINE now == Append(ms, m)
<1>1. /\ DOMAIN now = 1..(Len(ms) + 1) /\ Len(ms) \in Nat /\ Len(now) = Len(ms) + 1
      /\ now[Len(now)] = m
  OBVIOUS
<1> HIDE DEF now
<1>2. \A a \in 0..Len(ms) : m.row \in MovedIn(now, m.table, a, Len(now))
  <2> SUFFICES ASSUME NEW a \in 0..Len(ms)
               PROVE  m.row \in MovedIn(now, m.table, a, Len(now))
    OBVIOUS
  <2>1. /\ Len(now) \in DOMAIN now /\ Len(now) > a /\ Len(now) <= Len(now)
        /\ now[Len(now)].table = m.table
    BY <1>1
  <2> QED BY <2>1, <1>1 DEF MovedIn
<1> QED BY <1>2 DEF now

(* No move happened between a moment and itself.                           *)
LEMMA NothingMoved ==
  \A ms, t : \A a \in Nat : DOMAIN ms \subseteq Nat => MovedIn(ms, t, a, a) = {}
BY DEF MovedIn

(* An agreement of the past stays one.                                     *)
LEMMA AgreementsStay ==
  ASSUME NEW S, NEW ms \in Seq(S), NEW m
  PROVE  \A x, a, y : \A b \in 0..Len(ms) :
           /\ NodesAgree(ms, x, a, y, b) => NodesAgree(Append(ms, m), x, a, y, b)
           /\ EdgesAgree(ms, x, a, y, b) => EdgesAgree(Append(ms, m), x, a, y, b)
<1> DEFINE now == Append(ms, m)
<1>1. \A t, a : \A b \in 0..Len(ms) : MovedIn(now, t, a, b) = MovedIn(ms, t, a, b)
  BY MovesStay
<1> HIDE DEF now
<1> SUFFICES ASSUME NEW x, NEW a, NEW y, NEW b \in 0..Len(ms)
             PROVE  /\ NodesAgree(ms, x, a, y, b) => NodesAgree(now, x, a, y, b)
                    /\ EdgesAgree(ms, x, a, y, b) => EdgesAgree(now, x, a, y, b)
  BY DEF now
<1>2. \A t : MovedIn(now, t, a, b) = MovedIn(ms, t, a, b)
  BY <1>1
<1> QED BY <1>2 DEF NodesAgree, EdgesAgree, ServiceMoved

(* A batch of entry spans came or went: nothing changed for the other      *)
(* services.                                                               *)
LEMMA SpansMove ==
  ASSUME NEW S, NEW ms \in Seq(S), NEW rows, NEW row
  PROVE  LET now == Append(ms, [table |-> "spans", row |-> row])
         IN  \A kept : \A a \in 0..Len(ms) :
               NodesAgree(ms, kept, a, NodesIn(rows), Len(ms)) =>
                 NodesAgree(now, kept, a, NodesIn(Toggled(rows, row)), Len(now))
<1> DEFINE m == [table |-> "spans", row |-> row]
           now == Append(ms, m)
<1> SUFFICES ASSUME NEW kept, NEW a \in 0..Len(ms),
                    NodesAgree(ms, kept, a, NodesIn(rows), Len(ms))
             PROVE  NodesAgree(now, kept, a, NodesIn(Toggled(rows, row)), Len(now))
  OBVIOUS
<1>1. row \in MovedIn(now, "spans", a, Len(now))
  <2>1. m.row = row /\ m.table = "spans"
    OBVIOUS
  <2> HIDE DEF m
  <2>2. m.row \in MovedIn(Append(ms, m), m.table, a, Len(Append(ms, m)))
    BY LastMove
  <2> QED BY <2>1, <2>2
<1>2. MovedIn(ms, "spans", a, Len(ms)) \subseteq MovedIn(now, "spans", a, Len(now))
  <2> HIDE DEF m
  <2>1. /\ Len(ms) \in Nat /\ Len(now) = Len(ms) + 1 /\ DOMAIN now = 1..Len(now)
    OBVIOUS
  <2>2. MovedIn(now, "spans", a, Len(ms)) = MovedIn(ms, "spans", a, Len(ms))
    <3>1. Len(ms) \in 0..Len(ms)
      BY <2>1
    <3> QED BY <3>1, MovesStay
  <2> HIDE DEF now
  <2>3. DOMAIN now \subseteq Nat /\ Len(now) \in Nat /\ Len(ms) <= Len(now)
    BY <2>1
  <2>4. MovedIn(now, "spans", a, Len(ms)) \subseteq MovedIn(now, "spans", a, Len(now))
    BY <2>1, <2>3, MovesGrow
  <2> QED BY <2>2, <2>4
<1> HIDE DEF now
<1>3. ASSUME NEW s, ~ServiceMoved(now, s, a, Len(now))
      PROVE  /\ s \in DOMAIN kept <=> s \in DOMAIN NodesIn(Toggled(rows, row))
             /\ s \in DOMAIN kept => kept[s] = NodesIn(Toggled(rows, row))[s]
  <2>1. row.service # s /\ ~ServiceMoved(ms, s, a, Len(ms))
    BY <1>1, <1>2, <1>3 DEF ServiceMoved
  <2>2. {r \in Toggled(rows, row) : r.service = s} = {r \in rows : r.service = s}
    BY <2>1 DEF Toggled
  <2>3. HealthIn(Toggled(rows, row), s) = HealthIn(rows, s)
    BY <2>2, Zenon DEF HealthIn
  <2>4. s \in DOMAIN NodesIn(Toggled(rows, row)) <=> s \in DOMAIN NodesIn(rows)
    BY <2>2 DEF NodesIn
  <2>5. s \in DOMAIN NodesIn(rows) => NodesIn(Toggled(rows, row))[s] = NodesIn(rows)[s]
    BY <2>3, <2>4 DEF NodesIn
  <2>6. /\ s \in DOMAIN kept <=> s \in DOMAIN NodesIn(rows)
        /\ s \in DOMAIN kept => kept[s] = NodesIn(rows)[s]
    BY <2>1, Zenon DEF NodesAgree
  <2> QED BY <2>4, <2>5, <2>6
<1> QED BY <1>3, Zenon DEF NodesAgree

LEMMA EdgesMove ==
  ASSUME NEW S, NEW ms \in Seq(S), NEW rows, NEW row
  PROVE  LET now == Append(ms, [table |-> "edges", row |-> row])
         IN  \A edges : \A a \in 0..Len(ms) :
               EdgesAgree(ms, edges, a, rows, Len(ms)) =>
                 EdgesAgree(now, edges, a, Toggled(rows, row), Len(now))
<1> DEFINE m == [table |-> "edges", row |-> row]
           now == Append(ms, m)
<1> SUFFICES ASSUME NEW edges, NEW a \in 0..Len(ms),
                    EdgesAgree(ms, edges, a, rows, Len(ms))
             PROVE  EdgesAgree(now, edges, a, Toggled(rows, row), Len(now))
  OBVIOUS
<1>1. row \in MovedIn(now, "edges", a, Len(now))
  <2>1. m.row = row /\ m.table = "edges"
    OBVIOUS
  <2> HIDE DEF m
  <2>2. m.row \in MovedIn(Append(ms, m), m.table, a, Len(Append(ms, m)))
    BY LastMove
  <2> QED BY <2>1, <2>2
<1>2. MovedIn(ms, "edges", a, Len(ms)) \subseteq MovedIn(now, "edges", a, Len(now))
  <2> HIDE DEF m
  <2>1. /\ Len(ms) \in Nat /\ Len(now) = Len(ms) + 1 /\ DOMAIN now = 1..Len(now)
    OBVIOUS
  <2>2. MovedIn(now, "edges", a, Len(ms)) = MovedIn(ms, "edges", a, Len(ms))
    <3>1. Len(ms) \in 0..Len(ms)
      BY <2>1
    <3> QED BY <3>1, MovesStay
  <2> HIDE DEF now
  <2>3. DOMAIN now \subseteq Nat /\ Len(now) \in Nat /\ Len(ms) <= Len(now)
    BY <2>1
  <2>4. MovedIn(now, "edges", a, Len(ms)) \subseteq MovedIn(now, "edges", a, Len(now))
    BY <2>1, <2>3, MovesGrow
  <2> QED BY <2>2, <2>4
<1> HIDE DEF now
<1>3. ASSUME NEW e, e \notin MovedIn(now, "edges", a, Len(now))
      PROVE  e \in edges <=> e \in Toggled(rows, row)
  <2>1. e # row /\ e \notin MovedIn(ms, "edges", a, Len(ms))
    BY <1>1, <1>2, <1>3
  <2>2. e \in edges <=> e \in rows
    BY <2>1, Zenon DEF EdgesAgree
  <2> QED BY <2>1, <2>2 DEF Toggled
<1> QED BY <1>3, Zenon DEF EdgesAgree

(* And nothing of the other table moved.                                   *)
LEMMA OtherTable ==
  ASSUME NEW S, NEW ms \in Seq(S), NEW row
  PROVE  /\ LET now == Append(ms, [table |-> "edges", row |-> row])
            IN  \A a : MovedIn(now, "spans", a, Len(now)) = MovedIn(ms, "spans", a, Len(ms))
         /\ LET now == Append(ms, [table |-> "spans", row |-> row])
            IN  \A a : MovedIn(now, "edges", a, Len(now)) = MovedIn(ms, "edges", a, Len(ms))
<1>1. ASSUME NEW m, NEW t, m.table # t, NEW a
      PROVE  MovedIn(Append(ms, m), t, a, Len(Append(ms, m))) = MovedIn(ms, t, a, Len(ms))
  <2> DEFINE now == Append(ms, m)
  <2>1. /\ DOMAIN now = 1..(Len(ms) + 1) /\ DOMAIN ms = 1..Len(ms) /\ Len(ms) \in Nat
        /\ Len(now) = Len(ms) + 1 /\ now[Len(ms) + 1] = m
        /\ \A i \in 1..Len(ms) : now[i] = ms[i]
    OBVIOUS
  <2> HIDE DEF now
  <2>2. {j \in DOMAIN now : j > a /\ j <= Len(now) /\ now[j].table = t}
          = {j \in DOMAIN ms : j > a /\ j <= Len(ms) /\ ms[j].table = t}
    BY <2>1, <1>1
  <2>3. \A j \in {j \in DOMAIN ms : j > a /\ j <= Len(ms) /\ ms[j].table = t} : now[j].row = ms[j].row
    BY <2>1
  <2>4. MovedIn(now, t, a, Len(now)) = MovedIn(ms, t, a, Len(ms))
    BY <2>2, <2>3 DEF MovedIn
  <2> QED BY <2>4 DEF now
<1>2. /\ [table |-> "edges", row |-> row].table # "spans"
      /\ [table |-> "spans", row |-> row].table # "edges"
  OBVIOUS
<1> QED BY <1>1, <1>2

(* A row came or went: whatever stood still does.                          *)
RowMoved(ms, rows, edges, now, nowRows, nowEdges) ==
  \/ \E row : /\ nowRows = Toggled(rows, row) /\ nowEdges = edges
              /\ now = Append(ms, [table |-> "spans", row |-> row])
  \/ \E row : /\ nowEdges = Toggled(edges, row) /\ nowRows = rows
              /\ now = Append(ms, [table |-> "edges", row |-> row])

LEMMA AfterAMove ==
  ASSUME NEW S, NEW ms \in Seq(S), NEW rows, NEW edges, NEW now, NEW nowRows, NEW nowEdges,
         RowMoved(ms, rows, edges, now, nowRows, nowEdges)
  PROVE  /\ \E T : now \in Seq(T)
         /\ Len(now) = Len(ms) + 1
         /\ \A t, a : \A b \in 0..Len(ms) : MovedIn(now, t, a, b) = MovedIn(ms, t, a, b)
         /\ \A x, a, y : \A b \in 0..Len(ms) :
              /\ NodesAgree(ms, x, a, y, b) => NodesAgree(now, x, a, y, b)
              /\ EdgesAgree(ms, x, a, y, b) => EdgesAgree(now, x, a, y, b)
         /\ \A x : \A a \in 0..Len(ms) :
              /\ NodesAgree(ms, x, a, NodesIn(rows), Len(ms)) =>
                   NodesAgree(now, x, a, NodesIn(nowRows), Len(now))
              /\ EdgesAgree(ms, x, a, edges, Len(ms)) =>
                   EdgesAgree(now, x, a, nowEdges, Len(now))
<1>1. PICK m : now = Append(ms, m)
  BY DEF RowMoved
<1>2. /\ now \in Seq(S \union {m}) /\ Len(now) = Len(ms) + 1
  BY <1>1
<1>3. \A t, a : \A b \in 0..Len(ms) : MovedIn(now, t, a, b) = MovedIn(ms, t, a, b)
  BY <1>1, MovesStay
<1>4. \A x, a, y : \A b \in 0..Len(ms) :
        /\ NodesAgree(ms, x, a, y, b) => NodesAgree(now, x, a, y, b)
        /\ EdgesAgree(ms, x, a, y, b) => EdgesAgree(now, x, a, y, b)
  BY <1>1, AgreementsStay
<1>5. CASE \E row : /\ nowRows = Toggled(rows, row) /\ nowEdges = edges
                    /\ now = Append(ms, [table |-> "spans", row |-> row])
  <2>1. PICK row : /\ nowRows = Toggled(rows, row) /\ nowEdges = edges
                   /\ now = Append(ms, [table |-> "spans", row |-> row])
    BY <1>5
  <2>2. \A x : \A a \in 0..Len(ms) : NodesAgree(ms, x, a, NodesIn(rows), Len(ms)) =>
                   NodesAgree(now, x, a, NodesIn(nowRows), Len(now))
    BY <2>1, SpansMove
  <2>3. \A a : MovedIn(now, "edges", a, Len(now)) = MovedIn(ms, "edges", a, Len(ms))
    BY <2>1, OtherTable
  <2>4. \A x, a : EdgesAgree(ms, x, a, edges, Len(ms)) => EdgesAgree(now, x, a, nowEdges, Len(now))
    BY <2>1, <2>3 DEF EdgesAgree
  <2> QED BY <1>2, <1>3, <1>4, <2>2, <2>4
<1>6. CASE \E row : /\ nowEdges = Toggled(edges, row) /\ nowRows = rows
                    /\ now = Append(ms, [table |-> "edges", row |-> row])
  <2>1. PICK row : /\ nowEdges = Toggled(edges, row) /\ nowRows = rows
                   /\ now = Append(ms, [table |-> "edges", row |-> row])
    BY <1>6
  <2>2. \A x : \A a \in 0..Len(ms) : EdgesAgree(ms, x, a, edges, Len(ms)) =>
                   EdgesAgree(now, x, a, nowEdges, Len(now))
    BY <2>1, EdgesMove
  <2>3. \A a : MovedIn(now, "spans", a, Len(now)) = MovedIn(ms, "spans", a, Len(ms))
    BY <2>1, OtherTable
  <2>4. \A x, a : NodesAgree(ms, x, a, NodesIn(rows), Len(ms)) =>
                    NodesAgree(now, x, a, NodesIn(nowRows), Len(now))
    BY <2>1, <2>3 DEF NodesAgree, ServiceMoved
  <2> QED BY <1>2, <1>3, <1>4, <2>2, <2>4
<1> QED BY <1>5, <1>6 DEF RowMoved

LEMMA RowsMove ==
  ASSUME MapIInv, RowsChange
  PROVE  MapIInv'
<1>1. PICK S : rowMoves \in Seq(S)
  BY DEF MapIInv
<1>2. RowMoved(rowMoves, entryRows, edgeRows, rowMoves', entryRows', edgeRows')
  BY DEF RowsChange, RowMoved
<1>3. UNCHANGED <<nodesRead, maps, detail>>
  BY DEF RowsChange
<1> DEFINE now == rowMoves'  nowRows == entryRows'  nowEdges == edgeRows'
<1>4. /\ \E T : now \in Seq(T)
      /\ Len(now) = Len(rowMoves) + 1 /\ Len(rowMoves) \in Nat
      /\ \A t, a : \A b \in 0..Len(rowMoves) : MovedIn(now, t, a, b) = MovedIn(rowMoves, t, a, b)
      /\ \A x, a, y : \A b \in 0..Len(rowMoves) :
           /\ NodesAgree(rowMoves, x, a, y, b) => NodesAgree(now, x, a, y, b)
           /\ EdgesAgree(rowMoves, x, a, y, b) => EdgesAgree(now, x, a, y, b)
      /\ \A x : \A a \in 0..Len(rowMoves) :
           /\ NodesAgree(rowMoves, x, a, NodesIn(entryRows), Len(rowMoves)) =>
                NodesAgree(now, x, a, NodesIn(nowRows), Len(now))
           /\ EdgesAgree(rowMoves, x, a, edgeRows, Len(rowMoves)) =>
                EdgesAgree(now, x, a, nowEdges, Len(now))
  BY <1>1, <1>2, AfterAMove
<1> HIDE DEF now, nowRows, nowEdges
<1>5. 0..Len(rowMoves) \subseteq 0..Len(now)
  BY <1>4
<1>6. \A map : SnapshotStands(rowMoves, entryRows, edgeRows, map) => SnapshotStands(now, nowRows, nowEdges, map)
  BY <1>4, <1>5, Zenon DEF SnapshotStands
<1>7. ReadStands(now, nowRows, nodesRead, maps.last)
  <2>1. ReadStands(rowMoves, entryRows, nodesRead, maps.last)
    BY DEF MapIInv
  <2> QED BY <2>1, <1>4, <1>5, Zenon DEF ReadStands
<1>8. BeforeStands(now, maps.before, maps.last)
  <2>1. /\ BeforeStands(rowMoves, maps.before, maps.last)
        /\ maps.last.nodesAt \in 0..Len(rowMoves) /\ maps.last.edgesAt \in 0..Len(rowMoves)
    BY DEF MapIInv, SnapshotStands
  <2> QED BY <2>1, <1>4, Zenon DEF BeforeStands
<1>9. DetailStands(now, nowRows, nowEdges, detail)
  <2> SUFFICES ASSUME detail.step # 0
               PROVE  /\ SnapshotStands(now, nowRows, nowEdges, detail.of)
                      /\ detail.at \in 0..Len(now)
                      /\ detail.service \in DOMAIN detail.of.nodes => PartsHaveCauses(now, detail)
    BY DEF DetailStands
  <2>1. /\ SnapshotStands(rowMoves, entryRows, edgeRows, detail.of)
        /\ detail.at \in 0..Len(rowMoves)
        /\ detail.service \in DOMAIN detail.of.nodes => PartsHaveCauses(rowMoves, detail)
    BY DEF MapIInv, DetailStands
  <2>2. \A t, a : MovedIn(now, t, a, detail.at) = MovedIn(rowMoves, t, a, detail.at)
    BY <2>1, <1>4
  <2>3. PartsHaveCauses(rowMoves, detail) => PartsHaveCauses(now, detail)
    BY <2>2 DEF PartsHaveCauses, ServiceMoved
  <2> QED BY <2>1, <2>3, <1>5, <1>6
<1>10. SnapshotStands(now, nowRows, nowEdges, maps.last)
  BY <1>6 DEF MapIInv
<1> QED BY <1>3, <1>4, <1>7, <1>8, <1>9, <1>10 DEF MapIInv, now, nowRows, nowEdges

(* What the tables say now agrees with itself.                             *)
LEMMA NodesNow ==
  /\ \A s \in EntryServices : HealthOf(s) = HealthIn(entryRows, s)
  /\ [s \in EntryServices |-> HealthOf(s)] = NodesIn(entryRows)
<1>1. \A s : HealthOf(s) = HealthIn(entryRows, s)
  BY Zenon DEF HealthOf, HealthIn, EntriesOf
<1> QED BY <1>1, Zenon DEF NodesIn, EntryServices

LEMMA EdgesNow ==
  \A s : /\ TargetsOf(s) = TargetsIn(edgeRows, s) /\ SourcesOf(s) = SourcesIn(edgeRows, s)
         /\ ServiceTypeOf(s) = TypeOfService(ProtocolsIn(edgeRows, s))
BY Zenon DEF TargetsOf, SourcesOf, ServiceTypeOf, EdgesTo, EdgesFrom, TargetsIn, SourcesIn, ProtocolsIn

LEMMA NodesAreRead ==
  ASSUME MapIInv, ReadNodes
  PROVE  MapIInv'
<1>1. /\ UNCHANGED <<entryRows, edgeRows, rowMoves, maps, detail>>
      /\ nodesRead'.nodes = NodesIn(entryRows) /\ nodesRead'.at = Len(rowMoves)
  BY NodesNow DEF ReadNodes, mapTables
<1>2. Len(rowMoves) \in 0..Len(rowMoves)
  BY DEF MapIInv
<1>3. NodesAgree(rowMoves, NodesIn(entryRows), Len(rowMoves), NodesIn(entryRows), Len(rowMoves))
  BY Zenon DEF NodesAgree
<1>4. NodesAgree(rowMoves, maps.last.nodes, maps.last.nodesAt, NodesIn(entryRows), Len(rowMoves))
  BY DEF MapIInv, SnapshotStands
<1>5. ReadStands(rowMoves, entryRows, nodesRead', maps.last)
  BY <1>1, <1>2, <1>3, <1>4 DEF ReadStands
<1> QED BY <1>1, <1>5 DEF MapIInv

LEMMA MapIsBuilt ==
  ASSUME MapIInv, ReadEdges
  PROVE  MapIInv'
<1> DEFINE map == MapOf(nodesRead.nodes, nodesRead.at)
<1>1. /\ UNCHANGED <<entryRows, edgeRows, rowMoves, detail>>
      /\ maps'.last = map /\ maps'.before = maps.last
      /\ nodesRead.reading /\ ~nodesRead'.reading
  BY DEF ReadEdges, mapTables, NoNodes
<1>2. /\ map.nodes = nodesRead.nodes /\ map.edges = edgeRows
      /\ map.nodesAt = nodesRead.at /\ map.edgesAt = Len(rowMoves)
      /\ \A s \in DOMAIN map.nodes : /\ map.types[s] = ServiceTypeOf(s)
                                     /\ map.dependencies[s] = TargetsOf(s)
  BY DEF MapOf
<1> HIDE DEF map
<1>3. MapShaped(map)
  BY <1>2, EdgesNow DEF MapShaped
<1>4. /\ nodesRead.at \in 0..Len(rowMoves)
      /\ NodesAgree(rowMoves, nodesRead.nodes, nodesRead.at, NodesIn(entryRows), Len(rowMoves))
      /\ NodesAgree(rowMoves, maps.last.nodes, maps.last.nodesAt, nodesRead.nodes, nodesRead.at)
      /\ EdgesAgree(rowMoves, maps.last.edges, maps.last.edgesAt, edgeRows, Len(rowMoves))
      /\ Len(rowMoves) \in 0..Len(rowMoves)
  BY <1>1 DEF MapIInv, ReadStands, SnapshotStands
<1>5. EdgesAgree(rowMoves, edgeRows, Len(rowMoves), edgeRows, Len(rowMoves))
  BY Zenon DEF EdgesAgree
<1>6. SnapshotStands(rowMoves, entryRows, edgeRows, map)
  BY <1>2, <1>3, <1>4, <1>5, Zenon DEF SnapshotStands
<1>7. BeforeStands(rowMoves, maps.last, map)
  BY <1>2, <1>4, Zenon DEF BeforeStands
<1>8. ReadStands(rowMoves, entryRows, nodesRead', map)
  BY <1>1 DEF ReadStands
<1> QED BY <1>1, <1>6, <1>7, <1>8 DEF MapIInv

(* Two edge sets that agree but for what moved: where they differ at a     *)
(* service, an edge of that service moved.                                 *)
LEMMA EdgesDiffer ==
  ASSUME NEW ms, NEW a, NEW b, NEW x, NEW y, NEW s, EdgesAgree(ms, x, a, y, b)
  PROVE  /\ TargetsIn(x, s) # TargetsIn(y, s) =>
              \E r \in MovedIn(ms, "edges", a, b) : r.source = s
         /\ SourcesIn(x, s) # SourcesIn(y, s) \/ ProtocolsIn(x, s) # ProtocolsIn(y, s) =>
              \E r \in MovedIn(ms, "edges", a, b) : r.target = s
<1>1. ASSUME ~(\E r \in MovedIn(ms, "edges", a, b) : r.source = s)
      PROVE  TargetsIn(x, s) = TargetsIn(y, s)
  <2>1. {f \in x : f.source = s} = {f \in y : f.source = s}
    BY <1>1 DEF EdgesAgree
  <2> QED BY <2>1 DEF TargetsIn
<1>2. ASSUME ~(\E r \in MovedIn(ms, "edges", a, b) : r.target = s)
      PROVE  SourcesIn(x, s) = SourcesIn(y, s) /\ ProtocolsIn(x, s) = ProtocolsIn(y, s)
  <2>1. {f \in x : f.target = s} = {f \in y : f.target = s}
    BY <1>2 DEF EdgesAgree
  <2> QED BY <2>1 DEF SourcesIn, ProtocolsIn
<1> QED BY <1>1, <1>2

LEMMA DetailIsRead ==
  ASSUME MapIInv,
         \/ \E s \in MapServices : ReadOverview(s)
         \/ ReadDependencies \/ ReadDependents \/ ReadProtocols
  PROVE  MapIInv'
<1>1. UNCHANGED <<entryRows, edgeRows, rowMoves, nodesRead, maps>>
  BY DEF ReadOverview, ReadDependencies, ReadDependents, ReadProtocols, mapTables
<1>2. Len(rowMoves) \in Nat /\ Len(rowMoves) \in 0..Len(rowMoves) /\ DOMAIN rowMoves \subseteq Nat
  BY DEF MapIInv
<1> DEFINE d == detail'
<1>3. CASE \E s \in MapServices : ReadOverview(s)
  <2>1. PICK s \in MapServices :
          d = [NoDetail EXCEPT !.step = 1, !.service = s, !.of = maps.last, !.health = HealthOf(s),
                               !.at = Len(rowMoves)]
    BY <1>3 DEF ReadOverview
  <2> HIDE DEF d
  <2>2. d = [step |-> 1, service |-> s, of |-> maps.last, health |-> HealthOf(s),
             targets |-> {}, sources |-> {}, type |-> "web", at |-> Len(rowMoves)]
    BY <2>1 DEF NoDetail
  <2>3. /\ d.step = 1 /\ d.service = s /\ d.of = maps.last /\ d.health = HealthOf(s)
        /\ d.at = Len(rowMoves)
        /\ d = [step |-> d.step, service |-> d.service, of |-> d.of, health |-> d.health,
                targets |-> d.targets, sources |-> d.sources, type |-> d.type, at |-> d.at]
    BY <2>2
  <2>4. SnapshotStands(rowMoves, entryRows, edgeRows, d.of)
    BY <2>3 DEF MapIInv
  <2>5. ASSUME s \in DOMAIN d.of.nodes, ~ServiceMoved(rowMoves, s, d.of.nodesAt, d.at)
        PROVE  d.health = d.of.nodes[s]
    <3>1. /\ s \in DOMAIN NodesIn(entryRows) /\ d.of.nodes[s] = NodesIn(entryRows)[s]
      BY <2>3, <2>4, <2>5, Zenon DEF SnapshotStands, NodesAgree
    <3>2. s \in EntryServices
      BY <3>1 DEF NodesIn, EntryServices
    <3>3. NodesIn(entryRows)[s] = HealthOf(s)
      BY <3>2, NodesNow
    <3> QED BY <3>1, <3>3, <2>3
  <2>6. d.service \in DOMAIN d.of.nodes => PartsHaveCauses(rowMoves, d)
    BY <2>3, <2>5 DEF PartsHaveCauses
  <2>7. DetailStands(rowMoves, entryRows, edgeRows, d)
    BY <2>3, <2>4, <2>6, <1>2 DEF DetailStands
  <2> QED BY <1>1, <2>3, <2>7 DEF MapIInv, d
<1>4. ASSUME NEW k \in 1..3, detail.step = k,
             d.step = k + 1, d.service = detail.service, d.of = detail.of, d.health = detail.health,
             d.at = Len(rowMoves),
             d = [step |-> d.step, service |-> d.service, of |-> d.of, health |-> d.health,
                  targets |-> d.targets, sources |-> d.sources, type |-> d.type, at |-> d.at],
             k >= 2 => d.targets = detail.targets, k >= 3 => d.sources = detail.sources,
             k = 1 => d.targets = TargetsOf(detail.service),
             k = 2 => d.sources = SourcesOf(detail.service),
             k = 3 => d.type = ServiceTypeOf(detail.service)
      PROVE  MapIInv'
  <2> HIDE DEF d
  <2>1. /\ SnapshotStands(rowMoves, entryRows, edgeRows, d.of)
        /\ detail.at \in 0..Len(rowMoves)
        /\ d.service \in DOMAIN d.of.nodes => PartsHaveCauses(rowMoves, detail)
    BY <1>4 DEF MapIInv, DetailStands
  <2>2. \A t, a : MovedIn(rowMoves, t, a, detail.at) \subseteq MovedIn(rowMoves, t, a, d.at)
    BY <2>1, <1>2, <1>4, MovesGrow
  <2>3. EdgesAgree(rowMoves, d.of.edges, d.of.edgesAt, edgeRows, d.at)
    BY <2>1, <1>4 DEF SnapshotStands
  <2>4. /\ TargetsIn(d.of.edges, d.service) # TargetsIn(edgeRows, d.service) =>
             \E r \in MovedIn(rowMoves, "edges", d.of.edgesAt, d.at) : r.source = d.service
        /\ SourcesIn(d.of.edges, d.service) # SourcesIn(edgeRows, d.service) \/ ProtocolsIn(d.of.edges, d.service) # ProtocolsIn(edgeRows, d.service) =>
             \E r \in MovedIn(rowMoves, "edges", d.of.edgesAt, d.at) : r.target = d.service
    BY <2>3, EdgesDiffer
  <2>5. /\ k = 1 => d.targets = TargetsIn(edgeRows, d.service)
        /\ k = 2 => d.sources = SourcesIn(edgeRows, d.service)
        /\ k = 3 => d.type = TypeOfService(ProtocolsIn(edgeRows, d.service))
    BY <1>4, EdgesNow
  <2>6. ASSUME d.service \in DOMAIN d.of.nodes
        PROVE  PartsHaveCauses(rowMoves, d)
    <3>1. PartsHaveCauses(rowMoves, detail)
      BY <2>1, <2>6
    <3>2. d.health # d.of.nodes[d.service] => ServiceMoved(rowMoves, d.service, d.of.nodesAt, d.at)
      BY <3>1, <2>2, <1>4 DEF PartsHaveCauses, ServiceMoved
    <3>3. d.targets # TargetsIn(d.of.edges, d.service) =>
            \E r \in MovedIn(rowMoves, "edges", d.of.edgesAt, d.at) : r.source = d.service
      <4>1. CASE k = 1
        BY <4>1, <2>4, <2>5
      <4>2. CASE k # 1
        <5>1. d.targets = detail.targets /\ detail.step >= 2
          BY <4>2, <1>4
        <5> QED BY <5>1, <3>1, <2>2, <1>4 DEF PartsHaveCauses
      <4> QED BY <4>1, <4>2
    <3>4. k >= 2 /\ d.sources # SourcesIn(d.of.edges, d.service) =>
            \E r \in MovedIn(rowMoves, "edges", d.of.edgesAt, d.at) : r.target = d.service
      <4>1. CASE k = 2
        BY <4>1, <2>4, <2>5
      <4>2. CASE k = 3
        <5>1. d.sources = detail.sources /\ detail.step >= 3
          BY <4>2, <1>4
        <5> QED BY <5>1, <3>1, <2>2, <1>4 DEF PartsHaveCauses
      <4> QED BY <4>1, <4>2, <1>4
    <3>5. k = 3 /\ d.type # TypeOfService(ProtocolsIn(d.of.edges, d.service)) =>
            \E r \in MovedIn(rowMoves, "edges", d.of.edgesAt, d.at) : r.target = d.service
      BY <2>4, <2>5
    <3>6. (d.step >= 3 => k >= 2) /\ (d.step >= 4 => k = 3)
      BY <1>4
    <3> QED BY <3>2, <3>3, <3>4, <3>5, <3>6 DEF PartsHaveCauses
  <2>7. DetailStands(rowMoves, entryRows, edgeRows, d) /\ d.step \in 0..4
    BY <1>2, <1>4, <2>1, <2>6 DEF DetailStands
  <2> QED BY <1>1, <1>4, <2>7 DEF MapIInv, d
<1> DEFINE whole == detail = [step |-> detail.step, service |-> detail.service, of |-> detail.of,
                              health |-> detail.health, targets |-> detail.targets,
                              sources |-> detail.sources, type |-> detail.type, at |-> detail.at]
<1>5. CASE ReadDependencies
  <2>1. /\ detail.step = 1 /\ whole
        /\ d = [detail EXCEPT !.step = 2, !.targets = TargetsOf(detail.service), !.at = Len(rowMoves)]
    BY <1>5 DEF ReadDependencies, MapIInv
  <2> HIDE DEF d
  <2>2. d = [step |-> 2, service |-> detail.service, of |-> detail.of, health |-> detail.health,
             targets |-> TargetsOf(detail.service), sources |-> detail.sources,
             type |-> detail.type, at |-> Len(rowMoves)]
    BY <2>1 DEF whole
  <2>3. /\ d.step = 2 /\ d.service = detail.service /\ d.of = detail.of /\ d.health = detail.health
        /\ d.at = Len(rowMoves) /\ d.targets = TargetsOf(detail.service)
        /\ d = [step |-> d.step, service |-> d.service, of |-> d.of, health |-> d.health,
                targets |-> d.targets, sources |-> d.sources, type |-> d.type, at |-> d.at]
    BY <2>2
  <2> QED BY <2>1, <2>3, <1>4
<1>6. CASE ReadDependents
  <2>1. /\ detail.step = 2 /\ whole
        /\ d = [detail EXCEPT !.step = 3, !.sources = SourcesOf(detail.service), !.at = Len(rowMoves)]
    BY <1>6 DEF ReadDependents, MapIInv
  <2> HIDE DEF d
  <2>2. d = [step |-> 3, service |-> detail.service, of |-> detail.of, health |-> detail.health,
             targets |-> detail.targets, sources |-> SourcesOf(detail.service),
             type |-> detail.type, at |-> Len(rowMoves)]
    BY <2>1 DEF whole
  <2>3. /\ d.step = 3 /\ d.service = detail.service /\ d.of = detail.of /\ d.health = detail.health
        /\ d.at = Len(rowMoves) /\ d.targets = detail.targets /\ d.sources = SourcesOf(detail.service)
        /\ d = [step |-> d.step, service |-> d.service, of |-> d.of, health |-> d.health,
                targets |-> d.targets, sources |-> d.sources, type |-> d.type, at |-> d.at]
    BY <2>2
  <2> QED BY <2>1, <2>3, <1>4
<1>7. CASE ReadProtocols
  <2>1. /\ detail.step = 3 /\ whole
        /\ d = [detail EXCEPT !.step = 4, !.type = ServiceTypeOf(detail.service), !.at = Len(rowMoves)]
    BY <1>7 DEF ReadProtocols, MapIInv
  <2> HIDE DEF d
  <2>2. d = [step |-> 4, service |-> detail.service, of |-> detail.of, health |-> detail.health,
             targets |-> detail.targets, sources |-> detail.sources,
             type |-> ServiceTypeOf(detail.service), at |-> Len(rowMoves)]
    BY <2>1 DEF whole
  <2>3. /\ d.step = 4 /\ d.service = detail.service /\ d.of = detail.of /\ d.health = detail.health
        /\ d.at = Len(rowMoves) /\ d.targets = detail.targets /\ d.sources = detail.sources
        /\ d.type = ServiceTypeOf(detail.service)
        /\ d = [step |-> d.step, service |-> d.service, of |-> d.of, health |-> d.health,
                targets |-> d.targets, sources |-> d.sources, type |-> d.type, at |-> d.at]
    BY <2>2
  <2> QED BY <2>1, <2>3, <1>4
<1> QED BY <1>3, <1>5, <1>6, <1>7

(* What the invariant says of the maps and the detail is what the property *)
(* asks of them.                                                           *)
LEMMA AsMoved ==
  /\ \A t, a, b : Moved(t, a, b) = MovedIn(rowMoves, t, a, b)
  /\ \A s, a, b : SpansMoved(s, a, b) = ServiceMoved(rowMoves, s, a, b)
BY Zenon DEF Moved, MovedIn, SpansMoved, ServiceMoved

LEMMA ChangesAreCaused ==
  ASSUME MapIInv
  PROVE  ChangesHaveCauses
<1> DEFINE told == TopologyChanges(maps.last, maps.before)
           now == maps.last
           then == maps.before
<1>1. NodesAgree(rowMoves, then.nodes, then.nodesAt, now.nodes, now.nodesAt)
  BY DEF MapIInv, BeforeStands
<1>2. EdgesAgree(rowMoves, then.edges, then.edgesAt, now.edges, now.edgesAt)
  BY DEF MapIInv, BeforeStands
<1>3. ASSUME NEW s \in told.newServices \union told.goneServices \union told.health
      PROVE  SpansMoved(s, then.nodesAt, now.nodesAt)
  <2>1. ~(/\ s \in DOMAIN then.nodes <=> s \in DOMAIN now.nodes
          /\ s \in DOMAIN then.nodes => then.nodes[s] = now.nodes[s])
    BY DEF TopologyChanges, NodeNames
  <2>2. ServiceMoved(rowMoves, s, then.nodesAt, now.nodesAt)
    BY <2>1, <1>1, Zenon DEF NodesAgree
  <2> QED BY <2>2, AsMoved
<1>4. ASSUME NEW p \in told.newPairs \union told.gonePairs
      PROVE  PairMoved(p, then.edgesAt, now.edgesAt)
  <2>1. \/ p \in Pairs(now) /\ p \notin Pairs(then)
        \/ p \in Pairs(then) /\ p \notin Pairs(now)
    BY DEF TopologyChanges
  <2> HIDE DEF now, then
  <2>2. \E e : /\ p = <<e.source, e.target>>
               /\ ~(e \in then.edges <=> e \in now.edges)
    BY <2>1, Zenon DEF Pairs
  <2>3. \E e \in MovedIn(rowMoves, "edges", then.edgesAt, now.edgesAt) : p = <<e.source, e.target>>
    BY <2>2, <1>2, Zenon DEF EdgesAgree
  <2> QED BY <2>3, AsMoved DEF PairMoved
<1> QED BY <1>3, <1>4 DEF ChangesHaveCauses

LEMMA EndsCameLater ==
  ASSUME MapIInv
  PROVE  LostEndsCameLater
<1> DEFINE map == maps.last
<1>1. NodesAgree(rowMoves, map.nodes, map.nodesAt, NodesIn(entryRows), Len(rowMoves))
  BY DEF MapIInv, SnapshotStands
<1>2. DOMAIN NodesIn(entryRows) = EntryServices
  BY DEF NodesIn, EntryServices
<1>3. \A s : ~(s \in NodeNames(map) <=> s \in EntryServices) => SpansMoved(s, map.nodesAt, Len(rowMoves))
  BY <1>1, <1>2, AsMoved DEF NodesAgree, NodeNames
<1> HIDE DEF map
<1>4. \A s \in NodeNames(map) \ EntryServices : SpansMoved(s, map.nodesAt, Len(rowMoves))
  BY <1>3
<1>5. \A p \in Pairs(map) : \A s \in {p[1], p[2]} :
        s \notin NodeNames(map) /\ s \in EntryServices => SpansMoved(s, map.nodesAt, Len(rowMoves))
  BY <1>3
<1> QED BY <1>4, <1>5 DEF LostEndsCameLater, map

LEMMA DetailIsCaused ==
  ASSUME MapIInv
  PROVE  DetailDiffersForACause
<1> DEFINE s == detail.service
           map == detail.of
           listed == {p[1] : p \in {q \in Pairs(map) : q[2] = s}}
<1> SUFFICES ASSUME detail.step = 4, s \in NodeNames(map)
             PROVE  /\ detail.health # map.nodes[s] => SpansMoved(s, map.nodesAt, detail.at)
                    /\ detail.targets # map.dependencies[s] =>
                         \E r \in Moved("edges", map.edgesAt, detail.at) : r.source = s
                    /\ detail.type # map.types[s] \/ detail.sources # listed =>
                         \E r \in Moved("edges", map.edgesAt, detail.at) : r.target = s
  BY DEF DetailDiffersForACause
<1>1. MapShaped(map) /\ PartsHaveCauses(rowMoves, detail)
  BY DEF MapIInv, DetailStands, SnapshotStands, NodeNames
<1>2. /\ map.dependencies[s] = TargetsIn(map.edges, s)
      /\ map.types[s] = TypeOfService(ProtocolsIn(map.edges, s))
  BY <1>1 DEF MapShaped, NodeNames
<1>3. listed = SourcesIn(map.edges, s)
  <2> HIDE DEF map, s
  <2>1. ASSUME NEW x \in listed
        PROVE  x \in SourcesIn(map.edges, s)
    <3>1. PICK p \in Pairs(map) : p[2] = s /\ x = p[1]
      OBVIOUS
    <3>2. PICK e \in map.edges : p = <<e.source, e.target>>
      BY DEF Pairs
    <3> QED BY <3>1, <3>2 DEF SourcesIn
  <2>2. ASSUME NEW x \in SourcesIn(map.edges, s)
        PROVE  x \in listed
    <3>1. PICK e \in map.edges : e.target = s /\ x = e.source
      BY DEF SourcesIn
    <3>2. <<e.source, e.target>> \in Pairs(map)
      BY DEF Pairs
    <3> QED BY <3>1, <3>2
  <2> QED BY <2>1, <2>2
<1>4. /\ detail.health # map.nodes[s] => ServiceMoved(rowMoves, s, map.nodesAt, detail.at)
      /\ detail.targets # TargetsIn(map.edges, s) =>
           \E r \in MovedIn(rowMoves, "edges", map.edgesAt, detail.at) : r.source = s
      /\ detail.sources # SourcesIn(map.edges, s) =>
           \E r \in MovedIn(rowMoves, "edges", map.edgesAt, detail.at) : r.target = s
      /\ detail.type # TypeOfService(ProtocolsIn(map.edges, s)) =>
           \E r \in MovedIn(rowMoves, "edges", map.edgesAt, detail.at) : r.target = s
  BY <1>1 DEF PartsHaveCauses
<1>5. Moved("edges", map.edgesAt, detail.at) = MovedIn(rowMoves, "edges", map.edgesAt, detail.at)
  BY AsMoved, Zenon
<1>6. SpansMoved(s, map.nodesAt, detail.at) = ServiceMoved(rowMoves, s, map.nodesAt, detail.at)
  BY AsMoved, Zenon
<1> HIDE DEF map, s, listed
<1> QED BY <1>2, <1>3, <1>4, <1>5, <1>6

(* For any services, protocols and batches of spans: what                  *)
(* detect_topology_changes (service_map.py 454-497) tells between two maps *)
(* that were each read in two parts, every end an edge lacks, and every    *)
(* difference of a detail (284-452) from the map it was opened from has    *)
(* its cause in a row that came or went between those reads.               *)
THEOREM MapsStayCoherent == MapSpec => []MapsAreCoherent
<1>1. MapInit => MapIInv
  <2> SUFFICES ASSUME MapInit PROVE MapIInv
    OBVIOUS
  <2>1. /\ rowMoves = <<>> /\ Len(rowMoves) = 0 /\ entryRows = {} /\ edgeRows = {}
        /\ maps.last = EmptyMap /\ maps.before = EmptyMap
        /\ ~nodesRead.reading /\ detail = NoDetail
    BY DEF MapInit, NoNodes
  <2>2. /\ EmptyMap.nodes = [s \in {} |-> "healthy"] /\ EmptyMap.edges = {}
        /\ EmptyMap.nodesAt = 0 /\ EmptyMap.edgesAt = 0
    BY DEF EmptyMap
  <2>3. DOMAIN EmptyMap.nodes = {} /\ DOMAIN NodesIn({}) = {}
    BY <2>2 DEF NodesIn
  <2>4. \A a, b : /\ NodesAgree(rowMoves, EmptyMap.nodes, a, NodesIn({}), b)
                  /\ NodesAgree(rowMoves, EmptyMap.nodes, a, EmptyMap.nodes, b)
                  /\ EdgesAgree(rowMoves, {}, a, {}, b)
    BY <2>3, Zenon DEF NodesAgree, EdgesAgree
  <2>5. MapShaped(EmptyMap)
    BY <2>3 DEF MapShaped
  <2>6. 0 \in 0..Len(rowMoves)
    BY <2>1
  <2>7. SnapshotStands(rowMoves, entryRows, edgeRows, maps.last)
    BY <2>1, <2>2, <2>4, <2>5, <2>6 DEF SnapshotStands
  <2>8. BeforeStands(rowMoves, maps.before, maps.last)
    BY <2>1, <2>2, <2>4 DEF BeforeStands
  <2>9. ReadStands(rowMoves, entryRows, nodesRead, maps.last)
    BY <2>1 DEF ReadStands
  <2>10. /\ detail.step = 0
         /\ detail = [step |-> detail.step, service |-> detail.service, of |-> detail.of,
                      health |-> detail.health, targets |-> detail.targets,
                      sources |-> detail.sources, type |-> detail.type, at |-> detail.at]
    BY <2>1 DEF NoDetail
  <2>11. DetailStands(rowMoves, entryRows, edgeRows, detail)
    BY <2>10 DEF DetailStands
  <2>12. rowMoves \in Seq({})
    BY <2>1
  <2> QED BY <2>7, <2>8, <2>9, <2>10, <2>11, <2>12 DEF MapIInv
<1>2. MapIInv /\ UNCHANGED mapVars => MapIInv'
  BY DEF mapVars, MapIInv
<1>3. MapIInv /\ [MapNext]_mapVars => MapIInv'
  BY <1>2, RowsMove, NodesAreRead, MapIsBuilt, DetailIsRead DEF MapNext
<1>4. MapIInv => MapsAreCoherent
  BY ChangesAreCaused, EndsCameLater, DetailIsCaused DEF MapsAreCoherent
<1> QED BY <1>1, <1>3, <1>4, PTL DEF MapSpec

-----------------------------------------------------------------------------
(* Screens.  A screen nothing disturbed shows what the tables still say;   *)
(* the tables hold of every part one row per thing and moment.             *)
InfraTyped ==
  /\ moment \in Nat
  /\ hostRows \in [Machines -> [memory : Nat, seen : Int]]
  /\ \A m \in hostMetrics : m.used \in Nat /\ m.at \in 0..moment
  /\ \A r \in reports : r.at \in 0..moment

OneRowEach ==
  \A r, q \in reports :
    r.table = q.table /\ r.part = q.part /\ r.id = q.id /\ r.at = q.at => r = q

ScreenShaped ==
  /\ screen = [kind |-> screen.kind, of |-> screen.of, since |-> screen.since, got |-> screen.got,
               disturbed |-> screen.disturbed, answer |-> screen.answer]
  /\ \E S : screen.got \in Seq(S)
  /\ screen.kind \in DOMAIN Reads /\ screen.answer = 0 => Len(screen.got) < Reads[screen.kind]
  /\ screen.kind \in DOMAIN Reads \union {"none"}

(* What the tables say about an issue that was raised.                     *)
OfContainer(i) == \E r \in ListContainers(Machines) : r.id = i.id /\ r.part = i.part
OfPod(i, status) ==
  \E r \in ListPods(Namespaces) : r.id = i.id /\ r.part = i.part /\ r.state.status = status

IssuesStand ==
  ~screen.disturbed =>
    /\ screen.kind = "containerIssues" =>
         \A k \in DOMAIN screen.got : \A i \in screen.got[k] : OfContainer(i)
    /\ screen.kind = "podIssues" =>
         \A k \in DOMAIN screen.got : \A i \in screen.got[k] :
           /\ i.type = "crash" => OfPod(i, "CrashLoopBackOff")
           /\ i.type = "pending" => OfPod(i, "Pending")

HostStands ==
  screen.kind = "host" =>
    /\ screen.of \in Machines
    /\ screen.answer \in {0, 200} /\ Len(screen.got) # 0 =>
         \E row : screen.got[1] = {row} /\ row.seen \in Int
    /\ screen.answer = 200 =>
         /\ Len(screen.got) = 7
         /\ screen.got[7] = {"unreachable"} =>
              \A r \in screen.got[1] : r.seen + UnreachableAfter < moment

(* The two reads of the costs are of one day, unless it changed meanwhile. *)
CostsStand ==
  screen.kind = "costs" =>
    /\ screen.since \in Nat /\ screen.since <= moment
    /\ screen.answer = 200 => Len(screen.got) = 2
    /\ moment < Midnight \/ screen.since >= Midnight =>
         /\ Len(screen.got) >= 1 => screen.got[1] = {CostByService}
         /\ Len(screen.got) >= 2 => screen.got[2] \in TopCosts

InfraIInv == InfraTyped /\ OneRowEach /\ ScreenShaped /\ IssuesStand /\ HostStands /\ CostsStand

LEMMA InfraFacts ==
  /\ UnreachableAfter \in Nat /\ Midnight \in Nat
  /\ IsFiniteSet(Costs) /\ \A c \in Costs : c.cost \in Int
  /\ MemorySizes \subseteq Nat
  /\ \A load \in HostLoads : load.used \in Nat
  /\ \A table \in DOMAIN Contents : \A content \in Contents[table] :
       \A c, d \in content : c.id = d.id => c = d
BY InfraAssumption DEF InfraAssumption

LEMMA ReadsFacts ==
  /\ \A kind \in DOMAIN Reads : Reads[kind] \in Nat /\ Reads[kind] > 0
  /\ {"host", "containerIssues", "podIssues", "costs"} \subseteq DOMAIN Reads
  /\ Reads["costs"] = 2 /\ Reads["host"] = 7 /\ Reads["containerIssues"] = 3 /\ Reads["podIssues"] = 4
  /\ "none" \notin DOMAIN Reads
BY DEF Reads

(* The three ways to compute the status of a host.                         *)
LEMMA SharesClassify ==
  ASSUME NEW used \in Nat, NEW memory \in Nat, NEW cpu, NEW seen
  PROVE  Classify(cpu, ShareOf(used, memory), seen) = Classify(cpu, SqlShareOf(used, memory), seen)
<1>1. CASE memory # 0
  <2>1. ShareOf(used, memory) = SqlShareOf(used, memory)
    BY <1>1 DEF ShareOf, SqlShareOf
  <2> QED BY <2>1
<1>2. CASE memory = 0
  <2>1. ShareOf(used, memory) = used * 100
    BY <1>2 DEF ShareOf
  <2>2. SqlShareOf(used, memory) = IF used = 0 THEN -1 ELSE 1000000
    BY <1>2 DEF SqlShareOf
  <2>3. CASE used = 0
    <3>1. ShareOf(used, memory) = 0 /\ SqlShareOf(used, memory) = -1
      BY <2>1, <2>2, <2>3
    <3>2. ~(0 >= 90) /\ ~(0 >= 80) /\ ~(-1 >= 90) /\ ~(-1 >= 80)
      OBVIOUS
    <3>3. /\ Classify(cpu, 0, seen) = Classify(cpu, -1, seen)
      BY <3>2 DEF Classify
    <3> QED BY <3>1, <3>3, Zenon
  <2>4. CASE used # 0
    <3>1. ShareOf(used, memory) >= 90 /\ SqlShareOf(used, memory) >= 90
      BY <2>1, <2>2, <2>4
    <3> QED BY <3>1, Zenon DEF Classify
  <2> QED BY <2>3, <2>4
<1> QED BY <1>1, <1>2

LEMMA StatusesAgree == InfraIInv => HostStatusesAgree
<1> SUFFICES ASSUME InfraIInv, NEW h \in KnownHosts
             PROVE  /\ ListStatus(h) = MapStatus(h)
                    /\ ListStatus(h) = DetailStatus(hostRows[h], LastMetrics(h))
  BY DEF HostStatusesAgree
<1>1. hostRows[h].memory \in Nat
  BY DEF KnownHosts, InfraIInv, InfraTyped
<1>2. LastMetrics(h).used \in Nat
  <2> DEFINE mine == {m \in hostMetrics : m.host = h}
             times == {m.at : m \in mine}
  <2>1. CASE mine = {}
    BY <2>1 DEF LastMetrics
  <2>2. CASE mine # {}
    <3>1. times \in SUBSET (0..moment) /\ times # {} /\ moment \in Nat
      BY <2>2 DEF InfraIInv, InfraTyped
    <3>2. \E x \in times : \A y \in times : y <= x
      BY <3>1, LatestMoment
    <3>3. \E m \in mine : \A n \in mine : n.at <= m.at
      BY <3>2
    <3>4. LastMetrics(h) = CHOOSE m \in mine : \A n \in mine : n.at <= m.at
      BY <2>2 DEF LastMetrics
    <3>5. LastMetrics(h) \in mine
      BY <3>3, <3>4
    <3> QED BY <3>5 DEF InfraIInv, InfraTyped
  <2> QED BY <2>1, <2>2
<1>3. ListStatus(h) = MapStatus(h)
  BY <1>1, <1>2, SharesClassify DEF ListStatus, MapStatus
<1> QED BY <1>3 DEF ListStatus, DetailStatus

LEMMA NarrowingHolds == InfraIInv => NarrowingHidesNothing
<1> SUFFICES ASSUME InfraIInv, NEW table \in DOMAIN Contents, NEW part \in PartsOf(table)
             PROVE  /\ {r \in Latest(table, PartsOf(table)) : r.part = part} \subseteq Latest(table, {part})
                    /\ (\E r \in reports : r.table = table /\ r.part = part) =>
                         Latest(table, {part}) # {}
  BY DEF NarrowingHidesNothing
<1>1. {r \in Latest(table, PartsOf(table)) : r.part = part} \subseteq Latest(table, {part})
  BY DEF Latest
<1>2. ASSUME \E r \in reports : r.table = table /\ r.part = part
      PROVE  Latest(table, {part}) # {}
  <2> DEFINE scope == {r \in reports : r.table = table /\ r.part \in {part}}
             times == {r.at : r \in scope}
  <2>1. times \in SUBSET (0..moment) /\ times # {} /\ moment \in Nat
    BY <1>2 DEF InfraIInv, InfraTyped
  <2>2. \E x \in times : \A y \in times : y <= x
    BY <2>1, LatestMoment
  <2>3. \E r \in scope : \A q \in scope : q.at <= r.at
    BY <2>2
  <2> QED BY <2>3 DEF Latest
<1> QED BY <1>1, <1>2

(* What a screen that reads, or is read to the end, has got.               *)
LEMMA GotOneMore ==
  ASSUME NEW S, NEW s \in Seq(S), NEW x
  PROVE  /\ Append(s, x) \in Seq(S \union {x})
         /\ Len(Append(s, x)) = Len(s) + 1 /\ Len(s) \in Nat
         /\ DOMAIN Append(s, x) = 1..(Len(s) + 1)
         /\ DOMAIN s = 1..Len(s)
         /\ \A k \in 1..Len(s) : Append(s, x)[k] = s[k]
         /\ Append(s, x)[Len(s) + 1] = x
<1>1. s \in Seq(S \union {x})
  BY SequenceOfMore
<1>2. x \in S \union {x}
  OBVIOUS
<1> QED BY <1>1, <1>2

LEMMA ContainersRaised ==
  ASSUME NEW k \in 1..3, NEW i \in ContainerIssues(k)
  PROVE  OfContainer(i)
<1> DEFINE rows == ListContainers(Machines)
<1>1. \E r \in rows : i.id = r.id /\ i.part = r.part
  <2> HIDE DEF rows
  <2>1. CASE k = 1
    BY <2>1 DEF ContainerIssues, Raised, rows
  <2>2. CASE k = 2
    BY <2>2 DEF ContainerIssues, Raised, rows
  <2>3. CASE k = 3
    BY <2>3 DEF ContainerIssues, Raised, rows
  <2> QED BY <2>1, <2>2, <2>3
<1> QED BY <1>1 DEF OfContainer

LEMMA PodsRaised ==
  ASSUME NEW k \in 1..4, NEW i \in PodIssues(k)
  PROVE  /\ i.type = "crash" => OfPod(i, "CrashLoopBackOff")
         /\ i.type = "pending" => OfPod(i, "Pending")
<1> DEFINE pods == ListPods(Namespaces)
<1> HIDE DEF pods
<1>1. CASE k = 1
  <2>1. i.type = "crash" /\ \E r \in pods : /\ r.state.status = "CrashLoopBackOff"
                                            /\ i.id = r.id /\ i.part = r.part
    BY <1>1 DEF PodIssues, Raised, pods
  <2> QED BY <2>1 DEF OfPod, pods
<1>2. CASE k = 2
  <2>1. i.type = "pending" /\ \E r \in pods : /\ r.state.status = "Pending"
                                              /\ i.id = r.id /\ i.part = r.part
    BY <1>2 DEF PodIssues, Raised, pods
  <2> QED BY <2>1 DEF OfPod, pods
<1>3. CASE k = 3
  <2>1. i.type = "oom"
    BY <1>3 DEF PodIssues, Raised
  <2> QED BY <2>1
<1>4. CASE k = 4
  <2>1. i.type = "pressure"
    BY <1>4 DEF PodIssues, Raised
  <2> QED BY <2>1
<1> QED BY <1>1, <1>2, <1>3, <1>4

LEMMA WhatIsRead ==
  ASSUME NEW of, NEW k
  PROVE  /\ MayReturn("containerIssues", of, k) = {ContainerIssues(k)}
         /\ MayReturn("podIssues", of, k) = {PodIssues(k)}
         /\ MayReturn("host", of, k) = {HostRead(of, k)}
         /\ MayReturn("costs", of, k) = CostRead(k)
BY DEF MayReturn, ReadOf

(* The steps of those who report, and time.                                *)
LEMMA ReportsKeep ==
  ASSUME InfraIInv, HostReports \/ SnapshotArrives \/ TimePasses
  PROVE  InfraTyped' /\ OneRowEach'
<1>1. moment \in Nat /\ moment' \in Nat /\ moment <= moment'
  BY DEF InfraIInv, InfraTyped, HostReports, SnapshotArrives, TimePasses
<1>2. CASE HostReports
  <2>1. PICK h \in Machines, load \in HostLoads, size \in MemorySizes :
          /\ hostRows' = [hostRows EXCEPT ![h] = [memory |-> size, seen |-> moment]]
          /\ hostMetrics' = hostMetrics \cup
               {[host |-> h, cpu |-> load.cpu, used |-> load.used, at |-> moment]}
    BY <1>2 DEF HostReports
  <2>2. UNCHANGED <<moment, reports>>
    BY <1>2 DEF HostReports
  <2>3. size \in Nat /\ load.used \in Nat
    BY InfraFacts
  <2>4. hostRows \in [Machines -> [memory : Nat, seen : Int]]
    BY DEF InfraIInv, InfraTyped
  <2>5. hostRows' \in [Machines -> [memory : Nat, seen : Int]]
    BY <2>1, <2>3, <2>4, <1>1
  <2>6. \A m \in hostMetrics' : m.used \in Nat /\ m.at \in 0..moment
    BY <2>1, <2>3, <1>1 DEF InfraIInv, InfraTyped
  <2> QED BY <2>2, <2>5, <2>6 DEF InfraIInv, InfraTyped, OneRowEach
<1>3. CASE SnapshotArrives
  <2>0. PICK table \in DOMAIN Contents : \E part \in PartsOf(table) : \E content \in Contents[table] :
          /\ \A r \in reports : r.table = table /\ r.part = part => r.at < moment
          /\ reports' = reports \cup
               {[table |-> table, part |-> part, id |-> c.id, state |-> c.state, at |-> moment] :
                  c \in content}
    BY <1>3 DEF SnapshotArrives
  <2>1. PICK part \in PartsOf(table), content \in Contents[table] :
          /\ \A r \in reports : r.table = table /\ r.part = part => r.at < moment
          /\ reports' = reports \cup
               {[table |-> table, part |-> part, id |-> c.id, state |-> c.state, at |-> moment] :
                  c \in content}
    BY <2>0
  <2>2. UNCHANGED <<moment, hostRows, hostMetrics>>
    BY <1>3 DEF SnapshotArrives
  <2> DEFINE new == {[table |-> table, part |-> part, id |-> c.id, state |-> c.state, at |-> moment] :
                       c \in content}
  <2>3. \A r \in new : r.table = table /\ r.part = part /\ r.at = moment
    OBVIOUS
  <2>4. \A r, q \in new : r.id = q.id => r = q
    <3> SUFFICES ASSUME NEW r \in new, NEW q \in new, r.id = q.id
                 PROVE  r = q
      OBVIOUS
    <3>1. PICK c \in content : r = [table |-> table, part |-> part, id |-> c.id, state |-> c.state,
                                    at |-> moment]
      OBVIOUS
    <3>2. PICK d \in content : q = [table |-> table, part |-> part, id |-> d.id, state |-> d.state,
                                    at |-> moment]
      OBVIOUS
    <3>3. c.id = d.id
      BY <3>1, <3>2
    <3> QED BY <3>1, <3>2, <3>3, InfraFacts
  <2> HIDE DEF new
  <2>5. reports' = reports \union new
    BY <2>1 DEF new
  <2>6. \A r \in reports : r.at \in Int
    BY DEF InfraIInv, InfraTyped
  <2>7. OneRowEach'
    <3> SUFFICES ASSUME NEW r \in reports', NEW q \in reports',
                        r.table = q.table, r.part = q.part, r.id = q.id, r.at = q.at
                 PROVE  r = q
      BY DEF OneRowEach
    <3>1. CASE r \in reports /\ q \in reports
      BY <3>1 DEF InfraIInv, OneRowEach
    <3>2. CASE r \in new /\ q \in new
      BY <3>2, <2>4
    <3>3. CASE r \in reports /\ q \in new
      <4>1. r.at < moment /\ q.at = moment
        BY <3>3, <2>1, <2>3
      <4> QED BY <4>1, <1>1
    <3>4. CASE r \in new /\ q \in reports
      <4>1. q.at < moment /\ r.at = moment
        BY <3>4, <2>1, <2>3
      <4> QED BY <4>1, <1>1
    <3> QED BY <3>1, <3>2, <3>3, <3>4, <2>5
  <2>8. \A r \in reports' : r.at \in 0..moment
    BY <2>3, <2>5, <1>1 DEF InfraIInv, InfraTyped
  <2> QED BY <2>2, <2>7, <2>8 DEF InfraIInv, InfraTyped
<1>4. CASE TimePasses
  <2>1. UNCHANGED <<hostRows, hostMetrics, reports>>
    BY <1>4 DEF TimePasses
  <2>2. \A x \in 0..moment : x \in 0..moment'
    BY <1>1
  <2> QED BY <1>1, <2>1, <2>2 DEF InfraIInv, InfraTyped, OneRowEach
<1> QED BY <1>2, <1>3, <1>4

(* A screen is told that it was disturbed, and keeps what it has.          *)
LEMMA DisturbedKeep ==
  ASSUME InfraIInv, HostReports \/ SnapshotArrives \/ TimePasses
  PROVE  ScreenShaped' /\ IssuesStand' /\ HostStands' /\ CostsStand'
<1>1. moment \in Nat /\ moment' \in Nat /\ moment <= moment'
  BY DEF InfraIInv, InfraTyped, HostReports, SnapshotArrives, TimePasses
<1>2. /\ screen' = screen \/ screen' = [screen EXCEPT !.disturbed = TRUE]
      /\ \/ reports' = reports
         \/ screen' = IF screen = NoScreen THEN screen ELSE [screen EXCEPT !.disturbed = TRUE]
  BY DEF HostReports, SnapshotArrives, TimePasses, Disturb
<1>3. /\ screen'.kind = screen.kind /\ screen'.of = screen.of /\ screen'.got = screen.got
      /\ screen'.since = screen.since
      /\ screen'.answer = screen.answer /\ screen'.disturbed \in {screen.disturbed, TRUE}
      /\ ScreenShaped'
  <2>1. CASE screen' = screen
    BY <2>1 DEF InfraIInv, ScreenShaped
  <2>2. CASE screen' = [screen EXCEPT !.disturbed = TRUE]
    <3>1. screen' = [kind |-> screen.kind, of |-> screen.of, since |-> screen.since,
                     got |-> screen.got, disturbed |-> TRUE, answer |-> screen.answer]
      BY <2>2 DEF InfraIInv, ScreenShaped
    <3> QED BY <3>1 DEF InfraIInv, ScreenShaped
  <2> QED BY <1>2, <2>1, <2>2
<1>4. IssuesStand'
  <2>1. CASE reports' = reports
    <3>1. \A i : /\ OfContainer(i) => OfContainer(i)'
                 /\ \A status : OfPod(i, status) => OfPod(i, status)'
      BY <2>1 DEF OfContainer, OfPod, ListContainers, ListPods, Latest
    <3>2. ~screen'.disturbed => ~screen.disturbed
      BY <1>3
    <3> QED BY <3>1, <3>2, <1>3 DEF InfraIInv, IssuesStand
  <2>2. CASE reports' # reports
    <3>1. CASE screen = NoScreen
      <4>1. NoScreen.kind = "none"
        BY DEF NoScreen
      <4> QED BY <3>1, <4>1, <1>3 DEF IssuesStand
    <3>2. CASE screen # NoScreen
      <4>1. screen' = [screen EXCEPT !.disturbed = TRUE]
        BY <1>2, <2>2, <3>2
      <4>2. screen' = [kind |-> screen.kind, of |-> screen.of, since |-> screen.since,
                       got |-> screen.got, disturbed |-> TRUE, answer |-> screen.answer]
        BY <4>1 DEF InfraIInv, ScreenShaped
      <4> QED BY <4>2 DEF IssuesStand
    <3> QED BY <3>1, <3>2
  <2> QED BY <2>1, <2>2
<1>5. HostStands'
  <2> SUFFICES ASSUME screen.kind = "host"
               PROVE  HostStands'
    BY <1>3 DEF HostStands
  <2>1. HostStands
    BY DEF InfraIInv
  <2>2. ASSUME screen.answer = 200, screen.got[7] = {"unreachable"}, NEW r \in screen.got[1]
        PROVE  r.seen + UnreachableAfter < moment'
    <3>1. Len(screen.got) = 7 /\ r.seen + UnreachableAfter < moment
      BY <2>1, <2>2 DEF HostStands
    <3>2. r.seen \in Int
      BY <2>1, <2>2, <3>1 DEF HostStands
    <3> QED BY <3>1, <3>2, <1>1, InfraFacts
  <2> QED BY <2>1, <2>2, <1>3 DEF HostStands
<1>6. CostsStand'
  <2> SUFFICES ASSUME screen.kind = "costs"
               PROVE  CostsStand'
    BY <1>3 DEF CostsStand
  <2>1. CostsStand
    BY DEF InfraIInv
  <2>2. screen.since \in Nat /\ screen.since <= moment /\ Midnight \in Nat
    BY <2>1, InfraFacts DEF CostsStand
  <2>3. ASSUME moment' < Midnight \/ screen.since >= Midnight
        PROVE  /\ moment < Midnight \/ screen.since >= Midnight
               /\ Today' = Today
    BY <1>1, <2>2, <2>3 DEF Today
  <2>4. ASSUME Today' = Today
        PROVE  TopCosts' = TopCosts /\ CostByService' = CostByService
    BY <2>4 DEF CostsOfToday, CostByService, TopCosts
  <2> QED BY <1>1, <1>3, <2>1, <2>2, <2>3, <2>4 DEF CostsStand
<1> QED BY <1>3, <1>4, <1>5, <1>6

LEMMA ScreenOpens ==
  ASSUME InfraIInv, OpenScreen
  PROVE  InfraIInv'
<1>1. UNCHANGED <<moment, hostRows, hostMetrics, reports, reported>>
  BY DEF OpenScreen
<1>0. PICK kind \in DOMAIN Reads : \E of \in Subjects(kind) :
        screen' = [NoScreen EXCEPT !.kind = kind, !.of = of, !.since = moment]
  BY DEF OpenScreen
<1>2. PICK of \in Subjects(kind) :
        screen' = [NoScreen EXCEPT !.kind = kind, !.of = of, !.since = moment]
  BY <1>0
<1>3. kind = "host" => of \in Machines
  BY DEF Subjects
<1>4. screen' = [kind |-> kind, of |-> of, since |-> moment, got |-> <<>>, disturbed |-> FALSE,
                 answer |-> 0]
  BY <1>2 DEF NoScreen
<1>5. <<>> \in Seq({}) /\ Len(<<>>) = 0 /\ DOMAIN <<>> = {}
  OBVIOUS
<1>6. ScreenShaped'
  BY <1>4, <1>5, ReadsFacts DEF ScreenShaped
<1>7. IssuesStand'
  BY <1>4, <1>5 DEF IssuesStand
<1>8. HostStands'
  BY <1>3, <1>4, <1>5 DEF HostStands
<1>9. InfraTyped' /\ OneRowEach'
  BY <1>1 DEF InfraIInv, InfraTyped, OneRowEach
<1>10. CostsStand'
  BY <1>1, <1>4, <1>5 DEF CostsStand, InfraIInv, InfraTyped
<1> QED BY <1>6, <1>7, <1>8, <1>9, <1>10 DEF InfraIInv

LEMMA ScreenCloses ==
  ASSUME InfraIInv, ReadFails \/ CloseScreen
  PROVE  InfraIInv'
<1>1. UNCHANGED <<moment, hostRows, hostMetrics, reports, reported>>
  BY DEF ReadFails, CloseScreen
<1>2. InfraTyped' /\ OneRowEach'
  BY <1>1 DEF InfraIInv, InfraTyped, OneRowEach
<1>3. CASE CloseScreen
  <2>1. screen' = [kind |-> "none", of |-> "", since |-> 0, got |-> <<>>, disturbed |-> FALSE,
                   answer |-> 0]
    BY <1>3 DEF CloseScreen, NoScreen
  <2>2. <<>> \in Seq({})
    OBVIOUS
  <2>3. ScreenShaped'
    BY <2>1, <2>2, ReadsFacts DEF ScreenShaped
  <2> QED BY <2>1, <2>3, <1>2 DEF InfraIInv, IssuesStand, HostStands, CostsStand
<1>4. CASE ReadFails
  <2> DEFINE answer == IF screen.kind = "clusters" /\ screen.got # <<>> THEN 200 ELSE 500
  <2>1. answer # 0 /\ (screen.kind \in {"host", "costs"} => answer = 500)
    OBVIOUS
  <2> HIDE DEF answer
  <2>2. screen' = [kind |-> screen.kind, of |-> screen.of, since |-> screen.since,
                   got |-> screen.got, disturbed |-> screen.disturbed, answer |-> answer]
    BY <1>4 DEF ReadFails, answer, InfraIInv, ScreenShaped
  <2>3. ScreenShaped'
    BY <2>1, <2>2 DEF InfraIInv, ScreenShaped
  <2>4. \A i : /\ OfContainer(i) => OfContainer(i)'
               /\ \A status : OfPod(i, status) => OfPod(i, status)'
    BY <1>1 DEF OfContainer, OfPod, ListContainers, ListPods, Latest
  <2>5. IssuesStand'
    BY <2>2, <2>4 DEF InfraIInv, IssuesStand
  <2>6. HostStands'
    BY <2>1, <2>2 DEF InfraIInv, HostStands
  <2>7. TopCosts' = TopCosts /\ CostByService' = CostByService
    BY <1>1 DEF CostsOfToday, CostByService, TopCosts, Today
  <2>8. CostsStand'
    BY <2>1, <2>2, <2>7, <1>1 DEF InfraIInv, CostsStand
  <2> QED BY <2>3, <2>5, <2>6, <2>8, <1>2 DEF InfraIInv
<1> QED BY <1>3, <1>4

ReadReturns(rows) ==
  LET k == Len(screen.got) + 1
      missing == k = 1 /\ screen.kind \in {"host", "cluster", "container", "pod"} /\ rows = {}
      noCluster == k = 1 /\ screen.kind = "clusters" /\ screen.of \notin rows
      status == IF missing THEN 404
                ELSE IF k = Reads[screen.kind] \/ noCluster THEN 200 ELSE 0
  IN  screen' = [screen EXCEPT
        !.got = IF screen.kind = "host" /\ status = 200
                THEN Append(@, {DetailStatus(CHOOSE r \in @[1] : TRUE, CHOOSE m \in @[2] : TRUE)})
                ELSE Append(@, rows),
        !.answer = status]

LEMMA ScreenReads ==
  ASSUME InfraIInv, Read
  PROVE  InfraIInv'
<1>0. PICK rows \in MayReturn(screen.kind, screen.of, Len(screen.got) + 1) : ReadReturns(rows)
  BY DEF Read, ReadReturns
<1> DEFINE k == Len(screen.got) + 1
           missing == k = 1 /\ screen.kind \in {"host", "cluster", "container", "pod"} /\ rows = {}
           noCluster == k = 1 /\ screen.kind = "clusters" /\ screen.of \notin rows
           status == IF missing THEN 404
                     ELSE IF k = Reads[screen.kind] \/ noCluster THEN 200 ELSE 0
           detailed == {DetailStatus(CHOOSE r \in screen.got[1] : TRUE, CHOOSE m \in screen.got[2] : TRUE)}
           more == IF screen.kind = "host" /\ status = 200 THEN detailed ELSE rows
           got == IF screen.kind = "host" /\ status = 200
                  THEN Append(screen.got, detailed) ELSE Append(screen.got, rows)
<1>1. UNCHANGED <<moment, hostRows, hostMetrics, reports, reported>>
  BY DEF Read
<1>2. screen.kind # "none" /\ screen.answer = 0
  BY DEF Read
<1>3. screen' = [screen EXCEPT !.got = got, !.answer = status]
  BY <1>0 DEF ReadReturns
<1>4. /\ status \in {0, 200, 404}
      /\ status = 0 => k # Reads[screen.kind]
      /\ screen.kind \in {"host", "costs"} => (status = 200 => ~missing /\ k = Reads[screen.kind])
      /\ screen.kind = "host" => (missing <=> k = 1 /\ rows = {})
      /\ missing => status = 404
  OBVIOUS
<1>5. /\ more = IF screen.kind = "host" /\ status = 200 THEN detailed ELSE rows
      /\ got = Append(screen.got, more)
  OBVIOUS
<1>6. PICK S : screen.got \in Seq(S)
  BY DEF InfraIInv, ScreenShaped
<1> HIDE DEF missing, status, more, detailed, got
<1>7. /\ got \in Seq(S \union {more})
      /\ Len(got) = k /\ Len(screen.got) \in Nat
      /\ DOMAIN got = 1..k /\ DOMAIN screen.got = 1..Len(screen.got)
      /\ \A n \in 1..Len(screen.got) : got[n] = screen.got[n]
      /\ got[k] = more
  BY <1>5, <1>6, GotOneMore
<1> HIDE DEF k
<1>8. k = Len(screen.got) + 1 /\ rows \in MayReturn(screen.kind, screen.of, k)
  BY <1>0 DEF k
<1>9. screen' = [kind |-> screen.kind, of |-> screen.of, since |-> screen.since, got |-> got,
                 disturbed |-> screen.disturbed, answer |-> status]
  BY <1>3 DEF InfraIInv, ScreenShaped
<1>10. screen.kind \in DOMAIN Reads /\ k \in Nat /\ k >= 1 /\ k <= Reads[screen.kind]
  BY <1>2, <1>7, <1>8, ReadsFacts DEF InfraIInv, ScreenShaped
<1>11. ScreenShaped'
  <2>1. screen' = [kind |-> screen'.kind, of |-> screen'.of, since |-> screen'.since,
                   got |-> screen'.got, disturbed |-> screen'.disturbed, answer |-> screen'.answer]
    BY <1>9
  <2>2. screen'.kind = screen.kind /\ screen'.got = got /\ screen'.answer = status
    BY <1>9
  <2>3. status = 0 => k < Reads[screen.kind]
    BY <1>4, <1>10, ReadsFacts
  <2> QED BY <2>1, <2>2, <2>3, <1>7, <1>10 DEF ScreenShaped
<1>12. \A i : /\ OfContainer(i) => OfContainer(i)'
              /\ \A st : OfPod(i, st) => OfPod(i, st)'
  BY <1>1 DEF OfContainer, OfPod, ListContainers, ListPods, Latest
<1>13. IssuesStand'
  <2> SUFFICES ASSUME ~screen.disturbed, NEW n \in 1..k, NEW i \in got[n]
               PROVE  /\ screen.kind = "containerIssues" => OfContainer(i)
                      /\ screen.kind = "podIssues" => /\ i.type = "crash" => OfPod(i, "CrashLoopBackOff")
                                                      /\ i.type = "pending" => OfPod(i, "Pending")
    BY <1>7, <1>9, <1>12 DEF IssuesStand
  <2>1. CASE n \in 1..Len(screen.got)
    <3>1. got[n] = screen.got[n] /\ n \in DOMAIN screen.got
      BY <2>1, <1>7
    <3> QED BY <3>1 DEF InfraIInv, IssuesStand
  <2>2. CASE n = k
    <3>1. screen.kind # "host" => i \in rows
      BY <2>2, <1>5, <1>7
    <3>2. CASE screen.kind = "containerIssues"
      <4>1. i \in ContainerIssues(k) /\ k \in 1..3
        BY <3>1, <3>2, <1>8, <1>10, ReadsFacts, WhatIsRead
      <4> QED BY <4>1, <3>2, ContainersRaised
    <3>3. CASE screen.kind = "podIssues"
      <4>1. i \in PodIssues(k) /\ k \in 1..4
        BY <3>1, <3>3, <1>8, <1>10, ReadsFacts, WhatIsRead
      <4> QED BY <4>1, <3>3, PodsRaised
    <3> QED BY <3>2, <3>3
  <2>3. n \in 1..Len(screen.got) \/ n = k
    BY <1>7, <1>8
  <2> QED BY <2>1, <2>2, <2>3
<1>14. HostStands'
  <2> SUFFICES ASSUME screen.kind = "host"
               PROVE  HostStands'
    BY <1>9 DEF HostStands
  <2>1. screen.of \in Machines /\ HostStands
    BY DEF InfraIInv, HostStands
  <2>2. k \in 1..7 /\ (status = 200 => k = 7) /\ (missing <=> k = 1 /\ rows = {})
    BY <1>4, <1>10, ReadsFacts
  <2>3. ASSUME status # 404
        PROVE  \E row : got[1] = {row} /\ row.seen \in Int
    <3>1. CASE k = 1
      <4>1. more = rows
        BY <3>1, <2>2, <1>5
      <4>2. rows = {hostRows[screen.of]} \ {NoHost}
        <5>1. rows = HostRead(screen.of, 1)
          BY <3>1, <1>8, WhatIsRead
        <5>2. HostRead(screen.of, 1) = {hostRows[screen.of]} \ {NoHost}
          BY DEF HostRead
        <5> QED BY <5>1, <5>2
      <4>3. rows # {}
        BY <2>2, <2>3, <3>1, <1>4
      <4>4. hostRows[screen.of].seen \in Int
        BY <2>1 DEF InfraIInv, InfraTyped
      <4>5. rows = {hostRows[screen.of]}
        BY <4>2, <4>3
      <4> QED BY <4>1, <4>4, <4>5, <3>1, <1>7
    <3>2. CASE k # 1
      <4>1. Len(screen.got) # 0 /\ 1 \in 1..Len(screen.got)
        BY <3>2, <1>7, <1>8
      <4> QED BY <4>1, <2>1, <1>2, <1>7 DEF HostStands
    <3> QED BY <3>1, <3>2
  <2>4. ASSUME status = 200, got[7] = {"unreachable"}, NEW r \in got[1]
        PROVE  r.seen + UnreachableAfter < moment
    <3> DEFINE row == CHOOSE x \in screen.got[1] : TRUE
               last == CHOOSE m \in screen.got[2] : TRUE
    <3>1. k = 7 /\ got[1] = screen.got[1]
      BY <2>2, <2>4, <1>7, <1>8
    <3>2. screen.got[1] = {r} /\ r.seen \in Int
      BY <2>3, <2>4, <3>1
    <3>3. row = r
      BY <3>2
    <3>4. more = {DetailStatus(row, last)}
      BY <2>4, <1>5 DEF detailed
    <3> HIDE DEF row, last
    <3>5. DetailStatus(r, last) = "unreachable"
      BY <3>1, <3>3, <3>4, <2>4, <1>7
    <3>6. moment - r.seen > UnreachableAfter
      BY <3>5, Zenon DEF DetailStatus, Classify
    <3>7. moment \in Nat
      BY DEF InfraIInv, InfraTyped
    <3> QED BY <3>2, <3>6, <3>7, InfraFacts
  <2> QED BY <2>1, <2>2, <2>3, <2>4, <1>1, <1>4, <1>7, <1>9 DEF HostStands
<1>15. InfraTyped' /\ OneRowEach'
  BY <1>1 DEF InfraIInv, InfraTyped, OneRowEach
<1>16. CostsStand'
  <2> SUFFICES ASSUME screen.kind = "costs"
               PROVE  CostsStand'
    BY <1>9 DEF CostsStand
  <2>1. screen.since \in Nat /\ screen.since <= moment /\ CostsStand
    BY DEF InfraIInv, CostsStand
  <2>2. k \in {1, 2} /\ (status = 200 => k = 2)
    BY <1>4, <1>10, ReadsFacts
  <2>3. TopCosts' = TopCosts /\ CostByService' = CostByService
    BY <1>1 DEF CostsOfToday, CostByService, TopCosts, Today
  <2>4. (k = 1 => got[k] = {CostByService}) /\ (k = 2 => got[k] \in TopCosts)
    <3>1. more = rows
      BY <1>5
    <3>2. rows \in CostRead(k)
      BY <1>8, WhatIsRead
    <3>3. k = 1 => rows = {CostByService}
      BY <3>2 DEF CostRead
    <3>4. k = 2 => rows \in TopCosts
      BY <3>2 DEF CostRead
    <3> QED BY <1>7, <3>1, <3>3, <3>4, Zenon
  <2>5. ASSUME k = 2
        PROVE  got[1] = screen.got[1] /\ Len(screen.got) = 1
    <3>0. Len(screen.got) \in Nat
      BY <1>7
    <3>1. Len(screen.got) = 1
      <4>1. \A n \in Nat : 2 = n + 1 => n = 1
        OBVIOUS
      <4>2. 2 = Len(screen.got) + 1
        BY <1>8, <2>5, Zenon
      <4> QED BY <3>0, <4>1, <4>2, Zenon
    <3>2. 1 \in 1..Len(screen.got)
      BY <3>1
    <3> QED BY <1>7, <3>1, <3>2
  <2>6. Len(got) = k
    BY <1>7
  <2>7. /\ screen'.since = screen.since /\ screen'.got = got /\ screen'.answer = status
        /\ moment' = moment
    BY <1>1, <1>9
  <2> QED BY <2>1, <2>2, <2>3, <2>4, <2>5, <2>6, <2>7 DEF CostsStand
<1> QED BY <1>11, <1>13, <1>14, <1>15, <1>16 DEF InfraIInv

LEMMA InitInfra == InfraInit => InfraIInv
<1> SUFFICES ASSUME InfraInit
             PROVE  InfraIInv
  OBVIOUS
<1>1. InfraTyped /\ OneRowEach
  BY DEF InfraInit, NoHost, InfraTyped, OneRowEach
<1>2. screen = [kind |-> "none", of |-> "", since |-> 0, got |-> <<>>, disturbed |-> FALSE,
                answer |-> 0]
  BY DEF InfraInit, NoScreen
<1>3. <<>> \in Seq({})
  OBVIOUS
<1>4. ScreenShaped
  BY <1>2, <1>3, ReadsFacts DEF ScreenShaped
<1> QED BY <1>1, <1>2, <1>4 DEF InfraIInv, IssuesStand, HostStands, CostsStand

LEMMA StepInfra == InfraIInv /\ [InfraNext]_infraVars => InfraIInv'
<1>1. ASSUME InfraIInv, UNCHANGED infraVars
      PROVE  InfraIInv'
  <2>1. UNCHANGED <<moment, hostRows, hostMetrics, reports, screen>>
    BY <1>1 DEF infraVars
  <2>2. \A i : /\ OfContainer(i) => OfContainer(i)'
               /\ \A st : OfPod(i, st) => OfPod(i, st)'
    BY <2>1 DEF OfContainer, OfPod, ListContainers, ListPods, Latest
  <2>3. InfraTyped' /\ OneRowEach' /\ ScreenShaped' /\ HostStands'
    BY <1>1, <2>1 DEF InfraIInv, InfraTyped, OneRowEach, ScreenShaped, HostStands
  <2>4. IssuesStand'
    BY <1>1, <2>1, <2>2 DEF InfraIInv, IssuesStand
  <2>5. TopCosts' = TopCosts /\ CostByService' = CostByService
    BY <2>1 DEF CostsOfToday, CostByService, TopCosts, Today
  <2>6. CostsStand'
    BY <1>1, <2>1, <2>5 DEF InfraIInv, CostsStand
  <2> QED BY <2>3, <2>4, <2>6 DEF InfraIInv
<1>2. ASSUME InfraIInv, HostReports \/ SnapshotArrives \/ TimePasses
      PROVE  InfraIInv'
  BY <1>2, ReportsKeep, DisturbedKeep DEF InfraIInv
<1> QED BY <1>1, <1>2, ScreenOpens, ScreenReads, ScreenCloses DEF InfraNext

(* What follows for the screens.                                           *)
LEMMA ShownIsTrue == InfraIInv => IssuesAreListed /\ PodsAreInOneState /\ UnreachableWereSilent
<1> SUFFICES ASSUME InfraIInv
             PROVE  IssuesAreListed /\ PodsAreInOneState /\ UnreachableWereSilent
  OBVIOUS
<1>1. IssuesAreListed
  <2> SUFFICES ASSUME screen.kind = "containerIssues", ~screen.disturbed, NEW i \in RaisedOnScreen
               PROVE  \E r \in ListContainers({i.part}) : r.id = i.id
    BY DEF IssuesAreListed, Served
  <2>1. OfContainer(i)
    BY DEF RaisedOnScreen, InfraIInv, IssuesStand
  <2>2. PICK r \in ListContainers(Machines) : r.id = i.id /\ r.part = i.part
    BY <2>1 DEF OfContainer
  <2>3. r \in ListContainers({i.part})
    BY <2>2 DEF ListContainers, Latest
  <2> QED BY <2>2, <2>3
<1>2. PodsAreInOneState
  <2> SUFFICES ASSUME screen.kind = "podIssues", ~screen.disturbed,
                      NEW i \in RaisedOnScreen, NEW j \in RaisedOnScreen,
                      i.id = j.id, i.part = j.part, i.type = "crash", j.type = "pending"
               PROVE  FALSE
    BY DEF PodsAreInOneState, Served
  <2>1. OfPod(i, "CrashLoopBackOff") /\ OfPod(j, "Pending")
    BY DEF RaisedOnScreen, InfraIInv, IssuesStand
  <2>2. PICK r \in ListPods(Namespaces) :
          r.id = i.id /\ r.part = i.part /\ r.state.status = "CrashLoopBackOff"
    BY <2>1 DEF OfPod
  <2>3. PICK q \in ListPods(Namespaces) :
          q.id = j.id /\ q.part = j.part /\ q.state.status = "Pending"
    BY <2>1 DEF OfPod
  <2>4. /\ r \in reports /\ q \in reports /\ r.table = "pods" /\ q.table = "pods"
        /\ r.at <= q.at /\ q.at <= r.at
    BY DEF ListPods, Latest
  <2>5. r.at \in Int /\ q.at \in Int
    BY <2>4 DEF InfraIInv, InfraTyped
  <2>6. r.at = q.at
    BY <2>4, <2>5
  <2>7. r = q
    BY <2>2, <2>3, <2>4, <2>6 DEF InfraIInv, OneRowEach
  <2> QED BY <2>2, <2>3, <2>7
<1>3. UnreachableWereSilent
  BY DEF UnreachableWereSilent, Served, InfraIInv, HostStands
<1> QED BY <1>1, <1>2, <1>3

(* The rows of a day add up to the sums of its services.                   *)
LEMMA CostIsSum ==
  ASSUME NEW rows \in SUBSET Costs
  PROVE  CostOf(rows) = SumOf([c \in rows |-> c.cost], rows)
<1> DEFINE f == [c \in rows |-> c.cost]
           P(sum) == sum = [s \in SUBSET rows |-> IF s = {} THEN 0
                              ELSE (CHOOSE c \in s : TRUE).cost + sum[s \ {CHOOSE c \in s : TRUE}]]
<1>1. CostOf(rows) = (CHOOSE sum : P(sum))[rows]
  BY DEF CostOf, MapThenSumSet, MapThenFoldSet
<1>2. ASSUME NEW sum PROVE P(sum) <=> SumsUp(f, rows, sum)
  BY DEF SumsUp
<1>3. IsFiniteSet(rows) /\ \A c \in rows : f[c] \in Int
  BY InfraFacts, FS_Subset
<1> HIDE DEF P, f
<1>4. PICK total : SumsUp(f, rows, total)
  BY <1>3, SumExists
<1>5. P(CHOOSE g : P(g))
  BY <1>2, <1>4
<1> QED BY <1>1, <1>2, <1>3, <1>5, SumIs DEF f

LEMMA ServicesAddUp ==
  CostOf(CostsOfToday) = MapThenSumSet(LAMBDA s : CostByService[s], DOMAIN CostByService)
<1> DEFINE rows == CostsOfToday
           K == {c.service : c \in rows}
           cost == [c \in rows |-> c.cost]
           key == [c \in rows |-> c.service]
           byKey == [k \in K |-> SumOf(cost, {c \in rows : key[c] = k})]
           P(sum) == sum = [s \in SUBSET K |-> IF s = {} THEN 0
                              ELSE CostByService[CHOOSE k \in s : TRUE] + sum[s \ {CHOOSE k \in s : TRUE}]]
<1>1. rows \in SUBSET Costs /\ IsFiniteSet(rows) /\ \A c \in rows : cost[c] \in Int
  BY InfraFacts, FS_Subset DEF CostsOfToday
<1>2. IsFiniteSet(K) /\ \A c \in rows : key[c] \in K
  <2>1. \A c \in rows : key[c] = c.service
    OBVIOUS
  <2>2. K = {key[c] : c \in rows}
    BY <2>1
  <2>3. IsFiniteSet({key[c] : c \in rows})
    BY <1>1, ImageIsFinite
  <2> QED BY <2>2, <2>3
<1>3. DOMAIN CostByService = K
  BY DEF CostByService
<1>4. ASSUME NEW k \in K PROVE byKey[k] = CostByService[k] /\ byKey[k] \in Int
  <2> DEFINE mine == {c \in rows : c.service = k}
  <2>1. mine \in SUBSET Costs /\ IsFiniteSet(mine)
    BY <1>1, FS_Subset
  <2>2. {c \in rows : key[c] = k} = mine
    OBVIOUS
  <2>3. CostByService[k] = CostOf(mine)
    BY DEF CostByService
  <2>4. \A c \in mine : [d \in mine |-> d.cost][c] = cost[c] /\ cost[c] \in Int
    BY <1>1
  <2>5. byKey[k] = SumOf(cost, mine)
    BY <2>2
  <2> HIDE DEF mine, rows, byKey, cost
  <2>6. SumOf([d \in mine |-> d.cost], mine) = SumOf(cost, mine) /\ SumOf(cost, mine) \in Int
    BY <2>1, <2>4, SumAgrees, SumType
  <2> QED BY <2>1, <2>3, <2>5, <2>6, CostIsSum
<1>5. CostOf(rows) = SumOf(cost, rows)
  BY <1>1, CostIsSum
<1>6. MapThenSumSet(LAMBDA s : CostByService[s], K) = (CHOOSE sum : P(sum))[K]
  BY DEF MapThenSumSet, MapThenFoldSet
<1>7. ASSUME NEW sum PROVE P(sum) <=> SumsUp(CostByService, K, sum)
  BY Zenon DEF SumsUp
<1>8. DOMAIN byKey = K
  OBVIOUS
<1> HIDE DEF P, cost, key, rows
<1>9. SumOf(byKey, K) = SumOf(cost, rows)
  BY SMTT(30), <1>1, <1>2, SumOfGroups
<1> HIDE DEF byKey, K
<1>10. PICK total : SumsUp(CostByService, K, total)
  BY <1>2, <1>4, SumExists
<1>11. P(CHOOSE g : P(g))
  BY <1>7, <1>10
<1>12. SumOf(CostByService, K) = (CHOOSE sum : P(sum))[K]
  BY <1>2, <1>4, <1>7, <1>11, SumIs
<1>13. SumOf(byKey, K) = SumOf(CostByService, K)
  BY <1>2, <1>4, SumAgrees
<1> QED BY <1>3, <1>5, <1>6, <1>9, <1>12, <1>13 DEF rows

LEMMA CostsHold == InfraIInv => CostsAddUp
<1> SUFFICES ASSUME InfraIInv, screen.kind = "costs", screen.answer = 200,
                    moment < Midnight \/ screen.since >= Midnight,
                    NEW byService \in screen.got[1]
             PROVE  /\ \A c \in screen.got[2] : c.service \in DOMAIN byService
                    /\ Cardinality(screen.got[2]) < CostLimit =>
                         CostOf(screen.got[2]) = MapThenSumSet(LAMBDA s : byService[s], DOMAIN byService)
  BY DEF CostsAddUp, Served
<1>1. screen.got[1] = {CostByService} /\ screen.got[2] \in TopCosts
  BY DEF InfraIInv, CostsStand
<1>2. byService = CostByService
  BY <1>1
<1>3. \A c \in screen.got[2] : c.service \in DOMAIN CostByService
  BY <1>1 DEF TopCosts, CostByService
<1>4. Cardinality(screen.got[2]) < CostLimit => screen.got[2] = CostsOfToday
  BY <1>1 DEF TopCosts
<1> QED BY <1>2, <1>3, <1>4, ServicesAddUp

(* For any reports, in any order between the reads of a screen: the list,  *)
(* the map and the detail give a host one status (hosts.py), a filter      *)
(* hides nothing, issues of containers and pods are of one snapshot when   *)
(* none arrived meanwhile (containers.py, kubernetes.py), a host shown as  *)
(* unreachable had been silent, and costs that all fit on the list add up  *)
(* to the sums of their services unless the day changed between the two    *)
(* reads (cloud.py).                                                       *)
THEOREM ScreensStayTrue == InfraSpec => []ScreensAgree
<1>1. InfraIInv => ScreensAgree
  BY StatusesAgree, NarrowingHolds, ShownIsTrue, CostsHold DEF ScreensAgree, ScreensAddUp
<1> QED BY <1>1, InitInfra, StepInfra, PTL DEF InfraSpec

-----------------------------------------------------------------------------
(* Templates and the tree.                                                 *)
(* Navigation, one token after the other.                                  *)
Keys == Nat \union STRING
Walks == [path : Seq(Keys), paths : SUBSET Seq(Keys)]

LEMMA KeysHold == STRING \subseteq Keys /\ Nat \subseteq Keys
BY DEF Keys

LEMMA DownTokenType ==
  ASSUME Wild \in STRING, NEW at \in Walks, NEW token \in STRING
  PROVE  DownToken(at, token) \in Walks
<1> DEFINE t == IF token \in Variables THEN Wild ELSE token
           key == IF Append(at.path, t) \notin at.paths /\ Full(at.paths, at.path) THEN Wild ELSE t
           next == Append(at.path, key)
<1>1. key \in Keys
  BY DEF Keys
<1> HIDE DEF key
<1>2. next \in Seq(Keys) /\ at.paths \union {next} \in SUBSET Seq(Keys)
  BY <1>1 DEF Walks
<1> HIDE DEF next
<1>3. DownToken(at, token) = [path |-> next, paths |-> at.paths \union {next}]
  BY DEF DownToken, next, key
<1> QED BY <1>2, <1>3 DEF Walks

(* The fold of Navigate as a sequence of steps.                            *)
LEMMA FoldOfTokens ==
  ASSUME Wild \in STRING, NEW base \in Walks, NEW seq \in Seq(STRING)
  PROVE  \E g \in [0..Len(seq) -> Walks] :
           /\ g[0] = base
           /\ \A k \in 1..Len(seq) : g[k] = DownToken(g[k - 1], seq[k])
           /\ FoldLeft(DownToken, base, seq) = g[Len(seq)]
<1> DEFINE n == Len(seq)
           P(iter) == iter = [s \in SUBSET (1..n) |-> IF s = {} THEN base
                                 ELSE DownToken(iter[s \ {Max(s)}], seq[Max(s)])]
           step == [k \in 1..n |-> [at \in Walks |-> DownToken(at, seq[k])]]
<1>1. n \in Nat /\ DOMAIN seq = 1..n /\ \A k \in 1..n : seq[k] \in STRING
  OBVIOUS
<1>2. FoldLeft(DownToken, base, seq) = (CHOOSE iter : P(iter))[1..n]
  BY <1>1 DEF FoldLeft, MapThenFoldSet
<1>3. step \in [1..n -> [Walks -> Walks]]
  BY <1>1, DownTokenType
<1>4. \A k \in 1..n : \A at \in Walks : step[k][at] = DownToken(at, seq[k])
  OBVIOUS
<1> HIDE DEF n, step
<1>5. PICK some \in [SUBSET (1..n) -> Walks] : FoldsUp(n, base, step, some)
  BY <1>1, <1>3, FoldExists
<1>6. P(some)
  <2>1. ASSUME NEW s \in SUBSET (1..n), s # {}
        PROVE  step[Max(s)][some[s \ {Max(s)}]] = DownToken(some[s \ {Max(s)}], seq[Max(s)])
    BY <1>1, <1>4, <2>1, LargestOf
  <2> QED BY <1>5, <2>1 DEF FoldsUp
<1> DEFINE iter == CHOOSE f : P(f)
<1>7. P(iter)
  BY <1>6
<1> HIDE DEF iter
<1>8. iter[{}] = base
  BY <1>7
<1>9. \A k \in 1..n : iter[1..k] = DownToken(iter[1..(k - 1)], seq[k])
  <2>1. \A s \in SUBSET (1..n) : s # {} => iter[s] = DownToken(iter[s \ {Max(s)}], seq[Max(s)])
    BY <1>7
  <2> SUFFICES ASSUME NEW k \in 1..n
               PROVE  iter[1..k] = DownToken(iter[1..(k - 1)], seq[k])
    OBVIOUS
  <2>2. Max(1..k) = k /\ (1..k) \ {k} = 1..(k - 1) /\ 1..k \in SUBSET (1..n) /\ 1..k # {}
    BY <1>1, LargestOfFirst
  <2>3. iter[1..k] = DownToken(iter[(1..k) \ {Max(1..k)}], seq[Max(1..k)])
    BY <2>1, <2>2
  <2> QED BY <2>2, <2>3
<1> DEFINE g == [k \in 0..n |-> iter[1..k]]
           H == {k \in Nat : k <= n => g[k] \in Walks}
<1>10. g[0] = base /\ \A k \in 1..n : g[k] = DownToken(g[k - 1], seq[k])
  <2>1. 1..0 = {}
    OBVIOUS
  <2>2. \A k \in 1..n : k - 1 \in 0..n /\ k \in 0..n
    BY <1>1
  <2>3. 0 \in 0..n
    BY <1>1
  <2>4. g[0] = iter[1..0] /\ \A k \in 1..n : g[k] = iter[1..k] /\ g[k - 1] = iter[1..(k - 1)]
    BY <2>2, <2>3
  <2>5. g[0] = base
    BY <1>8, <2>1, <2>4
  <2> HIDE DEF g
  <2> QED BY <1>9, <2>4, <2>5
<1>11. 0 \in H
  BY <1>10
<1>12. ASSUME NEW k \in Nat, k \in H PROVE k + 1 \in H
  <2>1. k + 1 <= n => k + 1 \in 1..n /\ k <= n /\ (k + 1) - 1 = k
    BY <1>1
  <2> QED BY <1>1, <1>10, <1>12, <2>1, DownTokenType
<1> HIDE DEF H
<1>13. Nat \subseteq H
  BY <1>11, <1>12, CountingUp
<1>14. g \in [0..n -> Walks]
  <2>1. \A k \in 0..n : k \in Nat /\ k <= n
    BY <1>1
  <2>2. \A k \in 0..n : g[k] \in Walks
    BY <1>13, <2>1 DEF H
  <2>3. g = [k \in 0..n |-> g[k]]
    OBVIOUS
  <2> HIDE DEF g
  <2> QED BY <2>2, <2>3
<1>15. g[n] = iter[1..n]
  BY <1>1
<1> QED BY <1>2, <1>10, <1>14, <1>15 DEF n, iter

-----------------------------------------------------------------------------
LEMMA DrainFacts ==
  /\ Depth \in Nat /\ Depth > 1 /\ MaxChildren \in Nat /\ MaxPatterns \in Nat /\ MaxParsed \in Nat
  /\ Wild \in STRING
  /\ Tokens = STRING
  /\ Other \in Nat
<1>1. /\ {Depth, MaxChildren, MaxPatterns, MaxParsed} \subseteq Nat /\ Depth > 1
      /\ Wild \in STRING
  BY DrainAssumption DEF DrainAssumption
<1> QED BY <1>1 DEF Tokens, Other

TreePath(p) ==
  /\ p \in Seq(Keys) /\ Len(p) > 0
  /\ Head(p) \in Nat /\ Tail(p) \in Seq(STRING)

LEMMA ShortPath ==
  ASSUME NEW x \in Nat
  PROVE  TreePath(<<x>>) /\ Head(<<x>>) = x /\ Len(<<x>>) = 1 /\ <<x>> # <<>>
<1>1. <<x>> \in Seq(Keys) /\ Len(<<x>>) = 1 /\ Head(<<x>>) = x /\ <<x>> # <<>>
  BY DEF Keys
<1>2. Tail(<<x>>) = <<>>
  OBVIOUS
<1>3. <<>> \in Seq(STRING)
  OBVIOUS
<1> QED BY <1>1, <1>2, <1>3 DEF TreePath

LEMMA LongerSequence ==
  ASSUME NEW K, NEW S, NEW p \in Seq(K), NEW t \in K, t \in S, Tail(p) \in Seq(S), Len(p) > 0
  PROVE  /\ Append(p, t) \in Seq(K) /\ Len(Append(p, t)) = Len(p) + 1 /\ Len(p) \in Nat
         /\ Head(Append(p, t)) = Head(p) /\ Append(p, t) # <<>>
         /\ Tail(Append(p, t)) \in Seq(S)
<1>1. /\ Append(p, t) \in Seq(K) /\ Len(Append(p, t)) = Len(p) + 1 /\ Len(p) \in Nat
      /\ Head(Append(p, t)) = Head(p) /\ Append(p, t) # <<>>
  OBVIOUS
<1>2. Tail(Append(p, t)) = Append(Tail(p), t)
  OBVIOUS
<1>3. Append(Tail(p), t) \in Seq(S)
  OBVIOUS
<1> QED BY <1>1, <1>2, <1>3

LEMMA ChildPath ==
  ASSUME NEW p, TreePath(p), NEW t, t \in STRING
  PROVE  /\ TreePath(Append(p, t)) /\ Head(Append(p, t)) = Head(p)
         /\ Len(Append(p, t)) = Len(p) + 1 /\ Len(p) \in Nat /\ Len(Append(p, t)) > 1
         /\ Append(p, t) # <<>>
<1>0. t \in Keys
  BY KeysHold
<1>1. /\ p \in Seq(Keys) /\ Len(p) > 0
      /\ Tail(p) \in Seq(STRING) /\ Head(p) \in Nat
  BY DEF TreePath
<1> DEFINE q == Append(p, t)
<1>2. /\ q \in Seq(Keys) /\ Len(q) = Len(p) + 1 /\ Len(p) \in Nat
      /\ Head(q) = Head(p) /\ q # <<>> /\ Tail(q) \in Seq(STRING)
  BY <1>0, <1>1, LongerSequence
<1> HIDE DEF q
<1>3. Len(q) > 1
  BY <1>1, <1>2
<1>4. TreePath(q)
  BY <1>1, <1>2, <1>3 DEF TreePath
<1> QED BY <1>2, <1>3, <1>4 DEF q

LEMMA SameSequence ==
  ASSUME NEW S, NEW p \in Seq(S), NEW q \in Seq(S), Len(p) = Len(q),
         \A k \in 1..Len(p) : p[k] = q[k]
  PROVE  p = q
<1>1. p = [k \in 1..Len(p) |-> p[k]] /\ q = [k \in 1..Len(q) |-> q[k]]
  OBVIOUS
<1> QED BY <1>1

LEMMA AppendedDiffers ==
  ASSUME NEW p \in Seq(Keys), NEW q \in Seq(Keys), NEW x \in Keys, NEW y \in Keys,
         Append(p, x) = Append(q, y)
  PROVE  p = q /\ x = y
<1>1. /\ Len(Append(p, x)) = Len(p) + 1 /\ Len(Append(q, y)) = Len(q) + 1
      /\ Len(p) \in Nat /\ Len(q) \in Nat
      /\ Append(p, x)[Len(p) + 1] = x /\ Append(q, y)[Len(q) + 1] = y
      /\ \A k \in 1..Len(p) : Append(p, x)[k] = p[k]
      /\ \A k \in 1..Len(q) : Append(q, y)[k] = q[k]
  OBVIOUS
<1>2. Len(p) = Len(q)
  BY <1>1
<1>3. x = y /\ \A k \in 1..Len(p) : p[k] = q[k]
  BY <1>1, <1>2
<1>4. p = q
  BY <1>2, <1>3, SameSequence
<1> QED BY <1>3, <1>4

(* A path that tokens were led down: every key is the token, or the        *)
(* wildcard because the node was full without the token.                   *)
LedTo(paths, id, g, n) ==
  /\ id \in Seq(STRING) /\ n \in 0..Len(id)
  /\ g[0] = <<Len(id)>> /\ \A k \in 0..n : g[k] \in paths /\ TreePath(g[k])
  /\ \A k \in 1..n :
       \/ g[k] = Append(g[k - 1], id[k])
       \/ /\ g[k] = Append(g[k - 1], Wild)
          /\ Append(g[k - 1], id[k]) \notin paths /\ Full(paths, g[k - 1])

Kept(paths, more) ==
  /\ paths \subseteq more
  /\ \A q : Full(paths, q) => Full(more, q)
  /\ \A id, g, n : LedTo(paths, id, g, n) => LedTo(more, id, g, n)

LEMMA StillFull ==
  ASSUME NEW paths, NEW more, IsFiniteSet(more), paths \subseteq more, NEW q, Full(paths, q)
  PROVE  Full(more, q)
<1>1. Children(paths, q) \subseteq Children(more, q) /\ Children(more, q) \subseteq more
  BY DEF Children
<1>2. IsFiniteSet(Children(more, q)) /\ IsFiniteSet(Children(paths, q))
  BY <1>1, FS_Subset
<1>3. /\ Cardinality(Children(paths, q)) <= Cardinality(Children(more, q))
      /\ Cardinality(Children(paths, q)) \in Nat /\ Cardinality(Children(more, q)) \in Nat
  BY <1>1, <1>2, FS_Subset, FS_CardinalityType
<1> QED BY <1>3, DrainFacts DEF Full

(* What is led somewhere still is when a path is added the way DownToken   *)
(* adds it, or the path of a length.                                       *)
LEMMA PathAdded ==
  ASSUME NEW paths, IsFiniteSet(paths), NEW x,
         \/ \E len \in Nat : x = <<len>>
         \/ \E q, key : /\ TreePath(q) /\ key \in STRING /\ x = Append(q, key)
                        /\ x \in paths \/ ~Full(paths, q) \/ key = Wild
  PROVE  IsFiniteSet(paths \union {x}) /\ Kept(paths, paths \union {x})
<1> DEFINE more == paths \union {x}
<1>1. IsFiniteSet(more) /\ paths \subseteq more /\ \A p \in more : p \in paths \/ p = x
  BY FS_AddElement
<1> HIDE DEF more
<1>2. \A q : Full(paths, q) => Full(more, q)
  BY <1>1, StillFull
<1>3. ASSUME NEW id, NEW g, NEW n, LedTo(paths, id, g, n)
      PROVE  LedTo(more, id, g, n)
  <2>1. \A k \in 0..n : g[k] \in paths /\ TreePath(g[k])
    BY <1>3 DEF LedTo
  <2>2. n \in Nat /\ n <= Len(id) /\ id \in Seq(STRING) /\ Len(id) \in Nat
    BY <1>3 DEF LedTo
  <2>3. ASSUME NEW k \in 1..n, g[k] = Append(g[k - 1], Wild),
               Append(g[k - 1], id[k]) \notin paths, Full(paths, g[k - 1]),
               Append(g[k - 1], id[k]) = x
        PROVE  FALSE
    <3>1. k \in 0..n /\ k - 1 \in 0..n /\ k \in 1..Len(id)
      BY <2>2
    <3>2. TreePath(g[k - 1]) /\ g[k] \in paths /\ id[k] \in STRING
      BY <2>1, <2>2, <3>1
    <3>3. Len(x) > 1
      BY <2>3, <3>2, ChildPath
    <3>7. ~ \E len \in Nat : x = <<len>>
      <4> SUFFICES ASSUME NEW len \in Nat, x = <<len>>
                   PROVE  FALSE
        OBVIOUS
      <4> DEFINE short == <<len>>
      <4>1. Len(short) = 1
        OBVIOUS
      <4>2. x = short
        OBVIOUS
      <4> HIDE DEF short
      <4> QED BY <3>3, <4>1, <4>2
    <3>4. PICK q, key : /\ TreePath(q) /\ key \in STRING /\ x = Append(q, key)
                        /\ x \in paths \/ ~Full(paths, q) \/ key = Wild
      BY <3>7
    <3>8. q \in Seq(Keys) /\ g[k - 1] \in Seq(Keys)
      BY <3>2, <3>4 DEF TreePath
    <3>9. key \in Keys /\ id[k] \in Keys
      BY <3>2, <3>4, KeysHold
    <3>10. Append(g[k - 1], id[k]) = Append(q, key)
      BY <2>3, <3>4
    <3>5. g[k - 1] = q /\ id[k] = key
      BY <3>8, <3>9, <3>10, AppendedDiffers
    <3>6. key = Wild
      BY <2>3, <3>4, <3>5
    <3> QED BY <2>3, <3>2, <3>5, <3>6
  <2>4. ASSUME NEW k \in 1..n
        PROVE  \/ g[k] = Append(g[k - 1], id[k])
               \/ /\ g[k] = Append(g[k - 1], Wild)
                  /\ Append(g[k - 1], id[k]) \notin more /\ Full(more, g[k - 1])
    <3>1. \/ g[k] = Append(g[k - 1], id[k])
          \/ /\ g[k] = Append(g[k - 1], Wild)
             /\ Append(g[k - 1], id[k]) \notin paths /\ Full(paths, g[k - 1])
      BY <1>3 DEF LedTo
    <3> QED BY <3>1, <2>3, <1>1, <1>2
  <2>5. \A k \in 0..n : g[k] \in more
    BY <1>1, <2>1
  <2> QED BY <1>3, <2>1, <2>4, <2>5 DEF LedTo
<1>4. IsFiniteSet(more) /\ Kept(paths, more)
  BY <1>1, <1>2, <1>3 DEF Kept
<1> QED BY <1>4 DEF more

KeyOf(token) == IF token \in Variables THEN Wild ELSE token
WalkLen(line) == Min2(Depth - 1, Len(line))
Tree(paths) == IsFiniteSet(paths) /\ \A p \in paths : p = <<>> \/ TreePath(p)

Way(g, m) == [j \in 0..m |-> g[j].path]

LEMMA TreesArePaths ==
  ASSUME NEW paths, Tree(paths)
  PROVE  paths \subseteq Seq(Keys)
<1>1. <<>> \in Seq(Keys)
  OBVIOUS
<1> QED BY <1>1 DEF Tree, TreePath

LEMMA OneDown ==
  ASSUME NEW at, NEW token, token \in STRING
  PROVE  \E key : /\ key \in STRING
                  /\ DownToken(at, token) = [path |-> Append(at.path, key),
                                             paths |-> at.paths \union {Append(at.path, key)}]
                  /\ key = IF Append(at.path, KeyOf(token)) \notin at.paths /\ Full(at.paths, at.path)
                           THEN Wild ELSE KeyOf(token)
<1> DEFINE t == KeyOf(token)
           key == IF Append(at.path, t) \notin at.paths /\ Full(at.paths, at.path) THEN Wild ELSE t
<1>1. key \in STRING
  BY DrainFacts DEF KeyOf
<1>2. DownToken(at, token) = [path |-> Append(at.path, key),
                              paths |-> at.paths \union {Append(at.path, key)}]
  BY DEF DownToken, KeyOf
<1> HIDE DEF t
<1>3. key = IF Append(at.path, t) \notin at.paths /\ Full(at.paths, at.path) THEN Wild ELSE t
  OBVIOUS
<1> HIDE DEF key
<1> QED BY <1>1, <1>2, <1>3 DEF t

LEMMA NavigateWalks ==
  ASSUME NEW log \in Logs, Tree(nodes)
  PROVE  LET m == WalkLen(log)
         IN  /\ m \in Nat /\ m <= Len(log)
             /\ \E g \in [0..m -> Walks] :
                  /\ g[0] = [path |-> LengthPath(log), paths |-> Pruned(log) \union {LengthPath(log)}]
                  /\ \A k \in 1..m : g[k] = DownToken(g[k - 1], log[k])
                  /\ Navigate(log) = g[m]
<1> DEFINE m == WalkLen(log)
           base == [path |-> LengthPath(log), paths |-> Pruned(log) \union {LengthPath(log)}]
           seq == SubSeq(log, 1, m)
<1>1. log \in Seq(STRING) /\ Len(log) \in Nat
  BY DrainAssumption DEF DrainAssumption
<1>2. m \in Nat /\ m <= Len(log)
  BY <1>1, DrainFacts DEF WalkLen, Min2
<1> HIDE DEF m
<1>3. seq \in Seq(STRING) /\ Len(seq) = m /\ \A k \in 1..m : seq[k] = log[k]
  BY <1>1, <1>2
<1>4. base \in Walks
  <2>1. LengthPath(log) \in Seq(Keys)
    <3>1. \A x \in Nat : <<x>> \in Seq(Keys)
      BY ShortPath DEF TreePath
    <3> QED BY <1>1, <3>1, DrainFacts DEF LengthPath
  <2>2. Pruned(log) \subseteq Seq(Keys)
    BY TreesArePaths DEF Pruned
  <2> QED BY <2>1, <2>2 DEF Walks
<1>5. Navigate(log) = FoldLeft(DownToken, base, seq)
  BY DEF Navigate, m, WalkLen
<1> HIDE DEF base, seq
<1>6. \E g \in [0..m -> Walks] :
           /\ g[0] = base
           /\ \A k \in 1..m : g[k] = DownToken(g[k - 1], log[k])
           /\ Navigate(log) = g[m]
  <2>1. PICK g \in [0..Len(seq) -> Walks] :
           /\ g[0] = base
           /\ \A k \in 1..Len(seq) : g[k] = DownToken(g[k - 1], seq[k])
           /\ FoldLeft(DownToken, base, seq) = g[Len(seq)]
    BY <1>3, <1>4, FoldOfTokens, DrainFacts
  <2>2. g \in [0..m -> Walks] /\ Navigate(log) = g[m]
    BY <1>3, <1>5, <2>1
  <2>3. \A k \in 1..m : g[k] = DownToken(g[k - 1], log[k])
    BY <1>3, <2>1
  <2> QED BY <2>1, <2>2, <2>3
<1> QED BY <1>2, <1>6 DEF base, m

LEMMA KeptByTwo ==
  ASSUME NEW a, NEW b, NEW c, Kept(a, b), Kept(b, c)
  PROVE  Kept(a, c)
BY DEF Kept

LEMMA KeptLeads ==
  ASSUME NEW a, NEW b, Kept(a, b), NEW id, NEW g, NEW n, LedTo(a, id, g, n)
  PROVE  LedTo(b, id, g, n)
BY DEF Kept

LEMMA TemplateKeys ==
  ASSUME NEW log \in Logs
  PROVE  /\ Template(log) \in Seq(STRING) /\ Len(Template(log)) = Len(log)
         /\ \A k \in 1..Len(log) : Template(log)[k] = KeyOf(log[k]) /\ log[k] \in STRING
         /\ log \in Seq(STRING) /\ Len(log) \in Nat /\ Len(log) > 0
<1>1. log \in Seq(STRING) /\ DOMAIN log = 1..Len(log) /\ Len(log) \in Nat /\ Len(log) > 0
  BY DrainAssumption DEF DrainAssumption
<1>2. \A k \in 1..Len(log) : log[k] \in STRING /\ KeyOf(log[k]) \in STRING
  <2>1. \A t : t \in STRING => KeyOf(t) \in STRING
    BY DrainFacts DEF KeyOf
  <2>2. \A k \in 1..Len(log) : log[k] \in STRING
    BY <1>1
  <2> QED BY <2>1, <2>2
<1>3. Template(log) = [k \in 1..Len(log) |-> KeyOf(log[k])]
  BY <1>1 DEF Template, KeyOf
<1>4. Template(log) \in [1..Len(log) -> STRING]
  BY <1>2, <1>3
<1> QED BY <1>1, <1>2, <1>3, <1>4, FunctionIsSequence

(* A walk keeps what is led somewhere, and leads its own line.             *)
LEMMA WalkKeeps ==
  ASSUME NEW log \in Logs, NEW B, Tree(B), NEW x \in Nat, NEW m \in Nat, m <= Len(log), NEW g,
         g[0] = [path |-> <<x>>, paths |-> B \union {<<x>>}],
         \A k \in 1..m : g[k] = DownToken(g[k - 1], log[k])
  PROVE  /\ TreePath(g[m].path) /\ g[m].path \in g[m].paths
         /\ IsFiniteSet(g[m].paths) /\ <<x>> \in g[m].paths
         /\ \A p \in g[m].paths : p \in B \/ p = <<x>> \/ (TreePath(p) /\ Len(p) > 1 /\ Head(p) = x)
         /\ Kept(B, g[m].paths)
         /\ x = Len(log) => LedTo(g[m].paths, Template(log), Way(g, m), m)
<1> DEFINE w == Way(g, m)
           id == Template(log)
           Good(k) == /\ TreePath(g[k].path) /\ Head(g[k].path) = x /\ g[k].path \in g[k].paths
                      /\ IsFiniteSet(g[k].paths) /\ <<x>> \in g[k].paths
                      /\ \A p \in g[k].paths :
                           p \in B \/ p = <<x>> \/ (TreePath(p) /\ Len(p) > 1 /\ Head(p) = x)
                      /\ Kept(B, g[k].paths)
                      /\ x = Len(log) => LedTo(g[k].paths, id, w, k)
           H == {k \in Nat : k <= m => Good(k)}
<1>1. /\ id \in Seq(STRING) /\ Len(id) = Len(log) /\ Len(log) \in Nat
      /\ \A k \in 1..Len(log) : id[k] = KeyOf(log[k]) /\ log[k] \in STRING
  BY TemplateKeys
<1>2. \A k \in 0..m : w[k] = g[k].path
  BY DEF Way
<1> HIDE DEF w, id
<1>3. Good(0)
  <2> DEFINE short == <<x>>
  <2>1. TreePath(short) /\ Head(short) = x
    BY ShortPath
  <2>2. IsFiniteSet(B \union {short}) /\ Kept(B, B \union {short})
    BY PathAdded DEF Tree
  <2>3. g[0].path = short /\ g[0].paths = B \union {short}
    OBVIOUS
  <2>5. x = Len(log) => short = <<Len(id)>>
    BY <1>1
  <2> HIDE DEF short
  <2>4. ASSUME x = Len(log) PROVE LedTo(g[0].paths, id, w, 0)
    <3>1. 0 \in 0..m /\ 0 \in 0..Len(id) /\ \A k \in 0..0 : k = 0
      BY <1>1
    <3>2. w[0] = short /\ w[0] = <<Len(id)>> /\ w[0] \in g[0].paths /\ TreePath(w[0])
      BY <1>2, <2>1, <2>3, <2>4, <2>5, <3>1
    <3>3. \A k \in 1..0 : FALSE
      OBVIOUS
    <3>4. \A k \in 0..0 : w[k] \in g[0].paths /\ TreePath(w[k])
      BY <3>1, <3>2
    <3> HIDE DEF short
    <3> QED BY Zenon, <1>1, <3>1, <3>2, <3>3, <3>4 DEF LedTo
  <2>6. \A p \in g[0].paths : p \in B \/ p = short
    BY <2>3
  <2>7. short \in g[0].paths
    BY <2>3
  <2> QED BY <2>1, <2>2, <2>3, <2>4, <2>6, <2>7 DEF short
<1>4. ASSUME NEW k \in Nat, k \in H, k + 1 <= m PROVE Good(k + 1)
  <2>0. k \in 0..m /\ k + 1 \in 1..m /\ (k + 1) - 1 = k /\ k + 1 \in 1..Len(log) /\ k + 1 \in 0..m
    BY <1>1, <1>4
  <2>1. Good(k)
    BY <1>4, <2>0
  <2> DEFINE at == g[k]
             token == log[k + 1]
  <2>2. g[k + 1] = DownToken(at, token) /\ token \in STRING /\ id[k + 1] = KeyOf(token)
    BY <1>1, <2>0
  <2>3. w[k] = at.path /\ w[k + 1] = g[k + 1].path
    BY <1>2, <2>0
  <2> HIDE DEF at, token
  <2>4. PICK key : /\ key \in STRING
                   /\ g[k + 1] = [path |-> Append(at.path, key),
                                  paths |-> at.paths \union {Append(at.path, key)}]
                   /\ key = IF Append(at.path, KeyOf(token)) \notin at.paths /\ Full(at.paths, at.path)
                            THEN Wild ELSE KeyOf(token)
    BY <2>2, OneDown
  <2> DEFINE next == Append(at.path, key)
  <2>5. /\ TreePath(at.path) /\ Head(at.path) = x /\ at.path \in at.paths
        /\ IsFiniteSet(at.paths) /\ <<x>> \in at.paths
        /\ \A p \in at.paths : p \in B \/ p = <<x>> \/ (TreePath(p) /\ Len(p) > 1 /\ Head(p) = x)
        /\ Kept(B, at.paths)
    BY <2>1 DEF at
  <2>6. TreePath(next) /\ Head(next) = x /\ Len(next) > 1
    BY <2>4, <2>5, ChildPath
  <2>7. next \in at.paths \/ ~Full(at.paths, at.path) \/ key = Wild
    BY <2>4
  <2>8. IsFiniteSet(at.paths \union {next}) /\ Kept(at.paths, at.paths \union {next})
    BY <2>4, <2>5, <2>7, PathAdded
  <2>9. g[k + 1].path = next /\ g[k + 1].paths = at.paths \union {next}
    BY <2>4
  <2>10. Kept(B, g[k + 1].paths)
    BY <2>5, <2>8, <2>9, KeptByTwo
  <2>11. ASSUME x = Len(log) PROVE LedTo(g[k + 1].paths, id, w, k + 1)
    <3>1. LedTo(at.paths, id, w, k)
      BY <2>1, <2>11 DEF at
    <3>2. LedTo(g[k + 1].paths, id, w, k)
      BY <2>8, <2>9, <3>1, KeptLeads
    <3>3. k + 1 \in 0..Len(id)
      BY <1>1, <2>0
    <3>4. \A j \in 0..(k + 1) : j \in 0..k \/ j = k + 1
      BY <2>0
    <3>5. \A j \in 1..(k + 1) : j \in 1..k \/ j = k + 1
      BY <2>0
    <3>6. \/ w[k + 1] = Append(w[k], id[k + 1])
          \/ /\ w[k + 1] = Append(w[k], Wild)
             /\ Append(w[k], id[k + 1]) \notin g[k + 1].paths /\ Full(g[k + 1].paths, w[k])
      <4>1. CASE key = KeyOf(token)
        BY <4>1, <2>2, <2>3, <2>9
      <4>2. CASE key # KeyOf(token)
        <5>1. key = Wild /\ Append(at.path, KeyOf(token)) \notin at.paths /\ Full(at.paths, at.path)
          BY <4>2, <2>4
        <5>2. Full(g[k + 1].paths, w[k])
          BY <5>1, <2>3, <2>8, <2>9 DEF Kept
        <5>3. Append(at.path, KeyOf(token)) # next
          <6>1. at.path \in Seq(Keys)
            BY <2>5 DEF TreePath
          <6>2. KeyOf(token) \in Keys /\ key \in Keys
            BY <2>2, <2>4, KeysHold, DrainFacts DEF KeyOf
          <6> QED BY <6>1, <6>2, <4>2, AppendedDiffers
        <5> QED BY <5>1, <5>2, <5>3, <2>2, <2>3, <2>9
      <4> QED BY <4>1, <4>2
    <3>7. w[k + 1] \in g[k + 1].paths /\ TreePath(w[k + 1])
      BY <2>3, <2>6, <2>9
    <3>8. \A j \in 0..k : w[j] \in g[k + 1].paths /\ TreePath(w[j])
      BY <3>2 DEF LedTo
    <3>9. w[0] = <<Len(id)>> /\ id \in Seq(STRING)
      BY <3>2 DEF LedTo
    <3>10. \A j \in 1..k :
             \/ w[j] = Append(w[j - 1], id[j])
             \/ /\ w[j] = Append(w[j - 1], Wild)
                /\ Append(w[j - 1], id[j]) \notin g[k + 1].paths /\ Full(g[k + 1].paths, w[j - 1])
      BY <3>2 DEF LedTo
    <3> QED BY <3>3, <3>4, <3>5, <3>6, <3>7, <3>8, <3>9, <3>10, <2>0 DEF LedTo
  <2>12. <<x>> \in g[k + 1].paths /\ g[k + 1].path \in g[k + 1].paths
    BY <2>5, <2>9
  <2>13. \A p \in g[k + 1].paths :
           p \in B \/ p = <<x>> \/ (TreePath(p) /\ Len(p) > 1 /\ Head(p) = x)
    BY <2>5, <2>6, <2>9
  <2> HIDE DEF next
  <2> QED BY <2>6, <2>8, <2>9, <2>10, <2>11, <2>12, <2>13
<1>5. 0 \in H
  BY <1>3
<1>6. ASSUME NEW k \in Nat, k \in H PROVE k + 1 \in H
  BY SMTT(30), <1>4, <1>6
<1>7. m \in H => Good(m)
  OBVIOUS
<1> HIDE DEF H
<1>8. m \in H
  BY <1>5, <1>6, CountingUp
<1> QED BY <1>7, <1>8 DEF w, id

(* A line whose template was led somewhere is led there again.             *)
LEMMA WalkFollows ==
  ASSUME NEW log \in Logs, NEW B, NEW m \in Nat, m <= Len(log), NEW g, NEW h,
         LedTo(B, Template(log), h, m),
         g[0] = [path |-> <<Len(log)>>, paths |-> B \union {<<Len(log)>>}],
         \A k \in 1..m : g[k] = DownToken(g[k - 1], log[k])
  PROVE  g[m].path = h[m]
<1> DEFINE id == Template(log)
           H == {k \in Nat : k <= m => g[k].path = h[k] /\ g[k].paths = B}
<1>1. /\ Len(id) = Len(log) /\ Len(log) \in Nat
      /\ \A k \in 1..Len(log) : id[k] = KeyOf(log[k]) /\ log[k] \in STRING
  BY TemplateKeys
<1>2. LedTo(B, id, h, m)
  OBVIOUS
<1> HIDE DEF id
<1>3. 0 \in H
  <2>1. h[0] = <<Len(log)>> /\ h[0] \in B
    <3>1. 0 \in 0..m
      OBVIOUS
    <3>2. h[0] = <<Len(id)>> /\ h[0] \in B
      BY <1>2, <3>1 DEF LedTo
    <3>3. <<Len(id)>> = <<Len(log)>>
      BY <1>1
    <3> QED BY <3>2, <3>3
  <2> DEFINE short == <<Len(log)>>
  <2>2. g[0].path = short /\ g[0].paths = B \union {short}
    OBVIOUS
  <2>3. h[0] = short /\ short \in B
    BY <2>1
  <2> HIDE DEF short
  <2> QED BY <2>2, <2>3
<1>4. ASSUME NEW k \in Nat, k \in H, k + 1 <= m
      PROVE  g[k + 1].path = h[k + 1] /\ g[k + 1].paths = B
  <2>0. k \in 0..m /\ k + 1 \in 1..m /\ (k + 1) - 1 = k /\ k + 1 \in 1..Len(log) /\ k + 1 \in 0..m
    BY <1>1, <1>4
  <2> DEFINE at == g[k]
             token == log[k + 1]
  <2>1. at.path = h[k] /\ at.paths = B
    BY <1>4, <2>0
  <2>2. g[k + 1] = DownToken(at, token) /\ token \in STRING /\ id[k + 1] = KeyOf(token)
    BY <1>1, <2>0
  <2> HIDE DEF at, token
  <2>3. PICK key : /\ key \in STRING
                   /\ g[k + 1] = [path |-> Append(at.path, key),
                                  paths |-> at.paths \union {Append(at.path, key)}]
                   /\ key = IF Append(at.path, KeyOf(token)) \notin at.paths /\ Full(at.paths, at.path)
                            THEN Wild ELSE KeyOf(token)
    BY <2>2, OneDown
  <2>4. h[k + 1] \in B
    BY <1>2, <2>0 DEF LedTo
  <2>5. \/ h[k + 1] = Append(h[k], id[k + 1])
        \/ /\ h[k + 1] = Append(h[k], Wild)
           /\ Append(h[k], id[k + 1]) \notin B /\ Full(B, h[k])
    BY <1>2, <2>0 DEF LedTo
  <2>6. h[k + 1] = Append(at.path, key)
    BY <2>1, <2>2, <2>3, <2>4, <2>5
  <2>7. g[k + 1].path = Append(at.path, key) /\ g[k + 1].paths = at.paths \union {Append(at.path, key)}
    BY <2>3
  <2> QED BY <2>1, <2>4, <2>6, <2>7
<1>5. ASSUME NEW k \in Nat, k \in H PROVE k + 1 \in H
  BY <1>4, <1>5
<1>6. m \in H => g[m].path = h[m]
  OBVIOUS
<1> HIDE DEF H
<1>7. m \in H
  BY <1>3, <1>5, CountingUp
<1> QED BY <1>6, <1>7

LEMMA OtherFirst ==
  ASSUME NEW p, TreePath(p)
  PROVE  IsPrefix(<<Other>>, p) <=> Head(p) = Other
<1>1. p \in Seq(Keys) /\ Len(p) > 0 /\ Len(p) \in Nat
  BY DEF TreePath
<1> DEFINE short == <<Other>>
<1>2. Len(short) = 1 /\ SubSeq(short, 1, 1) = short /\ short[1] = Other /\ short \in Seq(Keys)
  <2>1. Len(short) = 1 /\ short[1] = Other
    OBVIOUS
  <2>2. short \in Seq(Keys)
    BY ShortPath, DrainFacts DEF TreePath
  <2> HIDE DEF short
  <2>3. SubSeq(short, 1, 1) \in Seq(Keys) /\ Len(SubSeq(short, 1, 1)) = 1 /\ SubSeq(short, 1, 1)[1] = short[1]
    BY <2>1, <2>2
  <2>4. \A k \in 1..Len(short) : SubSeq(short, 1, 1)[k] = short[k]
    BY <2>1, <2>3
  <2>5. SubSeq(short, 1, 1) = short
    BY <2>1, <2>2, <2>3, <2>4, SameSequence
  <2> QED BY <2>1, <2>2, <2>5
<1> HIDE DEF short
<1>3. SubSeq(p, 1, 1) \in Seq(Keys) /\ Len(SubSeq(p, 1, 1)) = 1 /\ SubSeq(p, 1, 1)[1] = p[1]
  BY <1>1
<1>4. Head(p) = p[1]
  BY <1>1
<1>5. IsPrefix(short, p) <=> short = SubSeq(p, 1, 1)
  BY <1>1, <1>2 DEF IsPrefix
<1>6. p[1] = Other => short = SubSeq(p, 1, 1)
  <2>1. \A k \in 1..1 : k = 1
    OBVIOUS
  <2>2. Len(short) = Len(SubSeq(p, 1, 1))
    BY <1>2, <1>3
  <2>3. ASSUME p[1] = Other PROVE \A k \in 1..Len(short) : short[k] = SubSeq(p, 1, 1)[k]
    BY <1>2, <1>3, <2>1, <2>3
  <2> QED BY <1>2, <1>3, <2>2, <2>3, SameSequence
<1>7. short = SubSeq(p, 1, 1) => p[1] = Other
  BY <1>2, <1>3
<1> QED BY <1>4, <1>5, <1>6, <1>7 DEF short

OtherRooted(paths) == \A p \in paths : TreePath(p) /\ Head(p) = Other => <<Other>> \in paths

LEMMA PrunedTree ==
  ASSUME NEW log \in Logs, Tree(nodes), OtherRooted(nodes)
  PROVE  /\ Tree(Pruned(log)) /\ Pruned(log) \subseteq nodes
         /\ Overflows(log) => \A p \in Pruned(log) : ~(TreePath(p) /\ Head(p) = Other)
         /\ ~Overflows(log) => Pruned(log) = nodes
         /\ <<Other>> \notin nodes => Pruned(log) = nodes
         /\ \A p \in nodes : TreePath(p) /\ ~(Overflows(log) /\ IsPrefix(<<Other>>, p)) => p \in Pruned(log)
<1>1. Pruned(log) \subseteq nodes
  BY DEF Pruned
<1>2. Tree(Pruned(log))
  BY <1>1, FS_Subset DEF Tree
<1>3. ~Overflows(log) => Pruned(log) = nodes
  BY DEF Pruned
<1>4. ASSUME Overflows(log), NEW p \in Pruned(log), TreePath(p), Head(p) = Other PROVE FALSE
  BY <1>4, OtherFirst DEF Pruned
<1>5. ASSUME <<Other>> \notin nodes, Overflows(log) PROVE Pruned(log) = nodes
  <2>1. ASSUME NEW p \in nodes PROVE ~IsPrefix(<<Other>>, p)
    <3>1. CASE p = <<>>
      <4>1. Len(<<Other>>) = 1 /\ Len(<<>>) = 0
        OBVIOUS
      <4> QED BY <3>1, <4>1 DEF IsPrefix
    <3>2. CASE TreePath(p)
      BY <3>2, <1>5, OtherFirst DEF OtherRooted
    <3> QED BY <3>1, <3>2 DEF Tree
  <2> QED BY <1>5, <2>1 DEF Pruned
<1>6. \A p \in nodes : ~(Overflows(log) /\ IsPrefix(<<Other>>, p)) => p \in Pruned(log)
  BY DEF Pruned
<1> QED BY <1>1, <1>2, <1>3, <1>4, <1>5, <1>6

(* What Navigate leaves, and where it arrives.                             *)
LEMMA Navigated ==
  ASSUME NEW log \in Logs, Tree(nodes), OtherRooted(nodes)
  PROVE  LET at == Navigate(log)
             m == WalkLen(log)
         IN  /\ TreePath(at.path) /\ at.path \in at.paths
             /\ Tree(at.paths) /\ OtherRooted(at.paths)
             /\ Kept(Pruned(log), at.paths) /\ LengthPath(log) \in at.paths
             /\ ~Overflows(log) =>
                  /\ \E h : LedTo(at.paths, Template(log), h, m) /\ at.path = h[m]
                  /\ \A h : LedTo(nodes, Template(log), h, m) => at.path = h[m]
             /\ \A len \in Nat : /\ len # Other /\ <<len>> \notin nodes /\ Full(nodes, <<>>)
                                 => <<len>> \notin at.paths
<1> DEFINE m == WalkLen(log)
           at == Navigate(log)
           B == Pruned(log)
           x == IF Overflows(log) THEN Other ELSE Len(log)
<1>1. /\ Tree(B) /\ B \subseteq nodes
      /\ Overflows(log) => \A p \in B : ~(TreePath(p) /\ Head(p) = Other)
      /\ ~Overflows(log) => B = nodes
  BY PrunedTree
<1>2. PICK g \in [0..m -> Walks] :
        /\ g[0] = [path |-> LengthPath(log), paths |-> B \union {LengthPath(log)}]
        /\ \A k \in 1..m : g[k] = DownToken(g[k - 1], log[k])
        /\ at = g[m]
  BY NavigateWalks
<1>3. m \in Nat /\ m <= Len(log)
  BY NavigateWalks
<1>4. Len(log) \in Nat /\ Len(log) > 0 /\ x \in Nat /\ LengthPath(log) = <<x>>
  BY TemplateKeys, DrainFacts DEF LengthPath
<1>5. ~Overflows(log) => x = Len(log)
  OBVIOUS
<1>6. Overflows(log) => x = Other
  OBVIOUS
<1> HIDE DEF m, at, B, x
<1>7. g[0] = [path |-> <<x>>, paths |-> B \union {<<x>>}]
  BY <1>2, <1>4
<1>8. /\ TreePath(at.path) /\ at.path \in at.paths
      /\ IsFiniteSet(at.paths) /\ <<x>> \in at.paths
      /\ \A p \in at.paths : p \in B \/ p = <<x>> \/ (TreePath(p) /\ Len(p) > 1 /\ Head(p) = x)
      /\ Kept(B, at.paths)
      /\ x = Len(log) => LedTo(at.paths, Template(log), Way(g, m), m)
  <2>1. /\ TreePath(g[m].path) /\ g[m].path \in g[m].paths
        /\ IsFiniteSet(g[m].paths) /\ <<x>> \in g[m].paths
        /\ \A p \in g[m].paths : p \in B \/ p = <<x>> \/ (TreePath(p) /\ Len(p) > 1 /\ Head(p) = x)
        /\ Kept(B, g[m].paths)
        /\ x = Len(log) => LedTo(g[m].paths, Template(log), Way(g, m), m)
    <3>1. Tree(B) /\ x \in Nat /\ m \in Nat /\ m <= Len(log)
      BY <1>1, <1>3, <1>4
    <3>2. \A k \in 1..m : g[k] = DownToken(g[k - 1], log[k])
      BY <1>2
    <3> HIDE DEF Tree
    <3> QED BY <3>1, <3>2, <1>7, WalkKeeps
  <2> QED BY <2>1, <1>2
<1>9. Tree(at.paths)
  BY <1>1, <1>4, <1>8, ShortPath DEF Tree
<1>10. OtherRooted(at.paths)
  <2> SUFFICES ASSUME NEW p \in at.paths, TreePath(p), Head(p) = Other
               PROVE  <<Other>> \in at.paths
    BY DEF OtherRooted
  <2>1. CASE p \in B
    <3>1. ~Overflows(log) /\ B = nodes
      BY <2>1, <1>1
    <3>2. <<Other>> \in B
      BY <2>1, <3>1 DEF OtherRooted
    <3> QED BY <3>2, <1>8 DEF Kept
  <2>2. CASE p = <<x>>
    <3>1. Head(<<x>>) = x
      BY <1>4, ShortPath
    <3>2. x = Other
      BY <2>2, <3>1
    <3> QED BY <3>2, <1>8
  <2>3. CASE Head(p) = x
    BY <2>3, <1>8
  <2> QED BY <2>1, <2>2, <2>3, <1>8
<1>11. ASSUME ~Overflows(log)
       PROVE  /\ \E h : LedTo(at.paths, Template(log), h, m) /\ at.path = h[m]
              /\ \A h : LedTo(nodes, Template(log), h, m) => at.path = h[m]
  <2>1. x = Len(log) /\ B = nodes
    BY <1>1, <1>5, <1>11
  <2> DEFINE w == Way(g, m)
  <2>2. LedTo(at.paths, Template(log), w, m)
    BY <2>1, <1>8
  <2>3. w[m] = at.path
    BY <1>2, <1>3 DEF Way
  <2> HIDE DEF w
  <2>4. ASSUME NEW h, LedTo(nodes, Template(log), h, m) PROVE at.path = h[m]
    <3>1. g[0] = [path |-> <<Len(log)>>, paths |-> nodes \union {<<Len(log)>>}]
      BY <2>1, <1>7
    <3>2. /\ m \in Nat /\ m <= Len(log) /\ LedTo(nodes, Template(log), h, m)
          /\ \A k \in 1..m : g[k] = DownToken(g[k - 1], log[k])
      BY <1>2, <1>3, <2>4
    <3>3. g[m].path = h[m]
      BY SMTT(30), <3>1, <3>2, WalkFollows
    <3> QED BY <3>3, <1>2
  <2> QED BY <2>2, <2>3, <2>4
<1>12. ASSUME NEW len \in Nat, len # Other, <<len>> \notin nodes, Full(nodes, <<>>)
       PROVE  <<len>> \notin at.paths
  <2> DEFINE short == <<len>>
  <2>1. Len(short) = 1 /\ Head(short) = len /\ Head(<<x>>) = x
    BY <1>4, ShortPath
  <2>2. short \notin nodes
    BY <1>12
  <2>3. len = x => x # Other
    BY <1>12
  <2>4. len = x => Overflows(log)
    BY <1>5, <1>12 DEF Overflows
  <2> HIDE DEF short
  <2>5. short # <<x>>
    BY <2>1, <2>3, <2>4, <1>6
  <2>6. short \notin at.paths
    <3> SUFFICES ASSUME short \in at.paths
                 PROVE  FALSE
      OBVIOUS
    <3>1. short \in B \/ short = <<x>> \/ Len(short) > 1
      BY <1>8
    <3>2. ~(Len(short) > 1)
      BY <2>1
    <3> QED BY <3>1, <3>2, <2>2, <2>5, <1>1
  <2> QED BY <2>6 DEF short
<1> QED BY <1>4, <1>8, <1>9, <1>10, <1>11, <1>12 DEF m, at, B

(* What a line does to the patterns.                                       *)
NewPattern(log) ==
  [id |-> Template(log), path |-> Navigate(log).path, tokens |-> Template(log),
   count |-> 1, attached |-> TRUE, lines |-> {log}]

Absorbs(p, q, log) ==
  /\ q.id = p.id /\ q.path = p.path /\ q.tokens = Widen(p.tokens, log)
  /\ q.count = p.count + 1 /\ (q.attached <=> p.attached)

LEMMA RaisedOnce ==
  ASSUME NEW paths, NEW p \in PatternsIn(paths), NEW tokens, NEW lines
  PROVE  LET q == Wider(p, tokens, lines)
         IN  /\ q.id = p.id /\ q.path = p.path /\ q.tokens = tokens
             /\ q.count = p.count + 1 /\ q.attached = p.attached
<1> DEFINE n == p.count + 1
           C == [p EXCEPT !.count = n]
           T == [C EXCEPT !.tokens = tokens]
           L == [T EXCEPT !.lines = lines]
<1> HIDE DEF n
<1>1. /\ C.id = p.id /\ C.path = p.path /\ C.count = n /\ C.attached = p.attached
      /\ C = [id |-> p.id, path |-> p.path, tokens |-> p.tokens, count |-> n,
              attached |-> p.attached, lines |-> p.lines]
  BY DEF PatternsIn
<1> HIDE DEF C
<1>2. T = [id |-> p.id, path |-> p.path, tokens |-> tokens, count |-> n,
           attached |-> p.attached, lines |-> p.lines]
  BY <1>1
<1> HIDE DEF T
<1>3. L = [id |-> p.id, path |-> p.path, tokens |-> tokens, count |-> n,
           attached |-> p.attached, lines |-> lines]
  BY <1>2
<1> HIDE DEF L
<1>4. /\ L.id = p.id /\ L.path = p.path /\ L.tokens = tokens
      /\ L.count = n /\ L.attached = p.attached
  BY <1>3
<1>5. Wider(p, tokens, lines) = L
  BY Zenon DEF L, T, C, n, Wider
<1> QED BY <1>4, <1>5, Zenon DEF n

LEMMA ParseEffects ==
  ASSUME NEW log \in Logs, Parse(log), NEW paths, found \in Seq(PatternsIn(paths))
  PROVE  LET n == Len(found)
             at == Navigate(log)
         IN  /\ n \in Nat /\ DOMAIN found = 1..n
             /\ nodes' = at.paths /\ parsed' = parsed + 1 /\ parsed < MaxParsed
             /\ resets' = IF Overflows(log) /\ <<Other>> \in nodes THEN resets + 1 ELSE resets
             /\ \/ \E i \in Best(log, at.path) :
                     /\ ~Overflows(log) /\ i \in 1..n /\ Len(log) = Len(found[i].tokens)
                     /\ DOMAIN found' = 1..n /\ discarded' = discarded
                     /\ Absorbs(found[i], found'[i], log)
                     /\ \A j \in (1..n) \ {i} : Carried(found[j], found'[j], log)
                \/ /\ Overflows(log) \/ Best(log, at.path) = {}
                   /\ \A j \in 1..n : Carried(found[j], found'[j], log)
                   /\ \/ DOMAIN found' = 1..n /\ discarded' = discarded + 1
                      \/ /\ DOMAIN found' = 1..(n + 1) /\ discarded' = discarded
                         /\ found'[n + 1] = NewPattern(log)
<1> DEFINE n == Len(found)
           at == Navigate(log)
           best == IF Overflows(log) THEN {} ELSE Best(log, at.path)
           old == Detached(log)
<1>1. /\ n \in Nat /\ DOMAIN found = 1..n
      /\ old \in Seq(PatternsIn(paths)) /\ Len(old) = n /\ DOMAIN old = 1..n
      /\ \A i \in 1..n : Carried(found[i], old[i], log)
      /\ ~Overflows(log) => \A i \in 1..n : old[i] = found[i]
  BY SMTT(30), OldPatterns
<1>2. /\ nodes' = at.paths /\ parsed' = parsed + 1 /\ parsed < MaxParsed
      /\ resets' = IF Overflows(log) /\ <<Other>> \in nodes THEN resets + 1 ELSE resets
  BY DEF Parse
<1>3. \/ /\ \E i \in best : found' = [old EXCEPT ![i].count = @ + 1,
                                              ![i].tokens = Widen(@, log),
                                              ![i].lines = @ \union {log}]
         /\ discarded' = discarded
      \/ /\ best = {} /\ found' = Append(old, NewPattern(log)) /\ discarded' = discarded
      \/ best = {} /\ found' = old /\ discarded' = discarded + 1
  BY Zenon DEF Parse, NewPattern
<1>4. best = {} => Overflows(log) \/ Best(log, at.path) = {}
  OBVIOUS
<1>5. \A i \in best : ~Overflows(log) /\ i \in Best(log, at.path)
  OBVIOUS
<1> HIDE DEF best, old, n, at
<1>11. \A j \in 1..n : old[j] \in PatternsIn(paths)
  BY <1>1
<1>6. ASSUME NEW i \in best,
             found' = [old EXCEPT ![i].count = @ + 1, ![i].tokens = Widen(@, log),
                                  ![i].lines = @ \union {log}]
      PROVE  /\ ~Overflows(log) /\ i \in 1..n /\ Len(log) = Len(found[i].tokens)
             /\ DOMAIN found' = 1..n
             /\ Absorbs(found[i], found'[i], log)
             /\ \A j \in (1..n) \ {i} : Carried(found[j], found'[j], log)
  <2>1. i \in 1..n /\ Len(log) = Len(found[i].tokens) /\ ~Overflows(log)
    BY <1>1, <1>5, BestFits
  <2>2. old[i] = found[i] /\ old[i] \in PatternsIn(paths)
    BY <1>1, <1>11, <2>1, Zenon
  <2> DEFINE wider == Wider(old[i], Widen(old[i].tokens, log), old[i].lines \union {log})
  <2>3. found' = [old EXCEPT ![i] = wider]
    BY <1>1, <1>6, <2>1 DEF Wider
  <2>4. Absorbs(old[i], wider, log)
    BY <2>2, RaisedOnce DEF Absorbs
  <2> HIDE DEF wider
  <2>5. DOMAIN found' = 1..n /\ found'[i] = wider
        /\ \A j \in (1..n) \ {i} : found'[j] = old[j]
    BY <1>1, <2>1, <2>3
  <2>6. \A j \in 1..n : Carried(found[j], old[j], log)
    BY <1>1
  <2> QED BY <2>1, <2>2, <2>4, <2>5, <2>6, Zenon
<1>7. ASSUME found' = Append(old, NewPattern(log))
      PROVE  /\ \A j \in 1..n : Carried(found[j], found'[j], log)
             /\ DOMAIN found' = 1..(n + 1) /\ found'[n + 1] = NewPattern(log)
  <2> DEFINE new == NewPattern(log)
  <2> HIDE DEF new
  <2>1. found' = Append(old, new)
    BY <1>7 DEF new
  <2>2. /\ DOMAIN Append(old, new) = 1..(n + 1) /\ Append(old, new)[n + 1] = new
        /\ \A j \in 1..n : Append(old, new)[j] = old[j]
    BY <1>1
  <2> QED BY <1>1, <2>1, <2>2 DEF new
<1>8. CASE \E i \in best : found' = [old EXCEPT ![i].count = @ + 1,
                                              ![i].tokens = Widen(@, log),
                                              ![i].lines = @ \union {log}]
           /\ discarded' = discarded
  BY <1>1, <1>2, <1>5, <1>6, <1>8, Zenon DEF n, at
<1>9. CASE best = {} /\ found' = Append(old, NewPattern(log)) /\ discarded' = discarded
  BY <1>1, <1>2, <1>4, <1>7, <1>9, Zenon DEF n, at
<1>10. CASE best = {} /\ found' = old /\ discarded' = discarded + 1
  BY <1>1, <1>2, <1>4, <1>10, Zenon DEF n, at
<1> QED BY <1>3, <1>8, <1>9, <1>10, Zenon

(* Every pattern lies at a path, in the tree as long as it is attached,    *)
(* and its template has wildcards where it is not its first line's.        *)
Fits(id, tokens) ==
  Len(tokens) = Len(id) /\ \A k \in 1..Len(id) : tokens[k] \in {id[k], Wild}

Sound(p) ==
  /\ TreePath(p.path) /\ (p.attached => p.path \in nodes)
  /\ p.count \in 1..parsed /\ Fits(p.id, p.tokens)

DrainTree ==
  /\ Tree(nodes) /\ OtherRooted(nodes)
  /\ parsed \in 0..MaxParsed /\ discarded \in 0..parsed /\ resets \in 0..parsed
  /\ \A i \in DOMAIN found : Sound(found[i])

LEMMA WidenFits ==
  ASSUME NEW id, NEW tokens \in Seq(Tokens), NEW log, Fits(id, tokens)
  PROVE  Fits(id, Widen(tokens, log))
<1>1. DOMAIN tokens = 1..Len(tokens) /\ Len(tokens) \in Nat
  OBVIOUS
<1>2. Widen(tokens, log) = [i \in 1..Len(tokens) |-> IF tokens[i] = log[i] THEN tokens[i] ELSE Wild]
  BY <1>1 DEF Widen
<1>3. \A i \in 1..Len(tokens) : tokens[i] \in Tokens /\ Wild \in Tokens
  BY <1>1 DEF Tokens
<1>4. Widen(tokens, log) \in [1..Len(tokens) -> Tokens]
  BY <1>2, <1>3
<1>5. Len(Widen(tokens, log)) = Len(tokens)
  BY <1>1, <1>4, FunctionIsSequence
<1> QED BY <1>1, <1>2, <1>5 DEF Fits

LEMMA TreeGrows ==
  ASSUME DrainTree, NEW log \in Logs, Parse(log), NEW paths, found \in Seq(PatternsIn(paths))
  PROVE  DrainTree'
<1> DEFINE n == Len(found)
           at == Navigate(log)
<1>1. /\ TreePath(at.path) /\ at.path \in at.paths
      /\ Tree(at.paths) /\ OtherRooted(at.paths) /\ Kept(Pruned(log), at.paths)
  BY Navigated DEF DrainTree
<1>2. /\ n \in Nat /\ DOMAIN found = 1..n
      /\ nodes' = at.paths /\ parsed' = parsed + 1 /\ parsed < MaxParsed
      /\ resets' = IF Overflows(log) /\ <<Other>> \in nodes THEN resets + 1 ELSE resets
      /\ \/ \E i \in Best(log, at.path) :
              /\ ~Overflows(log) /\ i \in 1..n /\ Len(log) = Len(found[i].tokens)
              /\ DOMAIN found' = 1..n /\ discarded' = discarded
              /\ Absorbs(found[i], found'[i], log)
              /\ \A j \in (1..n) \ {i} : Carried(found[j], found'[j], log)
         \/ /\ Overflows(log) \/ Best(log, at.path) = {}
            /\ \A j \in 1..n : Carried(found[j], found'[j], log)
            /\ \/ DOMAIN found' = 1..n /\ discarded' = discarded + 1
               \/ /\ DOMAIN found' = 1..(n + 1) /\ discarded' = discarded
                  /\ found'[n + 1] = NewPattern(log)
  BY ParseEffects
<1>3. /\ Tree(nodes) /\ OtherRooted(nodes)
      /\ parsed \in 0..MaxParsed /\ discarded \in 0..parsed /\ resets \in 0..parsed
      /\ \A i \in 1..n : Sound(found[i])
  BY <1>2 DEF DrainTree
<1>4. /\ ~Overflows(log) => Pruned(log) = nodes
      /\ \A p \in nodes : TreePath(p) /\ ~(Overflows(log) /\ IsPrefix(<<Other>>, p)) => p \in Pruned(log)
  BY <1>3, PrunedTree
<1>5. Pruned(log) \subseteq at.paths
  BY <1>1 DEF Kept
<1>6. \A i \in 1..n : found[i].tokens \in Seq(Tokens)
  <2>1. \A i \in 1..n : found[i] \in PatternsIn(paths)
    BY <1>2
  <2> QED BY <2>1 DEF PatternsIn
<1> HIDE DEF n, at
<1>7. MaxParsed \in Nat /\ parsed \in Nat /\ discarded \in Nat /\ resets \in Nat
  BY <1>3, DrainFacts
<1>8. /\ parsed' \in 0..MaxParsed /\ discarded' \in 0..parsed' /\ resets' \in 0..parsed'
  <2>1. discarded' = discarded \/ discarded' = discarded + 1
    BY <1>2
  <2>2. resets' = resets \/ resets' = resets + 1
    BY <1>2
  <2>3. parsed' = parsed + 1 /\ parsed < MaxParsed
    BY <1>2
  <2>4. discarded <= parsed /\ resets <= parsed
    BY <1>3
  <2> QED BY <2>1, <2>2, <2>3, <2>4, <1>7
<1>9. ASSUME NEW j \in 1..n, Carried(found[j], found'[j], log)
      PROVE  Sound(found[j])'
  <2>1. Sound(found[j])
    BY <1>3
  <2>2. found'[j].attached => found'[j].path \in nodes'
    <3> SUFFICES ASSUME found'[j].attached
                 PROVE  found'[j].path \in nodes'
      OBVIOUS
    <3>1. found[j].attached /\ ~Cut(found[j], log) /\ found'[j].path = found[j].path
      BY <1>9 DEF Carried
    <3>2. found[j].path \in nodes /\ TreePath(found[j].path)
      BY <2>1, <3>1 DEF Sound
    <3>3. found[j].path \in Pruned(log)
      BY <3>1, <3>2, <1>4 DEF Cut
    <3> QED BY <3>1, <3>3, <1>2, <1>5
  <2>3. found'[j].count \in 1..parsed'
    <3>1. found'[j].count = found[j].count
      BY <1>9 DEF Carried
    <3> QED BY <2>1, <3>1, <1>2, <1>7 DEF Sound
  <2>4. TreePath(found'[j].path) /\ Fits(found'[j].id, found'[j].tokens)
    BY <1>9, <2>1 DEF Carried, Sound
  <2> QED BY <2>2, <2>3, <2>4 DEF Sound
<1>10. ASSUME NEW i \in 1..n, ~Overflows(log), Absorbs(found[i], found'[i], log)
       PROVE  Sound(found[i])'
  <2>1. Sound(found[i])
    BY <1>3
  <2>2. found'[i].attached => found'[i].path \in nodes'
    <3>1. nodes \subseteq nodes'
      BY <1>2, <1>4, <1>5, <1>10
    <3> QED BY <2>1, <3>1, <1>10 DEF Absorbs, Sound
  <2>3. found'[i].count \in 1..parsed'
    <3>1. found'[i].count = found[i].count + 1
      BY <1>10 DEF Absorbs
    <3> QED BY SMTT(30), <2>1, <3>1, <1>2, <1>7 DEF Sound
  <2>4. TreePath(found'[i].path) /\ Fits(found'[i].id, found'[i].tokens)
    <3>1. Fits(found[i].id, Widen(found[i].tokens, log))
      BY <2>1, <1>6, WidenFits DEF Sound
    <3> QED BY <1>10, <2>1, <3>1 DEF Absorbs, Sound
  <2> QED BY <2>2, <2>3, <2>4 DEF Sound
<1>11. ASSUME NEW k, found'[k] = NewPattern(log)
       PROVE  Sound(found[k])'
  <2>1. /\ found'[k].id = Template(log) /\ found'[k].tokens = Template(log)
        /\ found'[k].path = at.path /\ found'[k].count = 1
    BY <1>11 DEF NewPattern, at
  <2>2. Fits(Template(log), Template(log))
    BY DEF Fits
  <2>3. 1 \in 1..parsed'
    BY <1>2, <1>7
  <2>4. TreePath(at.path) /\ at.path \in nodes'
    BY <1>1, <1>2
  <2> QED BY <2>1, <2>2, <2>3, <2>4 DEF Sound
<1>12. \A j \in DOMAIN found' : Sound(found[j])'
  <2>1. CASE \E i \in Best(log, at.path) :
              /\ ~Overflows(log) /\ i \in 1..n
              /\ DOMAIN found' = 1..n
              /\ Absorbs(found[i], found'[i], log)
              /\ \A j \in (1..n) \ {i} : Carried(found[j], found'[j], log)
    BY <2>1, <1>9, <1>10
  <2>2. CASE /\ \A j \in 1..n : Carried(found[j], found'[j], log)
             /\ DOMAIN found' = 1..n
    BY <2>2, <1>9
  <2>3. CASE /\ \A j \in 1..n : Carried(found[j], found'[j], log)
             /\ DOMAIN found' = 1..(n + 1)
             /\ found'[n + 1] = NewPattern(log)
    <3>1. \A j \in 1..(n + 1) : j \in 1..n \/ j = n + 1
      BY <1>2
    <3> QED BY <2>3, <3>1, <1>9, <1>11
  <2> QED BY <1>2, <2>1, <2>2, <2>3
<1>13. Tree(nodes)' /\ OtherRooted(nodes)'
  BY <1>1, <1>2 DEF Tree, OtherRooted
<1> QED BY <1>8, <1>12, <1>13 DEF DrainTree

(* A line finds the attached pattern of its template in the leaf.          *)
LEMMA MatchesType ==
  ASSUME NEW log \in Logs, NEW tokens
  PROVE  /\ Matches(log, tokens) \in 0..Len(log)
         /\ Fits(Template(log), tokens) => Matches(log, tokens) = Len(log)
<1> DEFINE same == {i \in DOMAIN log : tokens[i] \in {log[i], Wild}}
           n == Len(log)
<1>1. n \in Nat /\ DOMAIN log = 1..n
  BY LogsAreLines
<1> HIDE DEF n
<1>2. IsFiniteSet(1..n) /\ Cardinality(1..n) = n
  BY <1>1, FS_Interval
<1>3. /\ IsFiniteSet(same) /\ Cardinality(same) \in Nat /\ Cardinality(same) <= n
  <2>1. same \subseteq 1..n
    BY <1>1
  <2> HIDE DEF same
  <2> DEFINE all == 1..n
  <2>2. IsFiniteSet(all) /\ Cardinality(all) = n /\ same \in SUBSET all
    BY <1>2, <2>1
  <2> HIDE DEF all
  <2>3. IsFiniteSet(same) /\ Cardinality(same) <= Cardinality(all)
    BY <2>2, FS_Subset
  <2> QED BY <2>2, <2>3, FS_CardinalityType
<1>4. Matches(log, tokens) = IF Len(log) # Len(tokens) THEN 0 ELSE Cardinality(same)
  BY DEF Matches
<1>5. ASSUME Fits(Template(log), tokens)
      PROVE  Matches(log, tokens) = Len(log)
  <2>1. Len(Template(log)) = n /\ \A k \in 1..n : Template(log)[k] = KeyOf(log[k])
    BY TemplateKeys DEF n
  <2>2. Len(tokens) = n /\ \A k \in 1..n : tokens[k] \in {Template(log)[k], Wild}
    BY <1>5, <2>1 DEF Fits
  <2>3. \A k \in 1..n : tokens[k] \in {log[k], Wild}
    BY <2>1, <2>2 DEF KeyOf
  <2>4. same = 1..n
    BY <1>1, <2>3
  <2> QED BY <1>2, <1>4, <2>2, <2>4 DEF n
<1> QED BY <1>1, <1>3, <1>4, <1>5 DEF n

LEMMA BestExists ==
  ASSUME NEW log \in Logs, NEW path, NEW n \in Nat, DOMAIN found = 1..n,
         NEW one \in 1..n, found[one].attached, found[one].path = path,
         Fits(Template(log), found[one].tokens)
  PROVE  Best(log, path) # {}
<1> DEFINE score(i) == Matches(log, found[i].tokens)
           here == {i \in 1..n : /\ found[i].attached /\ found[i].path = path
                                 /\ score(i) * 2 >= Len(log)}
           scores == {score(i) : i \in here}
           ahead(i, j) == score(i) > score(j)
<1>1. Len(log) \in Nat /\ \A i \in 1..n : score(i) \in 0..Len(log)
  BY MatchesType, LogsAreLines
<1>2. one \in here
  <2>1. score(one) = Len(log)
    BY MatchesType
  <2> QED BY <1>1, <2>1
<1>3. Best(log, path) = {i \in here : \A j \in here \ {i} : ahead(i, j) \/ (~ahead(j, i) /\ i < j)}
  <2>1. here = {i \in DOMAIN found : found[i].attached /\ found[i].path = path
                                    /\ Matches(log, found[i].tokens) * 2 >= Len(log)}
    OBVIOUS
  <2> QED BY <2>1 DEF Best
<1>4. here \subseteq 1..n
  OBVIOUS
<1> HIDE DEF score, here
<1>5. scores \in SUBSET (0..Len(log)) /\ scores # {}
  BY <1>1, <1>2, <1>4
<1>6. PICK top \in scores : \A y \in scores : y <= top
  BY <1>1, <1>5, LatestMoment
<1> DEFINE best == {i \in here : score(i) = top}
<1>7. best \in SUBSET Nat /\ best # {}
  <2>1. best # {}
    BY <1>6
  <2>2. 1..n \subseteq Nat
    OBVIOUS
  <2> QED BY <1>4, <2>1, <2>2
<1> HIDE DEF best
<1>8. PICK i \in best : \A j \in best : i <= j
  BY <1>7, LeastNumber
<1>9. i \in here /\ score(i) = top /\ i \in Nat
  BY <1>7, <1>8 DEF best
<1>10. ASSUME NEW j \in here \ {i}
       PROVE  score(i) > score(j) \/ (~(score(j) > score(i)) /\ i < j)
  <2>1. score(j) <= top /\ score(j) \in Nat /\ top \in Nat
    BY <1>1, <1>4, <1>5, <1>6
  <2>2. CASE score(j) = top
    <3>1. j \in best /\ j \in Nat
      BY <1>7, <2>2 DEF best
    <3>2. i <= j /\ i # j
      BY <1>8, <3>1
    <3> QED BY <3>1, <3>2, <1>9, <2>1, <2>2
  <2> QED BY <2>1, <2>2, <1>9
<1> QED BY <1>3, <1>9, <1>10

-----------------------------------------------------------------------------
(* While the branch of other lengths has not been replaced, every pattern  *)
(* is attached and where its template is led to, no two have the same      *)
(* template, and their counts with the discarded lines are the lines.      *)
Placed(p) ==
  \/ \E g : /\ LedTo(nodes, p.id, g, WalkLen(p.id)) /\ p.path = g[WalkLen(p.id)]
  \/ /\ <<Other>> \in nodes /\ <<Len(p.id)>> \notin nodes /\ Full(nodes, <<>>)

CountsOf(patterns) == [i \in DOMAIN patterns |-> patterns[i].count]

Accounts ==
  /\ \A i \in DOMAIN found : found[i].attached /\ Placed(found[i]) /\ Len(found[i].id) > 0
  /\ \A i, j \in DOMAIN found : found[i].id = found[j].id => i = j
  /\ SumOf(CountsOf(found), DOMAIN found) + discarded = parsed

DrainAccounts == resets = 0 => Accounts

(* The template of a line that starts a pattern is a new one.              *)
LEMMA NewTemplate ==
  ASSUME DrainTree, Accounts, NEW log \in Logs, NEW paths, found \in Seq(PatternsIn(paths)),
         ~(Overflows(log) /\ <<Other>> \in nodes),
         Overflows(log) \/ Best(log, Navigate(log).path) = {},
         NEW i \in DOMAIN found
  PROVE  found[i].id # Template(log)
<1> SUFFICES ASSUME found[i].id = Template(log)
             PROVE  FALSE
  OBVIOUS
<1> DEFINE n == Len(found)
<1>1. n \in Nat /\ DOMAIN found = 1..n
  OBVIOUS
<1> HIDE DEF n
<1>2. found[i].attached /\ Placed(found[i])
  BY DEF Accounts
<1>3. Len(Template(log)) = Len(log) /\ WalkLen(Template(log)) = WalkLen(log)
  BY TemplateKeys DEF WalkLen
<1>4. CASE /\ <<Other>> \in nodes /\ <<Len(log)>> \notin nodes /\ Full(nodes, <<>>)
  BY <1>4 DEF Overflows
<1>5. ASSUME NEW g, LedTo(nodes, Template(log), g, WalkLen(log)), found[i].path = g[WalkLen(log)]
      PROVE  FALSE
  <2>1. <<Len(log)>> \in nodes
    <3>1. g[0] = <<Len(log)>> /\ 0 \in 0..WalkLen(log) /\ \A k \in 0..WalkLen(log) : g[k] \in nodes
      BY <1>3, <1>5 DEF LedTo
    <3> QED BY <3>1
  <2>2. ~Overflows(log)
    BY <2>1 DEF Overflows
  <2>3. Navigate(log).path = g[WalkLen(log)]
    BY <1>5, <2>2, Navigated DEF DrainTree
  <2>4. Fits(Template(log), found[i].tokens)
    BY SMTT(30) DEF DrainTree, Sound
  <2> QED BY <1>1, <1>2, <1>5, <2>2, <2>3, <2>4, BestExists
<1> QED BY <1>2, <1>3, <1>4, <1>5 DEF Placed

LEMMA PlacedStays ==
  ASSUME DrainTree, NEW log \in Logs, Pruned(log) = nodes, nodes' = Navigate(log).paths,
         NEW i, Placed(found[i]), Len(found[i].id) \in Nat, Len(found[i].id) > 0,
         found'[i].id = found[i].id, found'[i].path = found[i].path
  PROVE  Placed(found[i])'
<1> DEFINE id == found[i].id
           path == found[i].path
           more == Navigate(log).paths
<1>1. /\ Kept(nodes, more)
      /\ \A len \in Nat : /\ len # Other /\ <<len>> \notin nodes /\ Full(nodes, <<>>)
                          => <<len>> \notin more
  BY Navigated DEF DrainTree
<1>2. /\ nodes \subseteq more /\ \A q : Full(nodes, q) => Full(more, q)
      /\ \A g : LedTo(nodes, id, g, WalkLen(id)) => LedTo(more, id, g, WalkLen(id))
  BY <1>1 DEF Kept
<1>3. Len(id) # Other
  BY DEF Other
<1> HIDE DEF id, path, more
<1>4. \/ \E g : LedTo(nodes, id, g, WalkLen(id)) /\ path = g[WalkLen(id)]
      \/ <<Other>> \in nodes /\ <<Len(id)>> \notin nodes /\ Full(nodes, <<>>)
  BY DEF Placed, id, path
<1>5. Len(id) \in Nat /\ nodes' = more /\ found'[i].id = id /\ found'[i].path = path
  BY DEF id, path, more
<1>6. \/ \E g : LedTo(more, id, g, WalkLen(id)) /\ path = g[WalkLen(id)]
      \/ <<Other>> \in more /\ <<Len(id)>> \notin more /\ Full(more, <<>>)
  BY <1>1, <1>2, <1>3, <1>4, <1>5
<1>7. \/ \E g : LedTo(nodes', found'[i].id, g, WalkLen(found'[i].id))
                /\ found'[i].path = g[WalkLen(found'[i].id)]
      \/ <<Other>> \in nodes' /\ <<Len(found'[i].id)>> \notin nodes' /\ Full(nodes', <<>>)
  BY <1>5, <1>6
<1> QED BY <1>7 DEF Placed, LedTo, Full, Children

LEMMA NewIsPlaced ==
  ASSUME DrainTree, NEW log \in Logs, Pruned(log) = nodes, nodes' = Navigate(log).paths,
         NEW i, found'[i] = NewPattern(log)
  PROVE  Placed(found[i])'
<1> DEFINE id == Template(log)
           path == Navigate(log).path
           more == Navigate(log).paths
<1>1. Len(id) = Len(log) /\ WalkLen(id) = WalkLen(log) /\ Len(log) \in Nat /\ Len(log) # Other
  BY TemplateKeys DEF WalkLen, Other
<1>2. /\ Kept(nodes, more) /\ LengthPath(log) \in more
      /\ ~Overflows(log) => \E h : LedTo(more, id, h, WalkLen(log)) /\ path = h[WalkLen(log)]
      /\ \A len \in Nat : /\ len # Other /\ <<len>> \notin nodes /\ Full(nodes, <<>>)
                          => <<len>> \notin more
  BY Navigated DEF DrainTree
<1>3. found'[i].id = id /\ found'[i].path = path /\ nodes' = more
  BY DEF NewPattern
<1> HIDE DEF id, path, more
<1>4. CASE Overflows(log)
  <2>1. <<Len(log)>> \notin nodes /\ Full(nodes, <<>>) /\ <<Other>> \in more
    BY <1>2, <1>4 DEF Overflows, LengthPath
  <2>2. <<Len(log)>> \notin more /\ Full(more, <<>>)
    BY <1>1, <1>2, <2>1 DEF Kept
  <2>3. <<Other>> \in nodes' /\ <<Len(found'[i].id)>> \notin nodes' /\ Full(nodes', <<>>)
    BY <1>1, <1>3, <2>1, <2>2
  <2> QED BY <2>3 DEF Placed, Full, Children
<1>5. CASE ~Overflows(log)
  <2>1. \E h : LedTo(nodes', found'[i].id, h, WalkLen(found'[i].id))
               /\ found'[i].path = h[WalkLen(found'[i].id)]
    BY <1>1, <1>2, <1>3, <1>5
  <2> QED BY <2>1 DEF Placed, LedTo, Full, Children
<1> QED BY <1>4, <1>5

LEMMA CountsFollow ==
  ASSUME NEW n \in Nat, NEW f, NEW g, \A j \in 1..n : f[j] \in Int
  PROVE  /\ (\A j \in 1..n : g[j] = f[j]) => SumOf(g, 1..n) = SumOf(f, 1..n)
         /\ \A i \in 1..n : g[i] = f[i] + 1 /\ (\A j \in (1..n) \ {i} : g[j] = f[j])
                            => SumOf(g, 1..n) = SumOf(f, 1..n) + 1
         /\ g[n + 1] = 1 /\ (\A j \in 1..n : g[j] = f[j])
              => SumOf(g, 1..(n + 1)) = SumOf(f, 1..n) + 1
         /\ SumOf(f, 1..n) \in Int
<1> DEFINE S == 1..n
<1>1. IsFiniteSet(S) /\ n + 1 \notin S /\ 1..(n + 1) = S \union {n + 1}
  BY FS_Interval
<1>2. \A j \in S : f[j] \in Int
  OBVIOUS
<1> HIDE DEF S
<1>3. SumOf(f, S) \in Int
  BY <1>1, <1>2, SumType
<1>4. (\A j \in S : g[j] = f[j]) => SumOf(g, S) = SumOf(f, S)
  BY <1>1, <1>2, SumAgrees
<1>5. ASSUME NEW i \in S, g[i] = f[i] + 1, \A j \in S \ {i} : g[j] = f[j]
      PROVE  SumOf(g, S) = SumOf(f, S) + 1
  <2>1. IsFiniteSet(S \ {i}) /\ S \ {i} \subseteq S
    BY <1>1, FS_Subset
  <2>2. \A j \in S : g[j] \in Int
    BY <1>2, <1>5
  <2>3. SumOf(g, S) = g[i] + SumOf(g, S \ {i})
    BY <1>1, <2>2, SumTakeOut
  <2>4. SumOf(f, S) = f[i] + SumOf(f, S \ {i})
    BY <1>1, <1>2, SumTakeOut
  <2>5. SumOf(g, S \ {i}) = SumOf(f, S \ {i})
    <3> DEFINE R == S \ {i}
    <3>1. IsFiniteSet(R) /\ \A j \in R : f[j] \in Int /\ f[j] = g[j]
      BY <1>2, <1>5, <2>1
    <3> HIDE DEF R
    <3>2. SumOf(f, R) = SumOf(g, R)
      BY <3>1, SumAgrees
    <3> QED BY <3>2 DEF R
  <2>6. SumOf(f, S \ {i}) \in Int /\ f[i] \in Int
    BY <1>2, <2>1, SumType
  <2> QED BY <2>3, <2>4, <2>5, <2>6, <1>5
<1>6. ASSUME g[n + 1] = 1, \A j \in S : g[j] = f[j]
      PROVE  SumOf(g, S \union {n + 1}) = SumOf(f, S) + 1
  <2> DEFINE x == n + 1
  <2>1. x \notin S /\ \A j \in S \union {x} : g[j] \in Int
    BY <1>1, <1>2, <1>6
  <2>2. g[x] = 1
    BY <1>6
  <2> HIDE DEF x
  <2>3. SumOf(g, S \union {x}) = g[x] + SumOf(g, S)
    BY <1>1, <2>1, SumPutIn
  <2>4. SumOf(g, S) = SumOf(f, S)
    BY <1>4, <1>6
  <2>5. SumOf(g, S \union {x}) = SumOf(f, S) + 1
    BY <2>2, <2>3, <2>4, <1>3
  <2> QED BY <2>5 DEF x
<1> QED BY <1>1, <1>3, <1>4, <1>5, <1>6 DEF S

LEMMA AccountsGrow ==
  ASSUME DrainTree, DrainAccounts, NEW log \in Logs, Parse(log),
         NEW paths, found \in Seq(PatternsIn(paths))
  PROVE  DrainAccounts'
<1> SUFFICES ASSUME resets' = 0
             PROVE  Accounts'
  BY DEF DrainAccounts
<1> DEFINE n == Len(found)
           f == CountsOf(found)
           g == CountsOf(found)'
<1>1. /\ n \in Nat /\ DOMAIN found = 1..n
      /\ nodes' = Navigate(log).paths /\ parsed' = parsed + 1
      /\ resets' = IF Overflows(log) /\ <<Other>> \in nodes THEN resets + 1 ELSE resets
      /\ \/ \E i \in Best(log, Navigate(log).path) :
              /\ ~Overflows(log) /\ i \in 1..n /\ Len(log) = Len(found[i].tokens)
              /\ DOMAIN found' = 1..n /\ discarded' = discarded
              /\ Absorbs(found[i], found'[i], log)
              /\ \A j \in (1..n) \ {i} : Carried(found[j], found'[j], log)
         \/ /\ Overflows(log) \/ Best(log, Navigate(log).path) = {}
            /\ \A j \in 1..n : Carried(found[j], found'[j], log)
            /\ \/ DOMAIN found' = 1..n /\ discarded' = discarded + 1
               \/ /\ DOMAIN found' = 1..(n + 1) /\ discarded' = discarded
                  /\ found'[n + 1] = NewPattern(log)
  BY ParseEffects
<1>2. /\ resets = 0 /\ ~(Overflows(log) /\ <<Other>> \in nodes)
      /\ parsed \in Int /\ discarded \in Int
  <2>1. resets \in 0..parsed /\ parsed \in 0..MaxParsed /\ discarded \in 0..parsed /\ MaxParsed \in Nat
    BY DrainFacts DEF DrainTree
  <2> QED BY <1>1, <2>1
<1>3. Accounts
  BY <1>2 DEF DrainAccounts
<1>4. Pruned(log) = nodes
  BY <1>2, PrunedTree DEF DrainTree
<1>5. \A j \in 1..n : /\ found[j].id \in Seq(STRING) /\ Len(found[j].id) \in Nat
                      /\ found[j].count \in Nat
  <2>1. \A j \in 1..n : found[j] \in PatternsIn(paths)
    BY <1>1
  <2> QED BY SMTT(30), <2>1, DrainFacts DEF PatternsIn
<1>6. \A j \in 1..n : ~Cut(found[j], log)
  <2> SUFFICES ASSUME NEW j \in 1..n, Cut(found[j], log)
               PROVE  FALSE
    OBVIOUS
  <2>1. found[j].attached
    BY <1>1, <1>3 DEF Accounts
  <2>2. Sound(found[j])
    BY <1>1 DEF DrainTree
  <2>3. Overflows(log) /\ TreePath(found[j].path) /\ found[j].path \in nodes
        /\ IsPrefix(<<Other>>, found[j].path)
    BY <2>1, <2>2 DEF Cut, Sound
  <2>4. <<Other>> \in nodes
    BY <2>3, OtherFirst DEF DrainTree, OtherRooted
  <2> QED BY <2>3, <2>4, <1>2
<1>7. \A j \in 1..n : Carried(found[j], found'[j], log) \/ Absorbs(found[j], found'[j], log)
  BY <1>1
<1>8. \A j \in 1..n : /\ found'[j].attached /\ Placed(found[j])' /\ Len(found'[j].id) > 0
                      /\ found'[j].id = found[j].id
  <2> SUFFICES ASSUME NEW j \in 1..n
               PROVE  /\ found'[j].attached /\ Placed(found[j])' /\ Len(found'[j].id) > 0
                      /\ found'[j].id = found[j].id
    OBVIOUS
  <2>1. found'[j].id = found[j].id /\ found'[j].path = found[j].path
        /\ (found'[j].attached <=> found[j].attached)
    BY <1>6, <1>7 DEF Carried, Absorbs
  <2>2. found[j].attached /\ Placed(found[j]) /\ Len(found[j].id) > 0
    BY <1>1, <1>3 DEF Accounts
  <2>3. Placed(found[j])'
    BY <2>1, <2>2, <1>1, <1>4, <1>5, PlacedStays
  <2> QED BY <2>1, <2>2, <2>3
<1>9. ASSUME NEW k, found'[k] = NewPattern(log)
      PROVE  found'[k].attached /\ Placed(found[k])' /\ Len(found'[k].id) > 0
  <2>1. found'[k].attached /\ found'[k].id = Template(log)
    BY <1>9 DEF NewPattern
  <2>2. Placed(found[k])'
    BY <1>1, <1>4, <1>9, NewIsPlaced
  <2> QED BY <2>1, <2>2, TemplateKeys
<1>10. \A j \in 1..n : f[j] = found[j].count /\ f[j] \in Int
  BY <1>1, <1>5 DEF CountsOf
<1>11. \A j \in DOMAIN found' : g[j] = found'[j].count
  BY DEF CountsOf
<1>12. SumOf(f, 1..n) + discarded = parsed
  BY <1>1, <1>3 DEF Accounts
<1> DEFINE total == SumOf(CountsOf(found), DOMAIN found)
<1>13. ASSUME NEW d, d = DOMAIN found', SumOf(g, d) + discarded' = parsed'
       PROVE  (SumOf(CountsOf(found), DOMAIN found) + discarded = parsed)'
  BY <1>13
<1>17. /\ n \in Nat /\ DOMAIN found = 1..n /\ parsed' = parsed + 1
       /\ parsed \in Int /\ discarded \in Int
  BY <1>1, <1>2
<1> HIDE DEF n, f, g, total
<1>14. ASSUME NEW i \in 1..n, DOMAIN found' = 1..n, discarded' = discarded,
              Absorbs(found[i], found'[i], log),
              \A j \in (1..n) \ {i} : Carried(found[j], found'[j], log)
       PROVE  Accounts'
  <2>1. \A j \in DOMAIN found' : found'[j].attached /\ Placed(found[j])' /\ Len(found'[j].id) > 0
    BY <1>8, <1>14
  <2>2. \A j, k \in DOMAIN found' : found'[j].id = found'[k].id => j = k
    BY <1>17, <1>3, <1>8, <1>14 DEF Accounts
  <2>3. g[i] = f[i] + 1 /\ \A j \in (1..n) \ {i} : g[j] = f[j]
    BY <1>10, <1>11, <1>14 DEF Absorbs, Carried
  <2>4. SumOf(g, 1..n) = SumOf(f, 1..n) + 1 /\ SumOf(f, 1..n) \in Int
    BY <1>17, <1>10, <2>3, CountsFollow
  <2>7. discarded' = discarded
    BY <1>14
  <2>5. SumOf(g, 1..n) + discarded' = parsed'
    BY <1>17, <1>12, <2>4, <2>7
  <2>6. (SumOf(CountsOf(found), DOMAIN found) + discarded = parsed)'
    BY <1>13, <1>14, <2>5
  <2> QED BY <2>1, <2>2, <2>6 DEF Accounts
<1>15. ASSUME DOMAIN found' = 1..n, discarded' = discarded + 1,
              \A j \in 1..n : Carried(found[j], found'[j], log)
       PROVE  Accounts'
  <2>1. \A j \in DOMAIN found' : found'[j].attached /\ Placed(found[j])' /\ Len(found'[j].id) > 0
    BY <1>8, <1>15
  <2>2. \A j, k \in DOMAIN found' : found'[j].id = found'[k].id => j = k
    BY <1>17, <1>3, <1>8, <1>15 DEF Accounts
  <2>3. \A j \in 1..n : g[j] = f[j]
    BY <1>10, <1>11, <1>15 DEF Carried
  <2>4. SumOf(g, 1..n) = SumOf(f, 1..n) /\ SumOf(f, 1..n) \in Int
    BY <1>17, <1>10, <2>3, CountsFollow
  <2>7. discarded' = discarded + 1
    BY <1>15
  <2>5. SumOf(g, 1..n) + discarded' = parsed'
    BY <1>17, <1>12, <2>4, <2>7
  <2>6. (SumOf(CountsOf(found), DOMAIN found) + discarded = parsed)'
    BY <1>13, <1>15, <2>5
  <2> QED BY <2>1, <2>2, <2>6 DEF Accounts
<1>16. ASSUME Overflows(log) \/ Best(log, Navigate(log).path) = {},
              DOMAIN found' = 1..(n + 1), discarded' = discarded, found'[n + 1] = NewPattern(log),
              \A j \in 1..n : Carried(found[j], found'[j], log)
       PROVE  Accounts'
  <2>0. \A j \in 1..(n + 1) : j \in 1..n \/ j = n + 1
    BY <1>17
  <2>1. \A j \in DOMAIN found' : found'[j].attached /\ Placed(found[j])' /\ Len(found'[j].id) > 0
    BY <1>8, <1>9, <1>16, <2>0
  <2>2. \A j, k \in DOMAIN found' : found'[j].id = found'[k].id => j = k
    <3>1. \A j \in 1..n : found'[j].id # Template(log)
      BY <1>17, <1>2, <1>3, <1>8, <1>16, NewTemplate
    <3>2. found'[n + 1].id = Template(log)
      BY <1>16 DEF NewPattern
    <3>3. \A j, k \in 1..n : found'[j].id = found'[k].id => j = k
      BY <1>17, <1>3, <1>8 DEF Accounts
    <3> QED BY <3>1, <3>2, <3>3, <2>0, <1>16
  <2>3. g[n + 1] = 1 /\ \A j \in 1..n : g[j] = f[j]
    <3>1. n + 1 \in DOMAIN found' /\ \A j \in 1..n : j \in DOMAIN found'
      BY <1>17, <1>16
    <3>2. found'[n + 1].count = 1
      BY <1>16 DEF NewPattern
    <3> QED BY <3>1, <3>2, <1>10, <1>11, <1>16 DEF Carried
  <2>4. SumOf(g, 1..(n + 1)) = SumOf(f, 1..n) + 1 /\ SumOf(f, 1..n) \in Int
    BY <1>17, <1>10, <2>3, CountsFollow
  <2>7. discarded' = discarded
    BY <1>16
  <2>5. SumOf(g, 1..(n + 1)) + discarded' = parsed'
    BY <1>17, <1>12, <2>4, <2>7
  <2>6. (SumOf(CountsOf(found), DOMAIN found) + discarded = parsed)'
    BY <1>13, <1>16, <2>5
  <2> QED BY <2>1, <2>2, <2>6 DEF Accounts
<1> QED BY <1>1, <1>14, <1>15, <1>16

LEMMA InitDrain == DrainInit => DrainTree /\ DrainAccounts
<1> SUFFICES ASSUME DrainInit
             PROVE  DrainTree /\ DrainAccounts
  OBVIOUS
<1>1. nodes = {<<>>} /\ found = <<>> /\ parsed = 0 /\ discarded = 0 /\ resets = 0
  BY DEF DrainInit
<1>2. DOMAIN found = {}
  BY <1>1
<1>3. Tree(nodes) /\ OtherRooted(nodes)
  <2>1. IsFiniteSet(nodes)
    BY <1>1, FS_Singleton
  <2>2. \A p \in nodes : p = <<>>
    BY <1>1
  <2>3. ~TreePath(<<>>)
    BY DEF TreePath
  <2> QED BY <2>1, <2>2, <2>3 DEF Tree, OtherRooted
<1>4. parsed \in 0..MaxParsed /\ discarded \in 0..parsed /\ resets \in 0..parsed
  BY <1>1, DrainFacts
<1>5. SumOf(CountsOf(found), DOMAIN found) = 0
  BY <1>2, SumOfNothing
<1> QED BY <1>1, <1>2, <1>3, <1>4, <1>5 DEF DrainTree, DrainAccounts, Accounts

(* When no two patterns have the same template, get_patterns() shows all.  *)
LEMMA TemplatesAreCounted ==
  ASSUME DrainTree, Accounts, NEW paths, found \in Seq(PatternsIn(paths))
  PROVE  MapThenSumSet(LAMBDA id : found[Current(id)].count, Ids)
           = SumOf(CountsOf(found), DOMAIN found)
<1> DEFINE S == DOMAIN found
           f == CountsOf(found)
           K == Ids
           key == [i \in S |-> found[i].id]
           counted == [id \in K |-> found[Current(id)].count]
           group == [k \in K |-> SumOf(f, {x \in S : key[x] = k})]
           P(sum) == sum = [s \in SUBSET K |-> IF s = {} THEN 0
                              ELSE found[Current(CHOOSE k \in s : TRUE)].count
                                   + sum[s \ {CHOOSE k \in s : TRUE}]]
<1>1. MapThenSumSet(LAMBDA id : found[Current(id)].count, K) = (CHOOSE sum : P(sum))[K]
  BY DEF MapThenSumSet, MapThenFoldSet
<1>2. IsFiniteSet(S) /\ \A i \in S : f[i] = found[i].count /\ f[i] \in Int
  <2>1. S = 1..Len(found) /\ Len(found) \in Nat
    OBVIOUS
  <2>2. IsFiniteSet(S)
    BY <2>1, FS_Interval
  <2>3. \A i \in S : found[i] \in PatternsIn(paths)
    OBVIOUS
  <2>4. \A i \in S : found[i].count \in Int
    BY <2>3 DEF PatternsIn
  <2> QED BY <2>2, <2>4 DEF CountsOf
<1>3. \A i \in S : key[i] = found[i].id
  OBVIOUS
<1> HIDE DEF key
<1>4. K = {key[i] : i \in S}
  BY <1>3 DEF Ids
<1>5. IsFiniteSet(K) /\ \A i \in S : key[i] \in K
  BY <1>2, <1>4, ImageIsFinite
<1>6. ASSUME NEW k \in K
      PROVE  /\ Current(k) \in S
             /\ {x \in S : key[x] = k} = {Current(k)}
  <2>1. PICK i \in S : found[i].id = k
    BY <1>3, <1>4
  <2>2. \A j \in S : found[j].id = k => j = i
    BY <2>1 DEF Accounts
  <2>3. i \in Nat
    OBVIOUS
  <2>4. /\ found[i].id = k /\ \A j \in DOMAIN found : found[j].id = k => j <= i
    BY <2>1, <2>2, <2>3
  <2>5. Current(k) \in DOMAIN found /\ found[Current(k)].id = k
    BY <2>1, <2>4 DEF Current
  <2>6. Current(k) = i
    BY <2>2, <2>5
  <2> QED BY <1>3, <2>1, <2>2, <2>6
<1> HIDE DEF S, f, K
<1>7. \A k \in K : counted[k] = f[Current(k)] /\ counted[k] \in Int
  BY <1>2, <1>6
<1>8. \A k \in K : SumOf(f, {x \in S : key[x] = k}) = f[Current(k)]
  <2> SUFFICES ASSUME NEW k \in K
               PROVE  SumOf(f, {x \in S : key[x] = k}) = f[Current(k)]
    OBVIOUS
  <2> DEFINE c == Current(k)
  <2>1. {x \in S : key[x] = k} = {c} /\ c \in S
    BY <1>6
  <2> HIDE DEF c
  <2>2. SumOf(f, {} \union {c}) = f[c] + SumOf(f, {})
    <3>1. IsFiniteSet({}) /\ c \notin {} /\ \A y \in {} \union {c} : f[y] \in Int
      BY <1>2, <2>1, FS_EmptySet
    <3> QED BY <3>1, SumPutIn
  <2>3. {} \union {c} = {c}
    OBVIOUS
  <2>4. SumOf(f, {c}) = f[c]
    BY <2>2, <2>3, <2>1, <1>2, SumOfNothing
  <2> QED BY <2>1, <2>4 DEF c
<1>9. SumOf(group, K) = SumOf(f, S)
  BY <1>2, <1>5, SumOfGroups
<1>10. \A k \in K : group[k] = f[Current(k)]
  BY <1>8
<1> HIDE DEF counted, group
<1>11. SumOf(counted, K) = SumOf(group, K)
  BY <1>5, <1>7, <1>10, SumAgrees
<1>12. ASSUME NEW sum PROVE P(sum) <=> SumsUp(counted, K, sum)
  <2>1. \A s \in SUBSET K : s # {} => counted[CHOOSE k \in s : TRUE] = found[Current(CHOOSE k \in s : TRUE)].count
    <3> SUFFICES ASSUME NEW s \in SUBSET K, s # {}
                 PROVE  counted[CHOOSE k \in s : TRUE] = found[Current(CHOOSE k \in s : TRUE)].count
      OBVIOUS
    <3>1. (CHOOSE k \in s : TRUE) \in K
      OBVIOUS
    <3> QED BY <3>1 DEF counted
  <2> DEFINE listed == [s \in SUBSET K |->
                          IF s = {} THEN 0
                          ELSE found[Current(CHOOSE k \in s : TRUE)].count
                               + sum[s \ {CHOOSE k \in s : TRUE}]]
             summed == [s \in SUBSET K |->
                          IF s = {} THEN 0
                          ELSE counted[CHOOSE k \in s : TRUE] + sum[s \ {CHOOSE k \in s : TRUE}]]
  <2>2. \A s \in SUBSET K : listed[s] = summed[s]
    BY <2>1
  <2>3. listed = summed
    <3>1. listed = [s \in SUBSET K |-> listed[s]] /\ summed = [s \in SUBSET K |-> summed[s]]
      OBVIOUS
    <3> HIDE DEF listed, summed
    <3> QED BY <2>2, <3>1
  <2>4. P(sum) <=> sum = listed
    BY Zenon
  <2>5. SumsUp(counted, K, sum) <=> sum = summed
    BY Zenon DEF SumsUp
  <2> HIDE DEF P, listed, summed
  <2> QED BY <2>3, <2>4, <2>5
<1> HIDE DEF P
<1>13. PICK total : SumsUp(counted, K, total)
  BY <1>5, <1>7, SumExists
<1>14. P(CHOOSE g : P(g))
  BY <1>12, <1>13
<1>15. MapThenSumSet(LAMBDA id : found[Current(id)].count, K) = SumOf(counted, K)
  BY <1>1, <1>5, <1>7, <1>12, <1>14, SumIs
<1>16. MapThenSumSet(LAMBDA id : found[Current(id)].count, K) = SumOf(f, S)
  BY <1>9, <1>11, <1>15
<1> QED BY <1>16 DEF K, f, S

LEMMA DrainIsTyped == DrainIInv /\ DrainTree => DrainTypeOK
<1> SUFFICES ASSUME DrainIInv, DrainTree
             PROVE  DrainTypeOK
  OBVIOUS
<1>1. PICK paths : found \in Seq(PatternsIn(paths))
  BY DEF DrainIInv
<1>2. \A i \in DOMAIN found : found[i] \in PatternsIn(paths)
  BY <1>1
<1>3. ASSUME NEW i \in DOMAIN found
      PROVE  /\ found[i].id \in Seq(STRING) /\ found[i].tokens \in Seq(STRING)
             /\ found[i].attached => found[i].path \in nodes
             /\ found[i].count \in 1..parsed /\ found[i].lines \in SUBSET Logs
  <2>1. found[i].id \in Seq(Tokens) /\ found[i].tokens \in Seq(Tokens) /\ found[i].lines \in SUBSET Logs
    BY <1>2 DEF PatternsIn
  <2>2. Sound(found[i])
    BY DEF DrainTree
  <2> QED BY <2>1, <2>2, DrainFacts DEF Sound
<1>4. \A p \in nodes : p = <<>> \/ (Head(p) \in Nat /\ Tail(p) \in Seq(STRING))
  BY DEF DrainTree, Tree, TreePath
<1> QED BY <1>3, <1>4 DEF DrainTypeOK, DrainTree

(* For any lines and limits of the tree: a template matches every line its *)
(* pattern absorbed, however often it was widened (patterns.py 160-200),   *)
(* and as long as the branch of other lengths was not replaced a line of a *)
(* template known already finds its pattern again, so that the counts of   *)
(* get_patterns() and the lines without room are all the lines.            *)
THEOREM TemplatesStayTrue == DrainSpec => []TemplatesStandForTheirLines
<1> DEFINE IInv == DrainIInv /\ DrainTree /\ DrainAccounts
<1>1. DrainInit => IInv
  <2>1. DrainInit => DrainIInv
    BY DEF DrainInit, DrainIInv, TemplatesMatch
  <2> QED BY <2>1, InitDrain
<1>2. IInv /\ [DrainNext]_drainVars => IInv'
  <2> SUFFICES ASSUME IInv, [DrainNext]_drainVars
               PROVE  IInv'
    OBVIOUS
  <2>1. CASE UNCHANGED drainVars
    <3>1. DrainIInv'
      BY <2>1 DEF drainVars, DrainIInv, TemplatesMatch
    <3>2. DrainTree'
      BY <2>1 DEF drainVars, DrainTree, Sound
    <3>3. DrainAccounts'
      <4>1. UNCHANGED <<nodes, found, parsed, discarded, resets>>
        BY <2>1 DEF drainVars
      <4>2. ASSUME NEW i, Placed(found[i]) PROVE Placed(found[i])'
        BY <4>1, <4>2 DEF Placed, LedTo, Full, Children
      <4>3. (SumOf(CountsOf(found), DOMAIN found) + discarded = parsed)'
              <=> SumOf(CountsOf(found), DOMAIN found) + discarded = parsed
        BY <4>1
      <4> QED BY <4>1, <4>2, <4>3 DEF DrainAccounts, Accounts
    <3> QED BY <3>1, <3>2, <3>3
  <2>2. ASSUME NEW log \in Logs, Parse(log) PROVE IInv'
    <3>1. PICK paths : found \in Seq(PatternsIn(paths))
      BY DEF DrainIInv
    <3> QED BY <2>2, <3>1, ParseKeeps, TreeGrows, AccountsGrow
  <2> QED BY <2>1, <2>2 DEF DrainNext
<1>3. IInv => TemplatesStandForTheirLines
  <2> SUFFICES ASSUME IInv
               PROVE  TemplatesStandForTheirLines
    OBVIOUS
  <2>1. DrainTypeOK /\ TemplatesMatch
    BY DrainIsTyped DEF DrainIInv
  <2>2. ASSUME resets = 0
        PROVE  MapThenSumSet(LAMBDA id : found[Current(id)].count, Ids) + discarded = parsed
    <3>1. PICK paths : found \in Seq(PatternsIn(paths))
      BY DEF DrainIInv
    <3>2. Accounts
      BY <2>2 DEF DrainAccounts
    <3>3. MapThenSumSet(LAMBDA id : found[Current(id)].count, Ids)
            = SumOf(CountsOf(found), DOMAIN found)
      BY <3>1, <3>2, TemplatesAreCounted
    <3>4. SumOf(CountsOf(found), DOMAIN found) + discarded = parsed
      BY <3>2 DEF Accounts
    <3> QED BY <3>3, <3>4
  <2> QED BY <2>1, <2>2 DEF TemplatesStandForTheirLines
<1> HIDE DEF IInv
<1> QED BY <1>1, <1>2, <1>3, PTL DEF DrainSpec

-----------------------------------------------------------------------------
(* Pages.  What the tables hold.                                           *)
LogRow == [service : DataServices, lines : Batches, at : Nat]
SpanRow == [service : DataServices, parent : Nat, error : BOOLEAN, latency : Latencies, at : Nat]
DataTyped ==
  /\ hours \in Nat
  /\ logRows \in Seq(LogRow)
  /\ spanRows \in Seq(SpanRow)

(* The lines of some severities, by row.                                   *)
LinesAt(kinds) == [i \in DOMAIN logRows |-> SumOf(logRows[i].lines, kinds \cap Severities)]

LEMMA SeveritiesFinite == IsFiniteSet(Severities)
<1> DEFINE f == [k \in 1..5 |-> CASE k = 1 -> "DEBUG" [] k = 2 -> "INFO" [] k = 3 -> "WARN"
                                  [] k = 4 -> "ERROR" [] k = 5 -> "FATAL"]
<1>0. \A n \in Nat : IsFiniteSet(1..n)
  BY FS_Interval
<1>1. IsFiniteSet(1..5)
  BY <1>0
<1>2. Severities = {f[k] : k \in 1..5}
  <2>1. f[1] = "DEBUG" /\ f[2] = "INFO" /\ f[3] = "WARN" /\ f[4] = "ERROR" /\ f[5] = "FATAL"
    OBVIOUS
  <2>2. 1..5 = {1, 2, 3, 4, 5}
    OBVIOUS
  <2> HIDE DEF f
  <2> QED BY <2>1, <2>2 DEF Severities
<1> HIDE DEF f
<1> QED BY <1>1, <1>2, ImageIsFinite

LEMMA RowFacts ==
  ASSUME DataTyped
  PROVE  /\ DOMAIN logRows = 1..Len(logRows) /\ Len(logRows) \in Nat /\ IsFiniteSet(DOMAIN logRows)
         /\ DOMAIN spanRows = 1..Len(spanRows) /\ Len(spanRows) \in Nat /\ IsFiniteSet(DOMAIN spanRows)
         /\ \A i \in DOMAIN logRows : /\ logRows[i].service \in DataServices /\ logRows[i].at \in Nat
                                      /\ \A s \in Severities : logRows[i].lines[s] \in Nat
                                      /\ \E s \in Severities : logRows[i].lines[s] > 0
<1>1. DOMAIN logRows = 1..Len(logRows) /\ Len(logRows) \in Nat
  BY DEF DataTyped
<1>2. DOMAIN spanRows = 1..Len(spanRows) /\ Len(spanRows) \in Nat
  BY DEF DataTyped
<1>3. \A i \in DOMAIN logRows : logRows[i] \in LogRow
  BY <1>1 DEF DataTyped
<1>4. \A i \in DOMAIN logRows : /\ logRows[i].service \in DataServices /\ logRows[i].at \in Nat
                                /\ logRows[i].lines \in Batches
  BY <1>3 DEF LogRow
<1>5. \A n \in Nat : IsFiniteSet(1..n)
  BY FS_Interval
<1>6. \A b \in Batches : (\A s \in Severities : b[s] \in Nat) /\ \E s \in Severities : b[s] > 0
  BY DataAssumption DEF DataAssumption
<1>7. IsFiniteSet(DOMAIN logRows) /\ IsFiniteSet(DOMAIN spanRows)
  BY <1>1, <1>2, <1>5
<1> QED BY <1>1, <1>2, <1>4, <1>6, <1>7

LEMMA LinesFacts ==
  ASSUME DataTyped, NEW kinds
  PROVE  \A i \in DOMAIN logRows :
           /\ LinesAt(kinds)[i] = SumOf(logRows[i].lines, kinds \cap Severities)
           /\ LinesAt(kinds)[i] \in Nat
           /\ LinesAt(kinds)[i] <= LinesAt(Severities)[i]
<1> SUFFICES ASSUME NEW i \in DOMAIN logRows
             PROVE  /\ SumOf(logRows[i].lines, kinds \cap Severities) \in Nat
                    /\ SumOf(logRows[i].lines, kinds \cap Severities)
                         <= SumOf(logRows[i].lines, Severities \cap Severities)
  BY DEF LinesAt
<1>1. \A s \in Severities : logRows[i].lines[s] \in Nat
  BY RowFacts
<1>2. kinds \cap Severities \in SUBSET Severities /\ Severities \cap Severities = Severities
  OBVIOUS
<1>3. IsFiniteSet(kinds \cap Severities)
  BY <1>2, SeveritiesFinite, FS_Subset
<1> QED BY <1>1, <1>2, <1>3, SeveritiesFinite, SumOfNaturals

(* LinesOf as a sum of what each row has.                                  *)
LEMMA LinesAre ==
  DataTyped => \A rows \in SUBSET DOMAIN logRows : \A kinds : LinesOf(rows, kinds) = SumOf(LinesAt(kinds), rows)
<1> SUFFICES ASSUME DataTyped, NEW rows \in SUBSET DOMAIN logRows, NEW kinds
             PROVE  LinesOf(rows, kinds) = SumOf(LinesAt(kinds), rows)
  OBVIOUS
<1> DEFINE K == kinds \cap Severities
           Of(i) == MapThenSumSet(LAMBDA s : logRows[i].lines[s], K)
           P(sum) == sum = [s \in SUBSET rows |-> IF s = {} THEN 0
                              ELSE Of(CHOOSE x \in s : TRUE) + sum[s \ {CHOOSE x \in s : TRUE}]]
           f == [i \in rows |-> Of(i)]
<1>1. LinesOf(rows, kinds) = (CHOOSE sum : P(sum))[rows]
  BY DEF LinesOf, MapThenSumSet, MapThenFoldSet
<1>2. ASSUME NEW i \in DOMAIN logRows PROVE Of(i) = LinesAt(kinds)[i] /\ Of(i) \in Int
  <2> DEFINE lines == logRows[i].lines
             Q(sum) == sum = [s \in SUBSET K |-> IF s = {} THEN 0
                                ELSE lines[CHOOSE x \in s : TRUE] + sum[s \ {CHOOSE x \in s : TRUE}]]
  <2>1. Of(i) = (CHOOSE sum : Q(sum))[K]
    BY DEF MapThenSumSet, MapThenFoldSet
  <2>2. LinesAt(kinds)[i] = SumOf(lines, K) /\ LinesAt(kinds)[i] \in Nat
    BY LinesFacts
  <2>3. ASSUME NEW sum PROVE Q(sum) <=> SumsUp(lines, K, sum)
    BY DEF SumsUp
  <2> HIDE DEF Q, Of
  <2>4. (CHOOSE sum : Q(sum)) = (CHOOSE sum : SumsUp(lines, K, sum))
    BY <2>3
  <2>5. SumOf(lines, K) = (CHOOSE sum : SumsUp(lines, K, sum))[K]
    BY Zenon DEF SumOf
  <2>6. Of(i) = SumOf(lines, K)
    BY Zenon, <2>1, <2>4, <2>5
  <2> HIDE DEF lines, K
  <2> QED BY <2>2, <2>6
<1> HIDE DEF Of
<1>3. ASSUME NEW sum PROVE P(sum) <=> SumsUp(f, rows, sum)
  BY DEF SumsUp
<1>4. (CHOOSE sum : P(sum)) = (CHOOSE sum : SumsUp(f, rows, sum))
  <2> HIDE DEF P, f
  <2> QED BY <1>3
<1>5. IsFiniteSet(rows)
  BY RowFacts, FS_Subset
<1>6. \A i \in rows : LinesAt(kinds)[i] \in Int /\ LinesAt(kinds)[i] = f[i]
  BY <1>2
<1> HIDE DEF P, f
<1>7. SumOf(f, rows) = SumOf(LinesAt(kinds), rows)
  BY <1>5, <1>6, SumAgrees
<1> QED BY <1>1, <1>4, <1>7 DEF SumOf

(* Counts of lines are numbers; more rows and more severities have more.   *)
LEMMA LinesBounds ==
  DataTyped =>
    \A rows \in SUBSET DOMAIN logRows : \A kinds :
      /\ IsFiniteSet(rows)
      /\ LinesOf(rows, kinds) \in Nat
      /\ LinesOf(rows, kinds) <= LinesOf(rows, Severities)
      /\ \A some \in SUBSET rows : LinesOf(some, kinds) <= LinesOf(rows, kinds)
      /\ rows # {} => LinesOf(rows, Severities) > 0
<1> SUFFICES ASSUME DataTyped, NEW rows \in SUBSET DOMAIN logRows, NEW kinds
             PROVE  /\ IsFiniteSet(rows)
                    /\ LinesOf(rows, kinds) \in Nat
                    /\ LinesOf(rows, kinds) <= LinesOf(rows, Severities)
                    /\ \A some \in SUBSET rows : LinesOf(some, kinds) <= LinesOf(rows, kinds)
                    /\ rows # {} => LinesOf(rows, Severities) > 0
  OBVIOUS
<1>1. IsFiniteSet(rows)
  BY RowFacts, FS_Subset
<1>2. \A i \in rows : /\ LinesAt(kinds)[i] \in Nat /\ LinesAt(Severities)[i] \in Nat
                      /\ LinesAt(kinds)[i] <= LinesAt(Severities)[i]
  BY LinesFacts
<1>3. /\ LinesOf(rows, kinds) = SumOf(LinesAt(kinds), rows)
      /\ LinesOf(rows, Severities) = SumOf(LinesAt(Severities), rows)
      /\ \A some \in SUBSET rows : LinesOf(some, kinds) = SumOf(LinesAt(kinds), some)
  BY LinesAre
<1>4. SumOf(LinesAt(kinds), rows) <= SumOf(LinesAt(Severities), rows)
  BY <1>1, <1>2, SumAtMost
<1>5. /\ SumOf(LinesAt(kinds), rows) \in Nat
      /\ \A some \in SUBSET rows : SumOf(LinesAt(kinds), some) <= SumOf(LinesAt(kinds), rows)
  BY <1>1, <1>2, SumOfNaturals
<1>6. ASSUME NEW i \in rows PROVE SumOf(LinesAt(Severities), rows) > 0
  <2>1. PICK s \in Severities : logRows[i].lines[s] > 0
    BY RowFacts
  <2>2. \A t \in Severities : logRows[i].lines[t] \in Nat
    BY RowFacts
  <2>3. logRows[i].lines[s] <= SumOf(logRows[i].lines, Severities)
    BY <2>2, SeveritiesFinite, SumOfNaturals
  <2>4. Severities \cap Severities = Severities
    OBVIOUS
  <2>5. LinesAt(Severities)[i] = SumOf(logRows[i].lines, Severities)
    BY <2>4, LinesFacts
  <2>6. LinesAt(Severities)[i] <= SumOf(LinesAt(Severities), rows)
    BY <1>1, <1>2, SumOfNaturals
  <2>7. SumOf(LinesAt(Severities), rows) \in Nat /\ LinesAt(Severities)[i] \in Nat
    BY <1>1, <1>2, SumOfNaturals
  <2> QED BY <2>1, <2>2, <2>3, <2>5, <2>6, <2>7
<1> QED BY <1>1, <1>3, <1>4, <1>5, <1>6

(* Services add up to the rows they are of.                                *)
LEMMA LinesByService ==
  ASSUME DataTyped, NEW rows \in SUBSET DOMAIN logRows, NEW kinds
  PROVE  /\ IsFiniteSet(LogServicesOf(rows))
         /\ SumOf([s \in LogServicesOf(rows) |-> LinesOf(OfService(rows, s), kinds)], LogServicesOf(rows))
              = LinesOf(rows, kinds)
<1> DEFINE K == LogServicesOf(rows)
           key == [i \in rows |-> logRows[i].service]
           f == LinesAt(kinds)
           group == [s \in K |-> SumOf(f, {i \in rows : key[i] = s})]
           mine == [s \in K |-> LinesOf(OfService(rows, s), kinds)]
<1>0. IsFiniteSet(rows)
  BY RowFacts, FS_Subset
<1>1. \A i \in rows : f[i] \in Int
  <2>1. \A i \in DOMAIN logRows : LinesAt(kinds)[i] \in Nat
    BY LinesFacts
  <2> QED BY <2>1
<1>2. K = {key[i] : i \in rows} /\ \A i \in rows : key[i] = logRows[i].service /\ key[i] \in K
  BY DEF LogServicesOf
<1>3. IsFiniteSet(K)
  <2> HIDE DEF K, key
  <2> QED BY <1>0, <1>2, ImageIsFinite
<1>4. ASSUME NEW s \in K PROVE mine[s] = group[s]
  <2>1. OfService(rows, s) \in SUBSET DOMAIN logRows
    BY DEF OfService
  <2>2. {i \in rows : key[i] = s} = OfService(rows, s)
    BY <1>2 DEF OfService
  <2>3. LinesOf(OfService(rows, s), kinds) = SumOf(f, OfService(rows, s))
    BY <2>1, LinesAre
  <2> QED BY <2>2, <2>3
<1>5. mine = group
  <2>1. DOMAIN mine = K /\ DOMAIN group = K
    OBVIOUS
  <2>2. mine = [s \in K |-> mine[s]] /\ group = [s \in K |-> group[s]]
    OBVIOUS
  <2> HIDE DEF mine, group
  <2> QED BY <1>4, <2>2
<1>6. SumOf(group, K) = SumOf(f, rows)
  <2> HIDE DEF K, key, f
  <2> QED BY <1>0, <1>1, <1>2, <1>3, SumOfGroups
<1>7. LinesOf(rows, kinds) = SumOf(f, rows)
  BY LinesAre
<1> HIDE DEF group, f
<1> QED BY <1>3, <1>5, <1>6, <1>7

(* A list with one entry for each service adds up to its lines.            *)
LEMMA LinesListed ==
  ASSUME NEW R, IsFiniteSet(R), \A r \in R : r.lines \in Int
  PROVE  MapThenSumSet(LAMBDA s : s.lines, R) = SumOf([r \in R |-> r.lines], R)
<1> DEFINE f == [r \in R |-> r.lines]
           P(sum) == sum = [s \in SUBSET R |-> IF s = {} THEN 0
                              ELSE (CHOOSE x \in s : TRUE).lines + sum[s \ {CHOOSE x \in s : TRUE}]]
<1>1. MapThenSumSet(LAMBDA s : s.lines, R) = (CHOOSE sum : P(sum))[R]
  BY DEF MapThenSumSet, MapThenFoldSet
<1>2. ASSUME NEW sum PROVE P(sum) <=> SumsUp(f, R, sum)
  BY DEF SumsUp
<1> HIDE DEF P, f
<1>3. (CHOOSE sum : P(sum)) = (CHOOSE sum : SumsUp(f, R, sum))
  BY <1>2
<1>4. SumOf(f, R) = (CHOOSE sum : SumsUp(f, R, sum))[R]
  BY Zenon DEF SumOf
<1>5. MapThenSumSet(LAMBDA s : s.lines, R) = SumOf(f, R)
  BY Zenon, <1>1, <1>3, <1>4
<1> QED BY <1>5 DEF f

LEMMA ErrorsListed ==
  ASSUME NEW R, IsFiniteSet(R), \A r \in R : r.errors \in Int
  PROVE  MapThenSumSet(LAMBDA s : s.errors, R) = SumOf([r \in R |-> r.errors], R)
<1> DEFINE f == [r \in R |-> r.errors]
           P(sum) == sum = [s \in SUBSET R |-> IF s = {} THEN 0
                              ELSE (CHOOSE x \in s : TRUE).errors + sum[s \ {CHOOSE x \in s : TRUE}]]
<1>1. MapThenSumSet(LAMBDA s : s.errors, R) = (CHOOSE sum : P(sum))[R]
  BY DEF MapThenSumSet, MapThenFoldSet
<1>2. ASSUME NEW sum PROVE P(sum) <=> SumsUp(f, R, sum)
  BY DEF SumsUp
<1> HIDE DEF P, f
<1>3. (CHOOSE sum : P(sum)) = (CHOOSE sum : SumsUp(f, R, sum))
  BY <1>2
<1>4. SumOf(f, R) = (CHOOSE sum : SumsUp(f, R, sum))[R]
  BY Zenon DEF SumOf
<1>5. MapThenSumSet(LAMBDA s : s.errors, R) = SumOf(f, R)
  BY Zenon, <1>1, <1>3, <1>4
<1> QED BY <1>5 DEF f

LEMMA ListsAddUp ==
  ASSUME DataTyped
  PROVE  /\ LogStats.total = MapThenSumSet(LAMBDA s : s.lines, LogServices)
         /\ \A listing \in TopServices :
              /\ ErrorsOnList(listing) <= LogStats.errors
              /\ Cardinality(listing) = TotalServices => ErrorsOnList(listing) = LogStats.errors
         /\ TotalServices = Cardinality(LogServices)
<1> DEFINE rows == LogsSince(Day)
           K == LogServicesOf(rows)
           count(kinds) == [s \in K |-> LinesOf(OfService(rows, s), kinds)]
           entry == [s \in K |-> [service |-> s, lines |-> LinesOf(OfService(rows, s), Severities)]]
           top == [s \in K |-> [service |-> s, lines |-> LinesOf(OfService(rows, s), Severities),
                                errors |-> LinesOf(OfService(rows, s), ErrorSeverities)]]
<1>1. rows \in SUBSET DOMAIN logRows
  BY DEF LogsSince
<1>2. LogServices = {entry[s] : s \in K} /\ ServiceTotals = {top[s] : s \in K}
  BY DEF LogServices, ServiceTotals
<1>3. /\ IsFiniteSet(K)
      /\ SumOf(count(Severities), K) = LinesOf(rows, Severities)
      /\ SumOf(count(ErrorSeverities), K) = LinesOf(rows, ErrorSeverities)
  BY <1>1, LinesByService
<1>4. ASSUME NEW s \in K, NEW kinds PROVE count(kinds)[s] \in Nat
  <2>1. OfService(rows, s) \in SUBSET DOMAIN logRows
    BY <1>1 DEF OfService
  <2> QED BY <2>1, LinesBounds
<1>5. \A s \in K : /\ entry[s].service = s /\ entry[s].lines = count(Severities)[s]
                   /\ top[s].service = s /\ top[s].errors = count(ErrorSeverities)[s]
  OBVIOUS
<1>6. \A s \in K : count(Severities)[s] \in Nat /\ count(ErrorSeverities)[s] \in Nat
  BY <1>4
<1>6a. \A s \in K : entry[s].lines \in Int /\ top[s].errors \in Int
  <2> HIDE DEF K, count, entry, top
  <2> QED BY <1>5, <1>6
<1>7. LogStats.total = LinesOf(rows, Severities) /\ LogStats.errors = LinesOf(rows, ErrorSeverities)
  BY DEF LogStats
<1>8. TotalServices = Cardinality(K)
  BY DEF TotalServices
<1>9. DOMAIN count(Severities) = K /\ DOMAIN count(ErrorSeverities) = K
  OBVIOUS
<1> HIDE DEF K, rows, count, entry, top
<1>10. IsFiniteSet(LogServices) /\ IsFiniteSet(ServiceTotals)
  BY <1>2, <1>3, ImageIsFinite
<1>11. MapThenSumSet(LAMBDA s : s.lines, LogServices) = SumOf(count(Severities), K)
  <2> DEFINE f == [r \in LogServices |-> r.lines]
             again == [s \in K |-> f[entry[s]]]
  <2>1. \A r \in LogServices : r.lines \in Int
    BY <1>2, <1>6a
  <2>2. MapThenSumSet(LAMBDA s : s.lines, LogServices) = SumOf(f, LogServices)
    BY <1>10, <2>1, LinesListed
  <2>3. \A x, y \in K : entry[x] = entry[y] => x = y
    BY <1>5
  <2>4. \A s \in K : entry[s] \in LogServices /\ f[entry[s]] = entry[s].lines
    BY <1>2
  <2>5. \A s \in K : f[entry[s]] \in Int /\ again[s] = count(Severities)[s]
    BY <1>5, <1>6, <2>4
  <2> HIDE DEF f
  <2>6. SumOf(f, LogServices) = SumOf(again, K)
    BY <1>2, <1>3, <2>3, <2>5, SumReindexed
  <2>7. \A s \in K : again[s] \in Int
    BY <2>5
  <2> HIDE DEF again
  <2>8. SumOf(again, K) = SumOf(count(Severities), K)
    BY <1>3, <2>5, <2>7, SumAgrees
  <2> QED BY <2>2, <2>6, <2>8
<1>12. Cardinality(K) = Cardinality(ServiceTotals)
  <2>1. top \in Bijection(K, ServiceTotals)
    <3>1. top \in [K -> ServiceTotals]
      BY <1>2 DEF top
    <3>2. \A x, y \in K : top[x] = top[y] => x = y
      BY <1>5
    <3>3. \A r \in ServiceTotals : \E s \in K : top[s] = r
      BY <1>2
    <3> QED BY <3>1, <3>2, <3>3 DEF Bijection, Injection, Surjection, IsInjective
  <2>2. ExistsBijection(K, ServiceTotals)
    BY <2>1 DEF ExistsBijection
  <2> QED BY <1>3, <2>2, FS_Bijection
<1>12a. ASSUME NEW listing \in TopServices
        PROVE  /\ ErrorsOnList(listing) <= LogStats.errors
               /\ Cardinality(listing) = TotalServices => ErrorsOnList(listing) = LogStats.errors
  <2> DEFINE listed == {s \in K : top[s] \in listing}
             f == [r \in listing |-> r.errors]
             again == [s \in listed |-> f[top[s]]]
  <2>1. listing \in SUBSET ServiceTotals
    BY Zenon DEF TopServices
  <2>2. IsFiniteSet(listing) /\ (Cardinality(ServiceTotals) = Cardinality(listing) => ServiceTotals = listing)
    BY <1>10, <2>1, FS_Subset
  <2>3. listing = {top[s] : s \in listed} /\ listed \in SUBSET K
    BY <1>2, <2>1
  <2>4. IsFiniteSet(listed)
    BY <1>3, <2>3, FS_Subset
  <2>5. \A r \in listing : r.errors \in Int
    BY <1>2, <1>6a, <2>1
  <2>6. ErrorsOnList(listing) = SumOf(f, listing)
    BY <2>2, <2>5, ErrorsListed DEF ErrorsOnList
  <2>7. \A s \in listed : top[s] \in listing /\ f[top[s]] = top[s].errors
    OBVIOUS
  <2>8. \A s \in listed : f[top[s]] \in Int /\ again[s] = count(ErrorSeverities)[s] /\ again[s] \in Int
    BY <1>5, <1>6, <2>3, <2>7
  <2>9. \A x, y \in listed : top[x] = top[y] => x = y
    BY <1>5, <2>3
  <2>9a. (Cardinality(listing) = TotalServices) => listed = K
    BY <1>2, <1>8, <1>12, <2>2
  <2> HIDE DEF f
  <2>10. SumOf(f, listing) = SumOf(again, listed)
    <3> HIDE DEF listed
    <3> QED BY <2>3, <2>4, <2>8, <2>9, SumReindexed
  <2> HIDE DEF again, listed
  <2>11. SumOf(again, listed) = SumOf(count(ErrorSeverities), listed)
    BY <2>4, <2>8, SumAgrees
  <2>12. SumOf(count(ErrorSeverities), listed) <= SumOf(count(ErrorSeverities), K)
    BY <1>3, <1>6, <2>3, SumOfNaturals
  <2>13. /\ ErrorsOnList(listing) = SumOf(count(ErrorSeverities), listed)
         /\ LogStats.errors = SumOf(count(ErrorSeverities), K)
    BY Zenon, <1>3, <1>7, <2>6, <2>10, <2>11
  <2> QED BY <2>9a, <2>12, <2>13
<1>13. Cardinality(K) = Cardinality(LogServices)
  <2>1. entry \in Bijection(K, LogServices)
    <3>1. entry \in [K -> LogServices]
      BY <1>2 DEF entry
    <3>2. \A x, y \in K : entry[x] = entry[y] => x = y
      BY <1>5
    <3>3. \A r \in LogServices : \E s \in K : entry[s] = r
      BY <1>2
    <3> QED BY <3>1, <3>2, <3>3 DEF Bijection, Injection, Surjection, IsInjective
  <2>2. ExistsBijection(K, LogServices)
    BY <2>1 DEF ExistsBijection
  <2> QED BY <1>3, <2>2, FS_Bijection
<1>14. LogStats.total = MapThenSumSet(LAMBDA s : s.lines, LogServices)
  BY Zenon, <1>3, <1>7, <1>11
<1>15. TotalServices = Cardinality(LogServices)
  BY Zenon, <1>8, <1>13
<1> QED BY <1>12a, <1>14, <1>15

(* The severities of the last day add up to its lines.                     *)
LEMMA SeveritiesAddUp ==
  ASSUME DataTyped
  PROVE  LogStats.total = MapThenSumSet(LAMBDA s : LogSeverities[s], Severities)
<1> DEFINE rows == LogsSince(Day)
           P(sum) == sum = [s \in SUBSET Severities |-> IF s = {} THEN 0
                              ELSE LogSeverities[CHOOSE x \in s : TRUE] + sum[s \ {CHOOSE x \in s : TRUE}]]
           f == [i \in rows |-> logRows[i].lines]
           col == [s \in Severities |-> SumOf([i \in rows |-> f[i][s]], rows)]
           row == [i \in rows |-> SumOf(f[i], Severities)]
<1>1. MapThenSumSet(LAMBDA s : LogSeverities[s], Severities) = (CHOOSE sum : P(sum))[Severities]
  BY DEF MapThenSumSet, MapThenFoldSet
<1>2. ASSUME NEW sum PROVE P(sum) <=> SumsUp(LogSeverities, Severities, sum)
  BY DEF SumsUp
<1>3. (CHOOSE sum : P(sum)) = (CHOOSE sum : SumsUp(LogSeverities, Severities, sum))
  <2> HIDE DEF P
  <2> QED BY <1>2
<1> HIDE DEF P
<1>4. SumOf(LogSeverities, Severities) = (CHOOSE sum : SumsUp(LogSeverities, Severities, sum))[Severities]
  BY Zenon DEF SumOf
<1>5. MapThenSumSet(LAMBDA s : LogSeverities[s], Severities) = SumOf(LogSeverities, Severities)
  BY Zenon, <1>1, <1>3, <1>4
<1>6. rows \in SUBSET DOMAIN logRows
  BY DEF LogsSince
<1>7. IsFiniteSet(rows) /\ LinesOf(rows, Severities) = SumOf(LinesAt(Severities), rows)
  BY <1>6, LinesAre, LinesBounds
<1>8. \A i \in rows : f[i] = logRows[i].lines /\ \A s \in Severities : f[i][s] \in Nat
  BY <1>6, RowFacts
<1>9. LogSeverities = [s \in Severities |-> LinesOf(rows, {s})]
  BY DEF LogSeverities
<1>10. LogStats.total = LinesOf(rows, Severities)
  BY DEF LogStats
<1> HIDE DEF rows, f
<1>11. SumOf(row, rows) = SumOf(col, Severities)
  <2>1. \A i \in rows : \A s \in Severities : f[i][s] \in Int
    BY <1>8
  <2> QED BY <1>7, <2>1, SeveritiesFinite, SumsSwapped
<1>12. SumOf(LinesAt(Severities), rows) = SumOf(row, rows)
  <2>1. \A i \in rows : LinesAt(Severities)[i] \in Int /\ LinesAt(Severities)[i] = row[i]
    <3> SUFFICES ASSUME NEW i \in rows PROVE LinesAt(Severities)[i] \in Int /\ LinesAt(Severities)[i] = row[i]
      OBVIOUS
    <3>1. i \in DOMAIN logRows /\ row[i] = SumOf(logRows[i].lines, Severities)
      BY <1>6, <1>8
    <3>2. Severities \cap Severities = Severities
      OBVIOUS
    <3> HIDE DEF row
    <3> QED BY <3>1, <3>2, LinesFacts
  <2> HIDE DEF row
  <2> QED BY <1>7, <2>1, SumAgrees
<1>13. ASSUME NEW s \in Severities PROVE LogSeverities[s] = col[s] /\ LogSeverities[s] \in Int
  <2> DEFINE g == [i \in rows |-> f[i][s]]
  <2>1. LogSeverities[s] = LinesOf(rows, {s}) /\ LinesOf(rows, {s}) \in Nat
    BY <1>6, <1>9, LinesBounds
  <2>2. LinesOf(rows, {s}) = SumOf(LinesAt({s}), rows)
    BY <1>6, LinesAre
  <2>3. col[s] = SumOf(g, rows)
    OBVIOUS
  <2>4. \A i \in rows : LinesAt({s})[i] \in Int /\ LinesAt({s})[i] = g[i]
    <3> SUFFICES ASSUME NEW i \in rows PROVE LinesAt({s})[i] \in Int /\ LinesAt({s})[i] = g[i]
      OBVIOUS
    <3>1. LinesAt({s})[i] = SumOf(logRows[i].lines, {s} \cap Severities) /\ LinesAt({s})[i] \in Nat
      BY <1>6, LinesFacts
    <3>2. {s} \cap Severities = {} \union {s} /\ s \notin {} /\ IsFiniteSet({})
      BY FS_EmptySet
    <3>3. \A t \in {} \union {s} : logRows[i].lines[t] \in Int
      BY <1>8
    <3>4. SumOf(logRows[i].lines, {} \union {s}) = logRows[i].lines[s] + SumOf(logRows[i].lines, {})
      BY <3>2, <3>3, SumPutIn
    <3>5. SumOf(logRows[i].lines, {}) = 0
      BY SumOfNothing
    <3>6. g[i] = logRows[i].lines[s] /\ logRows[i].lines[s] \in Nat
      BY <1>8
    <3>7. LinesAt({s})[i] = SumOf(logRows[i].lines, {} \union {s})
      BY Zenon, <3>1, <3>2
    <3> HIDE DEF g
    <3> QED BY <3>1, <3>4, <3>5, <3>6, <3>7
  <2> HIDE DEF g
  <2>5. SumOf(LinesAt({s}), rows) = SumOf(g, rows)
    BY <1>7, <2>4, SumAgrees
  <2> QED BY <2>1, <2>2, <2>3, <2>5
<1>14. SumOf(LogSeverities, Severities) = SumOf(col, Severities)
  <2> HIDE DEF col
  <2> QED BY <1>13, SeveritiesFinite, SumAgrees
<1> QED BY <1>5, <1>7, <1>10, <1>11, <1>12, <1>14

(* An error that was counted is on the list.                               *)
LEMMA CountedErrorsAreListed ==
  ASSUME DataTyped
  PROVE  LogStats.errors > 0 => RecentErrors # {}
<1> SUFFICES ASSUME RecentErrors = {} PROVE LogStats.errors = 0
  OBVIOUS
<1> DEFINE rows == LogsSince(Day)
           f == LinesAt(ErrorSeverities)
<1>1. rows \in SUBSET DOMAIN logRows
  BY DEF LogsSince
<1>2. IsFiniteSet(rows) /\ LinesOf(rows, ErrorSeverities) = SumOf(f, rows)
  BY <1>1, LinesAre, LinesBounds
<1>3. ASSUME NEW i \in rows PROVE f[i] = 0
  <2>1. {i} \in SUBSET DOMAIN logRows
    BY <1>1
  <2>2. LinesOf({i}, ErrorSeverities) = SumOf(f, {i}) /\ LinesOf({i}, ErrorSeverities) \in Nat
    BY <2>1, LinesAre, LinesBounds
  <2>3. ~ LinesOf({i}, ErrorSeverities) > 0
    BY <2>1 DEF RecentErrors
  <2>4. {i} = {} \union {i} /\ i \notin {} /\ IsFiniteSet({})
    BY FS_EmptySet
  <2>5. f[i] \in Nat
    BY <1>1, LinesFacts
  <2> HIDE DEF f
  <2>5a. \A y \in {} \union {i} : f[y] \in Int
    BY <2>5
  <2>6. SumOf(f, {} \union {i}) = f[i] + SumOf(f, {})
    BY <2>4, <2>5a, SumPutIn
  <2>7. SumOf(f, {}) = 0
    BY SumOfNothing
  <2> QED BY <2>2, <2>3, <2>4, <2>5, <2>6, <2>7
<1>4. LogStats.errors = LinesOf(rows, ErrorSeverities)
  BY DEF LogStats
<1> HIDE DEF f, rows
<1>5. SumOf(f, rows) = 0
  BY <1>2, <1>3, SumOfZeros
<1> QED BY <1>2, <1>4, <1>5

(* What a rounded rate reaches a threshold from.                           *)
RateStands(q, e, t) ==
  /\ q >= 1000 <=> 20000 * e + t >= 2000 * t
  /\ q >= 200 <=> 20000 * e + t >= 400 * t
  /\ q >= 501 <=> 20000 * e + t >= 1002 * t

LEMMA RoundingLifts ==
  ASSUME NEW e \in Nat, NEW t \in Nat \ {0}
  PROVE  \E q \in Nat : RoundedRate(e, t) = q /\ RateStands(q, e, t)
<1> DEFINE a == 20000 * e + t
           b == 2 * t
           q == a \div b
           r == a % b
<1>1. a \in Nat /\ b \in Nat /\ b > 0 /\ a \in Int /\ b \in Int
  OBVIOUS
<1>2. RoundedRate(e, t) = q
  BY DEF RoundedRate
<1> HIDE DEF a, b
<1>3. q \in Int /\ r \in Int /\ a = b * q + r /\ 0 <= r /\ r < b
  BY <1>1
<1> HIDE DEF q, r
<1>4. q >= 0
  <2>1. SUFFICES ASSUME q <= -1 PROVE FALSE
    BY <1>3
  <2>2. b * q <= b * (-1)
    BY <1>1, <1>3, <2>1
  <2>3. b * (-1) = -b /\ b * q \in Int
    BY <1>1, <1>3
  <2> QED BY <1>1, <1>3, <2>2, <2>3
<1>5. ASSUME NEW k \in Nat PROVE q >= k <=> a >= b * k
  <2>1. CASE q >= k
    <3>1. b * q >= b * k /\ b * q \in Int /\ b * k \in Int
      BY <1>1, <1>3, <2>1
    <3> QED BY <1>1, <1>3, <2>1, <3>1
  <2>2. CASE q <= k - 1
    <3>1. b * q <= b * (k - 1) /\ b * (k - 1) = b * k - b /\ b * q \in Int /\ b * k \in Int
      BY <1>1, <1>3, <2>2
    <3>2. a < b * k
      BY <1>1, <1>3, <3>1
    <3> QED BY <1>1, <1>3, <2>2, <3>1, <3>2
  <2> QED BY <1>3, <2>1, <2>2
<1>6. q >= 1000 <=> a >= b * 1000
  BY <1>5
<1>7. q >= 200 <=> a >= b * 200
  BY <1>5
<1>8. q >= 501 <=> a >= b * 501
  BY <1>5
<1> QED BY <1>2, <1>3, <1>4, <1>6, <1>7, <1>8 DEF a, b, RateStands

(* Rounding makes a service look worse by one step at most, never better.  *)
LEMMA HealthAlmostAgrees ==
  ASSUME DataTyped
  PROVE  \A s \in DOMAIN Breakdown : Breakdown[s] # HealthList[s] =>
           <<Breakdown[s], HealthList[s]>> \in {<<"healthy", "warning">>, <<"warning", "critical">>}
<1> DEFINE rows == LogsSince(Hour)
<1>1. DOMAIN Breakdown = LogServicesOf(rows)
  BY DEF Breakdown
<1> SUFFICES ASSUME NEW s \in LogServicesOf(rows)
             PROVE  Breakdown[s] # HealthList[s] =>
                      <<Breakdown[s], HealthList[s]>> \in {<<"healthy", "warning">>, <<"warning", "critical">>}
  BY <1>1
<1> DEFINE e == LinesOf(OfService(rows, s), ErrorSeverities)
           t == LinesOf(OfService(rows, s), Severities)
<1>2. OfService(rows, s) \in SUBSET DOMAIN logRows /\ OfService(rows, s) # {}
  BY DEF OfService, LogsSince, LogServicesOf
<1>3. e \in Nat /\ t \in Nat /\ t > 0
  BY <1>2, LinesBounds
<1>4. Breakdown[s] = IF e * 100 >= 10 * t THEN "critical"
                     ELSE IF e * 100 >= 2 * t THEN "warning" ELSE "healthy"
  BY <1>3 DEF Breakdown
<1>5. HealthList[s] = IF RoundedRate(e, t) >= 1000 THEN "critical"
                      ELSE IF RoundedRate(e, t) >= 200 THEN "warning" ELSE "healthy"
  BY DEF HealthList
<1> HIDE DEF e, t
<1>6. PICK q \in Nat : RoundedRate(e, t) = q /\ RateStands(q, e, t)
  <2>1. e \in Nat /\ t \in Nat \ {0}
    BY <1>3
  <2> QED BY Zenon, <2>1, RoundingLifts
<1>7. /\ e * 100 >= 10 * t => q >= 1000
      /\ e * 100 >= 2 * t => q >= 200
      /\ q >= 1000 => e * 100 >= 2 * t
  BY <1>3, <1>6 DEF RateStands
<1> QED BY <1>4, <1>5, <1>6, <1>7

(* The pages of the spans read the same windows.                           *)
LEMMA SpansAddUp ==
  ASSUME DataTyped
  PROVE  /\ \A s \in DOMAIN ApmServices :
              /\ TraceServices[s] = ApmServices[s].count
              /\ ApmServices[s].status = "healthy" =>
                   20000 * Cardinality(ServiceErrors(s) \cap SpansSince(Hour)) <= 1001 * ApmServices[s].count
         /\ \A root \in SearchTraces : GetTrace(root) # {}
<1>1. ASSUME NEW s \in DOMAIN ApmServices
      PROVE  /\ TraceServices[s] = ApmServices[s].count
             /\ ApmServices[s].status = "healthy" =>
                  20000 * Cardinality(ServiceErrors(s) \cap SpansSince(Hour)) <= 1001 * ApmServices[s].count
  <2> DEFINE bad == {i \in RequestsOf(s) : spanRows[i].error}
             p99 == SlowestOf(RequestsOf(s))
  <2>1. s \in DOMAIN SpanStats
    BY DEF ApmServices
  <2>2. SpanStats[s] = [count |-> Cardinality(RequestsOf(s)), errors |-> Cardinality(bad), p99 |-> p99]
    BY <2>1 DEF SpanStats, RequestsOf
  <2>3. ApmServices[s] = [count |-> SpanStats[s].count,
                          status |-> HealthStatus(SpanStats[s].errors, SpanStats[s].count, SpanStats[s].p99)]
    BY <2>1 DEF ApmServices
  <2>4. TraceServices[s] = SpanStats[s].count
    BY <2>1 DEF TraceServices
  <2>5. RequestsOf(s) \in SUBSET DOMAIN spanRows /\ bad \in SUBSET RequestsOf(s)
    BY DEF RequestsOf, SpansSince
  <2>6. IsFiniteSet(RequestsOf(s)) /\ IsFiniteSet(bad)
    BY <2>5, RowFacts, FS_Subset
  <2>7. Cardinality(RequestsOf(s)) \in Nat /\ Cardinality(bad) \in Nat
    BY <2>6, FS_CardinalityType
  <2>8. ServiceErrors(s) \cap SpansSince(Hour) = bad
    <3>1. \A i \in DOMAIN spanRows : spanRows[i].at \in Nat
      <4>1. DOMAIN spanRows = 1..Len(spanRows)
        BY RowFacts
      <4>2. \A i \in DOMAIN spanRows : spanRows[i] \in SpanRow
        BY <4>1 DEF DataTyped
      <4> QED BY <4>2 DEF SpanRow
    <3>2. Hour \in Nat /\ Day \in Nat /\ Hour < Day /\ hours \in Nat
      BY DataAssumption DEF DataAssumption, DataTyped
    <3>3. \A i \in DOMAIN spanRows : spanRows[i].at >= hours - Hour => spanRows[i].at >= hours - Day
      BY <3>1, <3>2
    <3> QED BY <3>3 DEF ServiceErrors, SpansSince, RequestsOf
  <2> HIDE DEF bad, p99
  <2>9. ApmServices[s].status = HealthStatus(Cardinality(bad), Cardinality(RequestsOf(s)), p99)
        /\ ApmServices[s].count = Cardinality(RequestsOf(s))
    BY <2>2, <2>3
  <2>10. Cardinality(RequestsOf(s)) \in Nat \ {0}
    <3>1. RequestsOf(s) # {}
      BY <2>1 DEF SpanStats, RequestsOf
    <3> QED BY <2>6, <2>7, <3>1, FS_EmptySet
  <2>10a. PICK q \in Nat : /\ RoundedRate(Cardinality(bad), Cardinality(RequestsOf(s))) = q
                           /\ RateStands(q, Cardinality(bad), Cardinality(RequestsOf(s)))
    BY Zenon, <2>7, <2>10, RoundingLifts
  <2>10b. ApmServices[s].status = "healthy" => ~ q > 500
    BY <2>9, <2>10a DEF HealthStatus
  <2>11. TraceServices[s] = Cardinality(RequestsOf(s))
    BY <2>2, <2>4
  <2>12. ApmServices[s].status = "healthy" => 20000 * Cardinality(bad) <= 1001 * Cardinality(RequestsOf(s))
    BY <2>7, <2>10, <2>10a, <2>10b DEF RateStands
  <2> QED BY <2>8, <2>9, <2>11, <2>12
<1>2. ASSUME NEW root \in SearchTraces PROVE GetTrace(root) # {}
  BY DEF SearchTraces, GetTrace, SpansSince
<1> QED BY <1>1, <1>2

LEMMA PagesAlwaysMatch == DataTyped => PagesMatch
<1> SUFFICES ASSUME DataTyped PROVE PagesMatch
  OBVIOUS
<1>1. LogVolume.total = IngestionChart.total /\ LogVolume.errors = IngestionChart.errors
  BY DEF LogVolume, IngestionChart
<1>2. /\ LogStats.total = MapThenSumSet(LAMBDA s : s.lines, LogServices)
      /\ \A rows \in TopServices :
           /\ ErrorsOnList(rows) <= LogStats.errors
           /\ Cardinality(rows) = TotalServices => ErrorsOnList(rows) = LogStats.errors
      /\ TotalServices = Cardinality(LogServices)
  BY ListsAddUp
<1>3. LogStats.total = MapThenSumSet(LAMBDA s : LogSeverities[s], Severities)
  BY SeveritiesAddUp
<1>4. LogStats.errors > 0 => RecentErrors # {}
  BY CountedErrorsAreListed
<1>5. \A s \in DOMAIN Breakdown : Breakdown[s] # HealthList[s] =>
        <<Breakdown[s], HealthList[s]>> \in {<<"healthy", "warning">>, <<"warning", "critical">>}
  BY HealthAlmostAgrees
<1>6. /\ \A s \in DOMAIN ApmServices :
           /\ TraceServices[s] = ApmServices[s].count
           /\ ApmServices[s].status = "healthy" =>
                20000 * Cardinality(ServiceErrors(s) \cap SpansSince(Hour)) <= 1001 * ApmServices[s].count
      /\ \A root \in SearchTraces : GetTrace(root) # {}
  BY SpansAddUp
<1> QED BY <1>1, <1>2, <1>3, <1>4, <1>5, <1>6 DEF PagesMatch

(* What a page that is put together, or is complete, has got.              *)
PageShaped ==
  /\ \E S : page \in [kind : DOMAIN Statements \union {"none"}, since : Nat, rows : Nat, spans : Nat,
                      got : Seq(S), answer : {"none", "full", "empty"}]
  /\ page.since <= hours /\ page.rows <= Len(logRows) /\ page.spans <= Len(spanRows)
  /\ page.kind # "none" /\ page.answer = "none" => Len(page.got) < Statements[page.kind]
  /\ page.answer = "full" => page.kind # "none" /\ Len(page.got) = Statements[page.kind]

OverviewStands ==
  page.kind = "overview" /\ Len(page.got) >= 1 =>
    /\ \E K : /\ IsFiniteSet(K) /\ Cardinality(K) = page.got[1]
              /\ \A i \in LogsSince(Day) : i <= page.rows => logRows[i].service \in K
    /\ page.got[1] > 0 /\ hours = page.since => LogsSince(Day) # {}
    /\ Len(page.got) >= 2 /\ page.got[1] > 0 => page.got[2].total > 0 \/ hours > page.since
    /\ Len(page.got) >= 4 => /\ Cardinality(DOMAIN page.got[4]) \in Nat
                             /\ Cardinality(DOMAIN page.got[4]) <= page.got[1] + Len(logRows) - page.rows

SearchStands ==
  page.kind = "search" /\ Len(page.got) >= 1 =>
    \A s \in DataServices :
      /\ page.got[1][s] \in Nat /\ page.got[1][s] <= SearchTotal(s)
      /\ Len(page.got) >= 2 => page.got[2][s] >= SearchLimit \/ page.got[2][s] >= page.got[1][s]

MapStands ==
  page.kind = "map" /\ Len(page.got) >= 1 =>
    /\ \A i \in SpansSince(Hour) : i <= page.spans => spanRows[i].service \in DOMAIN page.got[1]
    /\ Len(page.got) >= 2 =>
         \A e \in page.got[2] : \/ e[2] \in DOMAIN page.got[1]
                                \/ \E i \in page.spans + 1..Len(spanRows) : spanRows[i].service = e[2]

DataIInv == DataTyped /\ PageShaped /\ OverviewStands /\ SearchStands /\ MapStands

LEMMA DataFacts ==
  /\ Hour \in Nat /\ SixHours \in Nat /\ Day \in Nat /\ Hour < SixHours /\ SixHours < Day
  /\ SearchLimit \in Nat
  /\ DOMAIN Statements = {"overview", "health", "search", "map"}
  /\ Statements["overview"] = 4 /\ Statements["health"] = 2
  /\ Statements["search"] = 2 /\ Statements["map"] = 2
<1>1. /\ Hour \in Nat /\ SixHours \in Nat /\ Day \in Nat /\ Hour < SixHours /\ SixHours < Day
      /\ SearchLimit \in Nat
  BY DataAssumption DEF DataAssumption
<1> QED BY <1>1 DEF Statements

(* Rows come and time runs on; nothing that is there changes.              *)
TablesGrow ==
  /\ hours <= hours'
  /\ Len(logRows) <= Len(logRows') /\ \A i \in 1..Len(logRows) : logRows'[i] = logRows[i]
  /\ Len(spanRows) <= Len(spanRows') /\ \A i \in 1..Len(spanRows) : spanRows'[i] = spanRows[i]

LinesStand ==
  \A rows \in SUBSET DOMAIN logRows :
    /\ LinesOf(rows, Severities) = SumOf(LinesAt(Severities), rows)
    /\ LinesOf(rows, Severities) \in Nat /\ IsFiniteSet(rows)
    /\ \A some \in SUBSET rows : LinesOf(some, Severities) <= LinesOf(rows, Severities)

LEMMA LinesStandNow == DataTyped => LinesStand
BY LinesAre, LinesBounds DEF LinesStand

LEMMA LinesStandThen == (DataTyped => LinesStand)'
BY LinesStandNow, PTL

LEMMA RowsKept ==
  ASSUME DataTyped, DataTyped', TablesGrow
  PROVE  /\ DOMAIN logRows = 1..Len(logRows) /\ DOMAIN logRows' = 1..Len(logRows')
         /\ Len(logRows) \in Nat /\ Len(logRows') \in Nat
         /\ DOMAIN logRows \subseteq DOMAIN logRows'
         /\ \A i \in DOMAIN logRows : logRows'[i] = logRows[i]
<1>1. /\ DOMAIN logRows = 1..Len(logRows) /\ DOMAIN logRows' = 1..Len(logRows')
      /\ Len(logRows) \in Nat /\ Len(logRows') \in Nat
  BY DEF DataTyped
<1> QED BY <1>1 DEF TablesGrow

LEMMA SameLines ==
  ASSUME DataTyped, DataTyped', TablesGrow, NEW rows, rows \in SUBSET DOMAIN logRows
  PROVE  LinesOf(rows, Severities)' = LinesOf(rows, Severities)
<1>1. /\ LinesOf(rows, Severities) = SumOf(LinesAt(Severities), rows) /\ IsFiniteSet(rows)
  BY LinesStandNow DEF LinesStand
<1>2. LinesOf(rows, Severities)' = SumOf(LinesAt(Severities)', rows)
  BY LinesStandThen, RowsKept DEF LinesStand
<1>3. \A i \in rows : LinesAt(Severities)[i] \in Int
  <2>1. \A i \in DOMAIN logRows : LinesAt(Severities)[i] \in Nat
    BY LinesFacts
  <2> QED BY <2>1
<1>4. \A i \in rows : LinesAt(Severities)[i] = LinesAt(Severities)'[i]
  BY RowsKept DEF LinesAt
<1>5. SumOf(LinesAt(Severities), rows) = SumOf(LinesAt(Severities)', rows)
  BY <1>1, <1>3, <1>4, SumAgrees
<1> QED BY <1>1, <1>2, <1>5

LEMMA TotalsGrow ==
  ASSUME DataTyped, DataTyped', TablesGrow, NEW s
  PROVE  SearchTotal(s) \in Nat /\ SearchTotal(s)' \in Nat /\ SearchTotal(s) <= SearchTotal(s)'
<1>1. PICK old : old = {i \in DOMAIN logRows : logRows[i].service = s}
  OBVIOUS
<1>2. PICK new : new = {i \in DOMAIN logRows' : logRows'[i].service = s}
  OBVIOUS
<1>3. SearchTotal(s) = LinesOf(old, Severities)
  BY <1>1 DEF SearchTotal, OfService
<1>4. SearchTotal(s)' = LinesOf(new, Severities)'
  BY <1>2 DEF SearchTotal, OfService
<1>5. old \in SUBSET DOMAIN logRows /\ new \in SUBSET DOMAIN logRows' /\ old \in SUBSET new
  BY <1>1, <1>2, RowsKept
<1>6. LinesOf(old, Severities) \in Nat
  BY <1>5, LinesStandNow DEF LinesStand
<1>7. LinesOf(new, Severities)' \in Nat /\ LinesOf(old, Severities)' <= LinesOf(new, Severities)'
  BY <1>5, LinesStandThen DEF LinesStand
<1>8. LinesOf(old, Severities)' = LinesOf(old, Severities)
  BY <1>5, SameLines
<1> QED BY <1>3, <1>4, <1>6, <1>7, <1>8

LEMMA PageKept ==
  ASSUME DataIInv, DataTyped', TablesGrow, page' = page
  PROVE  PageShaped' /\ OverviewStands' /\ SearchStands' /\ MapStands'
<1>1. /\ hours \in Nat /\ hours' \in Nat /\ hours <= hours'
      /\ Len(logRows) \in Nat /\ Len(logRows') \in Nat /\ Len(logRows) <= Len(logRows')
      /\ Len(spanRows) \in Nat /\ Len(spanRows') \in Nat /\ Len(spanRows) <= Len(spanRows')
      /\ DOMAIN spanRows = 1..Len(spanRows) /\ DOMAIN spanRows' = 1..Len(spanRows')
  BY DEF DataIInv, DataTyped, TablesGrow
<1>2. /\ DOMAIN logRows = 1..Len(logRows) /\ DOMAIN logRows' = 1..Len(logRows')
      /\ \A i \in DOMAIN logRows : logRows'[i] = logRows[i]
  BY RowsKept DEF DataIInv
<1>3. \A i \in DOMAIN spanRows : spanRows'[i] = spanRows[i]
  BY <1>1 DEF TablesGrow
<1>4. page.since \in Nat /\ page.rows \in Nat /\ page.spans \in Nat
      /\ page.since <= hours /\ page.rows <= Len(logRows) /\ page.spans <= Len(spanRows)
  BY DEF DataIInv, PageShaped
<1>5. PageShaped'
  BY <1>1, <1>4 DEF DataIInv, PageShaped
<1>6. OverviewStands'
  <2> SUFFICES ASSUME page.kind = "overview", Len(page.got) >= 1
               PROVE  OverviewStands'
    BY DEF OverviewStands
  <2>1. OverviewStands
    BY DEF DataIInv
  <2>2. PICK K : /\ IsFiniteSet(K) /\ Cardinality(K) = page.got[1]
                 /\ \A i \in LogsSince(Day) : i <= page.rows => logRows[i].service \in K
    BY <2>1 DEF OverviewStands
  <2>3. page.got[1] \in Nat
    BY <2>2, FS_CardinalityType
  <2>4. \A i \in LogsSince(Day)' : i <= page.rows => logRows'[i].service \in K
    <3> SUFFICES ASSUME NEW i \in LogsSince(Day)', i <= page.rows
                 PROVE  logRows'[i].service \in K
      OBVIOUS
    <3>1. i \in DOMAIN logRows' /\ logRows'[i].at >= hours' - Day
      BY DEF LogsSince
    <3>2. i \in DOMAIN logRows
      BY <1>1, <1>2, <1>4, <3>1
    <3>3. logRows[i].at \in Nat
      BY <3>2, RowFacts DEF DataIInv
    <3>4. logRows[i].at >= hours - Day
      BY SMTT(30), <1>1, <1>2, <3>1, <3>2, <3>3, DataFacts
    <3>5. i \in LogsSince(Day)
      BY <3>2, <3>4 DEF LogsSince
    <3> QED BY <1>2, <2>2, <3>2, <3>5
  <2>5. ASSUME page.got[1] > 0, hours' = page.since
        PROVE  LogsSince(Day)' # {}
    <3>1. hours' = hours
      BY <1>1, <1>4, <2>5
    <3>2. PICK i : i \in LogsSince(Day)
      BY <2>1, <2>5, <3>1 DEF OverviewStands
    <3>3. i \in DOMAIN logRows /\ logRows[i].at >= hours - Day
      BY <3>2 DEF LogsSince
    <3>4. i \in DOMAIN logRows' /\ logRows'[i].at >= hours' - Day
      BY <1>1, <1>2, <3>1, <3>3
    <3> QED BY <3>4 DEF LogsSince
  <2>6. ASSUME Len(page.got) >= 2, page.got[1] > 0
        PROVE  page.got[2].total > 0 \/ hours' > page.since
    BY SMTT(30), <1>1, <1>4, <2>1, <2>6 DEF OverviewStands
  <2>7. ASSUME Len(page.got) >= 4
        PROVE  /\ Cardinality(DOMAIN page.got[4]) \in Nat
               /\ Cardinality(DOMAIN page.got[4]) <= page.got[1] + Len(logRows') - page.rows
    <3>1. /\ Cardinality(DOMAIN page.got[4]) \in Nat
          /\ Cardinality(DOMAIN page.got[4]) <= page.got[1] + Len(logRows) - page.rows
      BY <2>1, <2>7 DEF OverviewStands
    <3>2. \A a, n, l, m, r \in Nat : a <= n + l - r /\ l <= m => a <= n + m - r
      OBVIOUS
    <3> QED BY <1>1, <1>4, <2>3, <3>1, <3>2
  <2> QED BY <2>2, <2>4, <2>5, <2>6, <2>7 DEF OverviewStands
<1>7. SearchStands'
  <2> SUFFICES ASSUME page.kind = "search", Len(page.got) >= 1, NEW s \in DataServices
               PROVE  /\ page.got[1][s] \in Nat /\ page.got[1][s] <= SearchTotal(s)'
                      /\ Len(page.got) >= 2 => \/ page.got[2][s] >= SearchLimit
                                               \/ page.got[2][s] >= page.got[1][s]
    BY DEF SearchStands
  <2>1. /\ page.got[1][s] \in Nat /\ page.got[1][s] <= SearchTotal(s)
        /\ Len(page.got) >= 2 => page.got[2][s] >= SearchLimit \/ page.got[2][s] >= page.got[1][s]
    BY DEF DataIInv, SearchStands
  <2>2. SearchTotal(s) \in Nat /\ SearchTotal(s)' \in Nat /\ SearchTotal(s) <= SearchTotal(s)'
    BY TotalsGrow DEF DataIInv
  <2> QED BY <2>1, <2>2
<1>8. MapStands'
  <2> SUFFICES ASSUME page.kind = "map", Len(page.got) >= 1
               PROVE  MapStands'
    BY DEF MapStands
  <2>1. MapStands
    BY DEF DataIInv
  <2>2. ASSUME NEW i \in SpansSince(Hour)', i <= page.spans
        PROVE  spanRows'[i].service \in DOMAIN page.got[1]
    <3>1. i \in DOMAIN spanRows' /\ spanRows'[i].at >= hours' - Hour
      BY DEF SpansSince
    <3>2. i \in DOMAIN spanRows
      BY <1>1, <1>4, <2>2, <3>1
    <3>3. spanRows[i] \in SpanRow
      BY <1>1, <3>2 DEF DataIInv, DataTyped
    <3>4. spanRows[i].at \in Nat
      BY <3>3 DEF SpanRow
    <3>5. spanRows[i].at >= hours - Hour
      BY SMTT(30), <1>1, <1>3, <3>1, <3>2, <3>4, DataFacts
    <3>6. i \in SpansSince(Hour)
      BY <3>2, <3>5 DEF SpansSince
    <3> QED BY <1>3, <2>1, <2>2, <3>2, <3>6 DEF MapStands
  <2>3. ASSUME Len(page.got) >= 2, NEW e \in page.got[2]
        PROVE  \/ e[2] \in DOMAIN page.got[1]
               \/ \E i \in page.spans + 1..Len(spanRows') : spanRows'[i].service = e[2]
    <3>1. \/ e[2] \in DOMAIN page.got[1]
          \/ \E i \in page.spans + 1..Len(spanRows) : spanRows[i].service = e[2]
      BY <2>1, <2>3 DEF MapStands
    <3>2. ASSUME NEW i \in page.spans + 1..Len(spanRows)
          PROVE  i \in page.spans + 1..Len(spanRows') /\ i \in DOMAIN spanRows
      BY <1>1, <1>4
    <3> QED BY <1>3, <3>1, <3>2
  <2> QED BY <2>2, <2>3 DEF MapStands
<1> QED BY <1>5, <1>6, <1>7, <1>8

(* The tables stay what they are while a page opens, reads or closes.      *)
LEMMA TablesSame ==
  ASSUME DataTyped, UNCHANGED <<hours, logRows, spanRows>>
  PROVE  /\ DataTyped' /\ TablesGrow
         /\ \A w : LogsSince(w)' = LogsSince(w) /\ SpansSince(w)' = SpansSince(w)
<1>1. hours \in Nat /\ Len(logRows) \in Nat /\ Len(spanRows) \in Nat
  BY DEF DataTyped
<1>2. DataTyped' /\ TablesGrow
  BY <1>1 DEF DataTyped, TablesGrow
<1>3. \A w : LogsSince(w)' = LogsSince(w) /\ SpansSince(w)' = SpansSince(w)
  BY DEF LogsSince, SpansSince
<1> QED BY <1>2, <1>3

LEMMA PageEmptied ==
  ASSUME DataIInv, OpenPage \/ StatementFails \/ ClosePage
  PROVE  DataIInv'
<1>1. UNCHANGED <<hours, logRows, spanRows>>
  BY DEF OpenPage, StatementFails, ClosePage
<1>2. DataTyped' /\ hours \in Nat /\ Len(logRows) \in Nat /\ Len(spanRows) \in Nat
  BY <1>1, TablesSame DEF DataIInv, DataTyped
<1>3. <<>> \in Seq({}) /\ Len(<<>>) = 0
  OBVIOUS
<1>4. /\ page' \in [kind : DOMAIN Statements \union {"none"}, since : Nat, rows : Nat, spans : Nat,
                   got : {<<>>}, answer : {"none", "empty"}]
      /\ page'.since <= hours /\ page'.rows <= Len(logRows) /\ page'.spans <= Len(spanRows)
  <2>1. CASE OpenPage
    <3>1. PICK kind \in DOMAIN Statements :
            page' = [NoPage EXCEPT !.kind = kind, !.since = hours, !.rows = Len(logRows),
                                   !.spans = Len(spanRows)]
      BY <2>1 DEF OpenPage
    <3>2. page' = [kind |-> kind, since |-> hours, rows |-> Len(logRows), spans |-> Len(spanRows),
                   got |-> <<>>, answer |-> "none"]
      BY <3>1 DEF NoPage
    <3> QED BY <1>2, <3>2
  <2>2. CASE ClosePage
    <3>1. page' = [kind |-> "none", since |-> 0, rows |-> 0, spans |-> 0, got |-> <<>>,
                   answer |-> "none"]
      BY <2>2 DEF ClosePage, NoPage
    <3> QED BY <1>2, <3>1
  <2>3. CASE StatementFails
    <3>1. page' = [kind |-> page.kind, since |-> page.since, rows |-> page.rows, spans |-> page.spans,
                   got |-> <<>>, answer |-> "empty"]
      BY <2>3 DEF StatementFails, DataIInv, PageShaped
    <3>2. /\ page.kind \in DOMAIN Statements \union {"none"}
          /\ page.since \in Nat /\ page.rows \in Nat /\ page.spans \in Nat
          /\ page.since <= hours /\ page.rows <= Len(logRows) /\ page.spans <= Len(spanRows)
      BY DEF DataIInv, PageShaped
    <3> QED BY <3>1, <3>2
  <2> QED BY <2>1, <2>2, <2>3
<1>5. page'.got = <<>> /\ page'.answer # "full"
  BY <1>4
<1>6. PageShaped'
  <2>1. page' \in [kind : DOMAIN Statements \union {"none"}, since : Nat, rows : Nat, spans : Nat,
                   got : Seq({}), answer : {"none", "full", "empty"}]
    BY <1>3, <1>4
  <2>2. page'.kind # "none" => Len(page'.got) < Statements[page'.kind]
    BY <1>3, <1>4, <1>5, DataFacts
  <2> QED BY <1>1, <1>4, <1>5, <2>1, <2>2 DEF PageShaped
<1>7. OverviewStands' /\ SearchStands' /\ MapStands'
  BY <1>3, <1>5 DEF OverviewStands, SearchStands, MapStands
<1> QED BY <1>2, <1>6, <1>7 DEF DataIInv

LEMMA WhatStatementsSee ==
  /\ Result("overview", 1) = TotalServices /\ Result("overview", 2) = LogStats
  /\ Result("overview", 4) = Breakdown
  /\ Result("search", 1) = [s \in DataServices |-> SearchTotal(s)]
  /\ Result("search", 2) = [s \in DataServices |-> SearchPage(s)]
  /\ Result("map", 1) = MapNodes /\ Result("map", 2) = MapEdges
<1>1. /\ Result("overview", 1) = TotalServices /\ Result("overview", 2) = LogStats
      /\ Result("overview", 4) = Breakdown
  BY DEF Result
<1>2. /\ Result("search", 1) = [s \in DataServices |-> SearchTotal(s)]
      /\ Result("search", 2) = [s \in DataServices |-> SearchPage(s)]
  BY DEF Result
<1>3. Result("map", 1) = MapNodes /\ Result("map", 2) = MapEdges
  BY DEF Result
<1> QED BY <1>1, <1>2, <1>3


(* The statements of the overview, one after the other.                    *)
LEMMA ServicesSeen ==
  ASSUME DataTyped
  PROVE  /\ IsFiniteSet(LogServicesOf(LogsSince(Day)))
         /\ Cardinality(LogServicesOf(LogsSince(Day))) = TotalServices
         /\ TotalServices > 0 => LogsSince(Day) # {}
         /\ LogsSince(Day) # {} => LogStats.total > 0
<1>1. LogsSince(Day) \in SUBSET DOMAIN logRows
  BY DEF LogsSince
<1>2. IsFiniteSet(LogServicesOf(LogsSince(Day)))
  BY <1>1, LinesByService
<1>3. TotalServices = Cardinality(LogServicesOf(LogsSince(Day)))
  BY DEF TotalServices
<1>4. LogsSince(Day) = {} => TotalServices = 0
  <2>1. LogsSince(Day) = {} => LogServicesOf(LogsSince(Day)) = {}
    BY DEF LogServicesOf
  <2> QED BY <1>3, <2>1, FS_EmptySet
<1>5. LogsSince(Day) # {} => LinesOf(LogsSince(Day), Severities) > 0
  BY <1>1, LinesBounds
<1>6. LogStats.total = LinesOf(LogsSince(Day), Severities)
  BY DEF LogStats
<1> QED BY <1>2, <1>3, <1>4, <1>5, <1>6

LEMMA ServicesSinceCounted ==
  ASSUME DataTyped, NEW rows \in Nat, rows <= Len(logRows), NEW K, IsFiniteSet(K),
         \A i \in LogsSince(Day) : i <= rows => logRows[i].service \in K
  PROVE  /\ Cardinality(DOMAIN Breakdown) \in Nat /\ Cardinality(K) \in Nat
         /\ Cardinality(DOMAIN Breakdown) <= Cardinality(K) + Len(logRows) - rows
<1> DEFINE new == rows + 1..Len(logRows)
           serviceOf == [i \in new |-> logRows[i].service]
           N == {serviceOf[i] : i \in new}
<1>1. Len(logRows) \in Nat /\ DOMAIN logRows = 1..Len(logRows) /\ hours \in Nat
  BY DEF DataTyped
<1>2. IsFiniteSet(new) /\ Cardinality(new) = Len(logRows) - rows
  <2>1. rows + 1 \in Int /\ Len(logRows) \in Int
    BY <1>1
  <2>2. IsFiniteSet(new) /\ Cardinality(new) = IF rows + 1 > Len(logRows) THEN 0
                                               ELSE Len(logRows) - (rows + 1) + 1
    BY <2>1, FS_Interval
  <2>3. CASE rows + 1 > Len(logRows)
    <3>0. \A l, m \in Nat : m <= l /\ m + 1 > l => l - m = 0
      OBVIOUS
    <3>1. Len(logRows) - rows = 0
      BY Zenon, <1>1, <2>3, <3>0
    <3> QED BY <2>2, <2>3, <3>1
  <2>4. CASE ~(rows + 1 > Len(logRows))
    <3>1. Len(logRows) - (rows + 1) + 1 = Len(logRows) - rows
      BY <1>1
    <3> QED BY <2>2, <2>4, <3>1
  <2> QED BY <2>3, <2>4
<1>3. DOMAIN Breakdown = LogServicesOf(LogsSince(Hour))
  BY DEF Breakdown
<1>4. DOMAIN Breakdown \subseteq K \union N
  <2> SUFFICES ASSUME NEW s \in DOMAIN Breakdown PROVE s \in K \union N
    OBVIOUS
  <2>1. PICK i \in LogsSince(Hour) : s = logRows[i].service
    BY <1>3 DEF LogServicesOf
  <2>2. i \in DOMAIN logRows /\ logRows[i].at >= hours - Hour /\ logRows[i].at \in Nat
    BY RowFacts DEF LogsSince
  <2>3. i \in LogsSince(Day)
    BY <1>1, <2>2, DataFacts DEF LogsSince
  <2>4. CASE i <= rows
    BY <2>1, <2>3, <2>4
  <2>5. CASE i > rows
    <3>1. i \in new
      BY <1>1, <2>2, <2>5
    <3>2. serviceOf[i] = s
      BY <2>1, <3>1
    <3> HIDE DEF new, serviceOf
    <3> QED BY <3>1, <3>2
  <2> QED BY <1>1, <2>2, <2>4, <2>5
<1> HIDE DEF new, serviceOf
<1>5. IsFiniteSet(N) /\ Cardinality(N) <= Cardinality(new)
  BY <1>2, ImageIsFinite, ImageIsSmaller
<1> HIDE DEF N
<1>6. /\ Cardinality(K \union N) <= Cardinality(K) + Cardinality(N)
      /\ IsFiniteSet(K \union N)
      /\ Cardinality(K) \in Nat /\ Cardinality(N) \in Nat /\ Cardinality(K \union N) \in Nat
  <2>1. /\ Cardinality(K \union N) = Cardinality(K) + Cardinality(N) - Cardinality(K \cap N)
        /\ IsFiniteSet(K \union N)
    BY <1>5, FS_Union
  <2>2. IsFiniteSet(K \cap N)
    BY <2>1, FS_Subset
  <2>3. /\ Cardinality(K) \in Nat /\ Cardinality(N) \in Nat /\ Cardinality(K \union N) \in Nat
        /\ Cardinality(K \cap N) \in Nat
    BY <1>5, <2>1, <2>2, FS_CardinalityType
  <2> QED BY <2>1, <2>3
<1>7. /\ Cardinality(DOMAIN Breakdown) <= Cardinality(K \union N)
      /\ Cardinality(DOMAIN Breakdown) \in Nat
  BY <1>4, <1>6, FS_Subset, FS_CardinalityType
<1> QED BY <1>1, <1>2, <1>5, <1>6, <1>7

LEMMA PageReads ==
  ASSUME DataIInv, RunStatement
  PROVE  DataIInv'
<1> DEFINE k == Len(page.got) + 1
           seen == Result(page.kind, k)
           got == Append(page.got, seen)
           answer == IF k = Statements[page.kind] THEN "full" ELSE page.answer
<1>1. UNCHANGED <<hours, logRows, spanRows>> /\ page.kind # "none" /\ page.answer = "none"
  BY DEF RunStatement
<1>2. page' = [page EXCEPT !.got = got, !.answer = answer]
  BY DEF RunStatement
<1>3. PICK S : page \in [kind : DOMAIN Statements \union {"none"}, since : Nat, rows : Nat, spans : Nat,
                         got : Seq(S), answer : {"none", "full", "empty"}]
  BY DEF DataIInv, PageShaped
<1>4. /\ page.kind \in DOMAIN Statements /\ page.since \in Nat /\ page.rows \in Nat /\ page.spans \in Nat
      /\ page.since <= hours /\ page.rows <= Len(logRows) /\ page.spans <= Len(spanRows)
      /\ Len(page.got) < Statements[page.kind] /\ page.got \in Seq(S)
  BY <1>1, <1>3 DEF DataIInv, PageShaped
<1>5. page' = [kind |-> page.kind, since |-> page.since, rows |-> page.rows, spans |-> page.spans,
               got |-> got, answer |-> answer]
  BY <1>2, <1>3
<1>6. /\ answer \in {"none", "full"}
      /\ answer = "none" => k # Statements[page.kind]
      /\ answer = "full" => k = Statements[page.kind]
  BY <1>1
<1> HIDE DEF seen, answer
<1>7. /\ got \in Seq(S \union {seen})
      /\ Len(got) = k /\ Len(page.got) \in Nat
      /\ \A n \in 1..Len(page.got) : got[n] = page.got[n]
      /\ got[k] = seen
  BY <1>4, GotOneMore
<1> HIDE DEF got, k
<1>8. k = Len(page.got) + 1
  BY DEF k
<1>9. /\ DataTyped' /\ DataTyped /\ TablesGrow
      /\ LogsSince(Day)' = LogsSince(Day) /\ SpansSince(Hour)' = SpansSince(Hour)
  BY <1>1, TablesSame DEF DataIInv
<1>10. k \in Nat /\ k >= 1 /\ k <= Statements[page.kind] /\ Statements[page.kind] \in {2, 4}
  BY <1>4, <1>7, <1>8, DataFacts
<1>11. PageShaped'
  <2>1. page' \in [kind : DOMAIN Statements \union {"none"}, since : Nat, rows : Nat, spans : Nat,
                   got : Seq(S \union {seen}), answer : {"none", "full", "empty"}]
    BY <1>4, <1>5, <1>6, <1>7
  <2>2. /\ page'.kind = page.kind /\ page'.since = page.since /\ page'.rows = page.rows
        /\ page'.spans = page.spans /\ Len(page'.got) = k /\ page'.answer = answer
    BY <1>5, <1>7
  <2>3. page'.answer = "none" => Len(page'.got) < Statements[page'.kind]
    BY <1>6, <1>10, <2>2
  <2>4. page'.kind # "none"
    BY <1>1, <2>2
  <2> QED BY <1>1, <1>4, <1>6, <2>1, <2>2, <2>3, <2>4 DEF PageShaped
<1>12. /\ page'.kind = page.kind /\ page'.got = got /\ page'.since = page.since
       /\ page'.rows = page.rows /\ page'.spans = page.spans
  BY <1>5
<1>13. OverviewStands'
  <2> SUFFICES ASSUME page.kind = "overview"
               PROVE  OverviewStands'
    BY <1>12 DEF OverviewStands
  <2>1. k \in 1..4
    BY <1>10, DataFacts
  <2>2. /\ \E K : /\ IsFiniteSet(K) /\ Cardinality(K) = got[1]
                  /\ \A i \in LogsSince(Day) : i <= page.rows => logRows[i].service \in K
        /\ got[1] > 0 /\ hours = page.since => LogsSince(Day) # {}
    <3>1. CASE k = 1
      <4>1. got[1] = TotalServices
        BY <1>7, <3>1, WhatStatementsSee DEF seen
      <4>2. \A i \in LogsSince(Day) : logRows[i].service \in LogServicesOf(LogsSince(Day))
        BY DEF LogServicesOf
      <4> QED BY <1>9, <4>1, <4>2, ServicesSeen
    <3>2. CASE k # 1
      <4>1. Len(page.got) >= 1 /\ 1 \in 1..Len(page.got)
        BY <1>7, <1>8, <2>1, <3>2
      <4>2. got[1] = page.got[1]
        BY <1>7, <4>1
      <4> QED BY <4>1, <4>2 DEF DataIInv, OverviewStands
    <3> QED BY <3>1, <3>2
  <2>3. ASSUME k >= 2, got[1] > 0
        PROVE  got[2].total > 0 \/ hours > page.since
    <3>1. CASE k = 2
      <4>1. got[2] = LogStats
        BY <1>7, <3>1, WhatStatementsSee DEF seen
      <4>2. CASE hours = page.since
        BY <1>9, <2>2, <2>3, <4>1, <4>2, ServicesSeen
      <4>3. CASE hours # page.since
        BY <1>4, <1>9, <4>3 DEF DataTyped
      <4> QED BY <4>2, <4>3
    <3>2. CASE k # 2
      <4>1. Len(page.got) >= 2 /\ 1 \in 1..Len(page.got) /\ 2 \in 1..Len(page.got)
        BY <1>7, <1>8, <2>1, <2>3, <3>2
      <4>2. got[1] = page.got[1] /\ got[2] = page.got[2]
        BY <1>7, <4>1
      <4> QED BY <1>7, <2>3, <4>1, <4>2 DEF DataIInv, OverviewStands
    <3> QED BY <3>1, <3>2
  <2>4. ASSUME k >= 4
        PROVE  /\ Cardinality(DOMAIN got[4]) \in Nat
               /\ Cardinality(DOMAIN got[4]) <= got[1] + Len(logRows) - page.rows
    <3>1. k = 4
      BY <2>1, <2>4
    <3>2. got[4] = Breakdown
      BY <1>7, <3>1, WhatStatementsSee DEF seen
    <3>3. PICK K : /\ IsFiniteSet(K) /\ Cardinality(K) = got[1]
                   /\ \A i \in LogsSince(Day) : i <= page.rows => logRows[i].service \in K
      BY <2>2
    <3> QED BY <1>4, <1>9, <3>2, <3>3, ServicesSinceCounted
  <2> QED BY <1>1, <1>7, <1>9, <1>12, <2>2, <2>3, <2>4 DEF OverviewStands
<1>14. SearchStands'
  <2> SUFFICES ASSUME page.kind = "search", NEW s \in DataServices
               PROVE  /\ got[1][s] \in Nat /\ got[1][s] <= SearchTotal(s)'
                      /\ k >= 2 => got[2][s] >= SearchLimit \/ got[2][s] >= got[1][s]
    BY <1>7, <1>12 DEF SearchStands
  <2>1. k \in 1..2
    BY <1>10, DataFacts
  <2>2. SearchTotal(s) \in Nat /\ SearchTotal(s)' \in Nat /\ SearchTotal(s) <= SearchTotal(s)'
    BY <1>9, TotalsGrow
  <2>3. CASE k = 1
    <3>1. got[1] = [t \in DataServices |-> SearchTotal(t)]
      BY <1>7, <2>3, WhatStatementsSee DEF seen
    <3>2. got[1][s] = SearchTotal(s)
      BY <3>1
    <3> QED BY <2>2, <2>3, <3>2
  <2>4. CASE k = 2
    <3>1. Len(page.got) >= 1 /\ 1 \in 1..Len(page.got)
      BY <1>7, <1>8, <2>4
    <3>2. got[1] = page.got[1]
      BY <1>7, <3>1
    <3>3. got[1][s] \in Nat /\ got[1][s] <= SearchTotal(s)
      BY <3>1, <3>2 DEF DataIInv, SearchStands
    <3>4. got[2] = [t \in DataServices |-> SearchPage(t)]
      BY <1>7, <2>4, WhatStatementsSee DEF seen
    <3>5. got[2][s] = SearchPage(s)
      BY <3>4
    <3>6. SearchPage(s) = SearchLimit \/ SearchPage(s) = SearchTotal(s)
      BY DEF SearchPage
    <3> QED BY <2>2, <3>3, <3>5, <3>6, DataFacts
  <2> QED BY <2>1, <2>3, <2>4
<1>15. MapStands'
  <2> SUFFICES ASSUME page.kind = "map"
               PROVE  MapStands'
    BY <1>12 DEF MapStands
  <2>1. k \in 1..2
    BY <1>10, DataFacts
  <2>2. \A i \in SpansSince(Hour) : i <= page.spans => spanRows[i].service \in DOMAIN got[1]
    <3>1. CASE k = 1
      <4>1. got[1] = MapNodes
        BY SMTT(30), <1>7, <3>1, WhatStatementsSee DEF seen
      <4>2. DOMAIN MapNodes = {spanRows[i].service : i \in SpansSince(Hour)}
        BY DEF MapNodes, ApmServices, SpanStats
      <4> QED BY <4>1, <4>2
    <3>2. CASE k # 1
      <4>1. Len(page.got) >= 1 /\ 1 \in 1..Len(page.got)
        BY <1>7, <1>8, <2>1, <3>2
      <4>2. got[1] = page.got[1]
        BY <1>7, <4>1
      <4> QED BY <4>1, <4>2 DEF DataIInv, MapStands
    <3> QED BY <3>1, <3>2
  <2>3. ASSUME k >= 2, NEW e \in got[2]
        PROVE  \/ e[2] \in DOMAIN got[1]
               \/ \E i \in page.spans + 1..Len(spanRows) : spanRows[i].service = e[2]
    <3>1. k = 2
      BY <2>1, <2>3
    <3>2. got[2] = MapEdges
      BY <1>7, <3>1, WhatStatementsSee DEF seen
    <3>3. PICK i \in SpansSince(Hour) :
            e = <<spanRows[spanRows[i].parent].service, spanRows[i].service>>
      BY <2>3, <3>2 DEF MapEdges
    <3>4. e[2] = spanRows[i].service
      BY <3>3
    <3>5. i \in 1..Len(spanRows) /\ Len(spanRows) \in Nat
      BY <1>9 DEF SpansSince, DataTyped
    <3>6. i <= page.spans \/ i \in page.spans + 1..Len(spanRows)
      BY <1>4, <3>5
    <3> QED BY <2>2, <3>3, <3>4, <3>6
  <2> QED BY <1>1, <1>7, <1>9, <1>12, <2>2, <2>3 DEF MapStands
<1> QED BY <1>9, <1>11, <1>13, <1>14, <1>15 DEF DataIInv

LEMMA InitData == DataInit => DataIInv
<1> SUFFICES ASSUME DataInit PROVE DataIInv
  OBVIOUS
<1>1. page = [kind |-> "none", since |-> 0, rows |-> 0, spans |-> 0, got |-> <<>>, answer |-> "none"]
      /\ hours = 0 /\ logRows = <<>> /\ spanRows = <<>>
  BY DEF DataInit, NoPage
<1>2. <<>> \in Seq({}) /\ <<>> \in Seq(LogRow) /\ <<>> \in Seq(SpanRow) /\ Len(<<>>) = 0
  OBVIOUS
<1>3. DataTyped
  BY <1>1, <1>2 DEF DataTyped
<1>4. PageShaped
  BY <1>1, <1>2 DEF PageShaped
<1> QED BY <1>1, <1>3, <1>4 DEF DataIInv, OverviewStands, SearchStands, MapStands

LEMMA RowsCome ==
  ASSUME DataIInv, LogsArrive \/ SpanArrives \/ HourPasses \/ UNCHANGED dataVars
  PROVE  DataIInv'
<1>1. /\ hours \in Nat /\ logRows \in Seq(LogRow) /\ spanRows \in Seq(SpanRow)
      /\ Len(logRows) \in Nat /\ Len(spanRows) \in Nat
  BY DEF DataIInv, DataTyped
<1>2. page' = page
  BY DEF LogsArrive, SpanArrives, HourPasses, dataVars
<1>3. DataTyped' /\ TablesGrow
  <2>1. CASE LogsArrive
    <3>1. PICK s \in DataServices, b \in Batches :
            logRows' = Append(logRows, [service |-> s, lines |-> b, at |-> hours])
      BY <2>1 DEF LogsArrive
    <3>2. hours' = hours /\ spanRows' = spanRows
      BY <2>1 DEF LogsArrive
    <3>3. [service |-> s, lines |-> b, at |-> hours] \in LogRow
      BY <1>1 DEF LogRow
    <3>4. /\ logRows' \in Seq(LogRow) /\ Len(logRows') = Len(logRows) + 1
          /\ \A i \in 1..Len(logRows) : logRows'[i] = logRows[i]
      BY <1>1, <3>1, <3>3
    <3> QED BY <1>1, <3>2, <3>4 DEF DataTyped, TablesGrow
  <2>2. CASE SpanArrives
    <3>1. PICK s \in DataServices, span \in Spans, parent \in {0} \union DOMAIN spanRows :
            spanRows' = Append(spanRows, [service |-> s, parent |-> parent, error |-> span.error,
                                          latency |-> span.latency, at |-> hours])
      BY <2>2 DEF SpanArrives
    <3>2. hours' = hours /\ logRows' = logRows
      BY <2>2 DEF SpanArrives
    <3>3. parent \in Nat /\ span.error \in BOOLEAN /\ span.latency \in Latencies
      BY <1>1, DataAssumption DEF DataAssumption
    <3>4. [service |-> s, parent |-> parent, error |-> span.error, latency |-> span.latency,
           at |-> hours] \in SpanRow
      BY <1>1, <3>3 DEF SpanRow
    <3>5. /\ spanRows' \in Seq(SpanRow) /\ Len(spanRows') = Len(spanRows) + 1
          /\ \A i \in 1..Len(spanRows) : spanRows'[i] = spanRows[i]
      BY <1>1, <3>1, <3>4
    <3> QED BY <1>1, <3>2, <3>5 DEF DataTyped, TablesGrow
  <2>3. CASE HourPasses \/ UNCHANGED dataVars
    <3>1. logRows' = logRows /\ spanRows' = spanRows /\ hours' \in {hours, hours + 1}
      BY <2>3 DEF HourPasses, dataVars
    <3> QED BY <1>1, <3>1 DEF DataTyped, TablesGrow
  <2> QED BY <2>1, <2>2, <2>3
<1> QED BY <1>2, <1>3, PageKept DEF DataIInv

LEMMA TornStand == DataIInv => TornPagesAddUp
<1> SUFFICES ASSUME DataIInv, page.answer = "full" PROVE TornPagesAddUp
  BY DEF TornPagesAddUp
<1>1. /\ page.kind = "overview" => Len(page.got) = 4
      /\ page.kind = "search" => Len(page.got) = 2
      /\ page.kind = "map" => Len(page.got) = 2
  BY DataFacts DEF DataIInv, PageShaped
<1>2. ASSUME page.kind = "overview"
      PROVE  /\ Cardinality(DOMAIN page.got[4]) <= page.got[1] + Len(logRows) - page.rows
             /\ page.got[1] > 0 => page.got[2].total > 0 \/ hours > page.since
  BY <1>1, <1>2 DEF DataIInv, OverviewStands
<1>3. ASSUME page.kind = "search"
      PROVE  \A s \in DataServices : page.got[2][s] >= SearchLimit \/ page.got[2][s] >= page.got[1][s]
  BY <1>1, <1>3 DEF DataIInv, SearchStands
<1>4. ASSUME page.kind = "map"
      PROVE  \A e \in page.got[2] : \/ e[2] \in DOMAIN page.got[1]
                                    \/ \E i \in page.spans + 1..Len(spanRows) : spanRows[i].service = e[2]
  BY <1>1, <1>4 DEF DataIInv, MapStands
<1> QED BY <1>2, <1>3, <1>4 DEF TornPagesAddUp

(* For any batches, spans and windows, with rows arriving and hours        *)
(* passing between any two statements: pages opened at one moment agree in *)
(* their sums, counts and severities (dashboard.py, log_data.py,           *)
(* trace_data.py, apm_data.py), and a page torn between two statements     *)
(* still has the services, lines and nodes it had counted.                 *)
THEOREM PagesStayTrue == DataSpec => []PagesAddUp
<1>1. DataIInv => PagesAddUp
  BY PagesAlwaysMatch, TornStand DEF DataIInv, PagesAddUp
<1>2. DataIInv /\ [DataNext]_dataVars => DataIInv'
  BY PageEmptied, PageReads, RowsCome DEF DataNext
<1> QED BY <1>1, <1>2, InitData, PTL DEF DataSpec

-----------------------------------------------------------------------------
(* The rows of a trace: those of one span are equal.                       *)
TraceRow == [id : SpanIds, parent : SpanIds \union {0}, duration : Nat]
TraceTyped ==
  /\ traceRows \in Seq(TraceRow)
  /\ \A i, j \in DOMAIN traceRows : traceRows[i].id = traceRows[j].id => traceRows[i] = traceRows[j]

LEMMA TraceFacts ==
  ASSUME TraceTyped
  PROVE  /\ DOMAIN traceRows = 1..Len(traceRows) /\ Len(traceRows) \in Nat
         /\ IsFiniteSet(DOMAIN traceRows)
         /\ \A i \in DOMAIN traceRows : /\ traceRows[i].id \in SpanIds
                                        /\ traceRows[i].parent \in SpanIds \union {0}
                                        /\ traceRows[i].duration \in Nat
         /\ \A id : Kids(id) \subseteq DOMAIN traceRows /\ IsFiniteSet(Kids(id))
<1>1. DOMAIN traceRows = 1..Len(traceRows) /\ Len(traceRows) \in Nat
  BY DEF TraceTyped
<1>2. \A n \in Nat : IsFiniteSet(1..n)
  BY FS_Interval
<1>3. IsFiniteSet(DOMAIN traceRows)
  BY <1>1, <1>2
<1>4. \A i \in DOMAIN traceRows : traceRows[i] \in TraceRow
  BY <1>1 DEF TraceTyped
<1>5. \A i \in DOMAIN traceRows : /\ traceRows[i].id \in SpanIds
                                  /\ traceRows[i].parent \in SpanIds \union {0}
                                  /\ traceRows[i].duration \in Nat
  BY <1>4 DEF TraceRow
<1>6. \A id : Kids(id) \subseteq DOMAIN traceRows
  BY DEF Kids
<1>7. \A id : IsFiniteSet(Kids(id))
  BY <1>3, <1>6, FS_Subset
<1> QED BY <1>1, <1>3, <1>5, <1>6, <1>7

(* Of the children there is a longest and of those a first.                *)
LEMMA LongestIs ==
  ASSUME TraceTyped, NEW id, Kids(id) # {}
  PROVE  /\ LongestKid(id) \in Kids(id)
         /\ \A j \in Kids(id) : traceRows[j].duration <= traceRows[LongestKid(id)].duration
<1> DEFINE Better(i, j) == \/ traceRows[i].duration > traceRows[j].duration
                           \/ traceRows[i].duration = traceRows[j].duration /\ i <= j
           H == {s \in SUBSET Kids(id) : s = {} \/ \E i \in s : \A j \in s : Better(i, j)}
<1>1. \A i \in Kids(id) : i \in Nat /\ traceRows[i].duration \in Nat
  BY TraceFacts
<1>2. \A i, j, k \in Kids(id) : /\ Better(i, i)
                                /\ Better(i, j) \/ Better(j, i)
                                /\ Better(i, j) /\ Better(j, k) => Better(i, k)
  BY <1>1
<1>3. \A i, j \in Kids(id) : Better(i, j) => traceRows[j].duration <= traceRows[i].duration
  BY <1>1
<1>4. LongestKid(id) = CHOOSE i \in Kids(id) : \A j \in Kids(id) : Better(i, j)
  BY DEF LongestKid
<1> HIDE DEF Better
<1>5. {} \in H
  OBVIOUS
<1>6. ASSUME NEW s \in SUBSET Kids(id), NEW a \in Kids(id) \ s, s \in H PROVE s \union {a} \in H
  <2>1. CASE s = {}
    BY <1>2, <2>1
  <2>2. CASE s # {}
    <3>1. PICK i \in s : \A j \in s : Better(i, j)
      BY <1>6, <2>2
    <3>2. CASE Better(i, a)
      BY <1>2, <3>1, <3>2
    <3>3. CASE Better(a, i)
      BY <1>2, <3>1, <3>3
    <3> QED BY <1>2, <3>1, <3>2, <3>3
  <2> QED BY <2>1, <2>2
<1>7. IsFiniteSet(Kids(id))
  BY TraceFacts
<1> HIDE DEF H
<1>8. Kids(id) \in H
  BY <1>5, <1>6, <1>7, GrowingSets
<1>9. \E i \in Kids(id) : \A j \in Kids(id) : Better(i, j)
  BY <1>8 DEF H
<1>10. LongestKid(id) \in Kids(id) /\ \A j \in Kids(id) : Better(LongestKid(id), j)
  BY <1>4, <1>9
<1> QED BY <1>3, <1>10

LEMMA RootIs ==
  ASSUME TraceTyped, traceRows # <<>>
  PROVE  \E x \in DOMAIN traceRows : RootRow = traceRows[x]
<1> DEFINE which == {i \in DOMAIN traceRows : traceRows[i].parent = 0}
           first == CHOOSE i \in which : \A j \in which : i <= j
<1>1. RootRow = traceRows[IF which = {} THEN 1 ELSE first]
  BY DEF RootRow, FirstRow
<1>2. DOMAIN traceRows = 1..Len(traceRows) /\ Len(traceRows) \in Nat /\ Len(traceRows) # 0
  BY TraceFacts DEF TraceTyped
<1>3. 1 \in DOMAIN traceRows
  BY <1>2
<1>4. which # {} => first \in which
  <2>1. which \in SUBSET Nat
    BY <1>2
  <2> QED BY <2>1, LeastNumber
<1> QED BY <1>1, <1>3, <1>4

(* A path that goes on to a longest child as long as there is one.         *)
WalksOn(n, base, step, g) == g[0] = base /\ \A k \in 1..n : g[k] = step[g[k - 1]]

LEMMA WalkExists ==
  ASSUME NEW n \in Nat, NEW St, NEW base \in St, NEW step \in [St -> St]
  PROVE  \E g \in [0..n -> St] : WalksOn(n, base, step, g)
<1> DEFINE H == {m \in Nat : \E g \in [0..m -> St] : g[0] = base /\ \A k \in 1..m : g[k] = step[g[k - 1]]}
<1>1. 0 \in H
  <2>1. [k \in 0..0 |-> base] \in [0..0 -> St] /\ [k \in 0..0 |-> base][0] = base /\ 1..0 = {}
    OBVIOUS
  <2> QED BY <2>1
<1>2. ASSUME NEW m \in Nat, m \in H PROVE m + 1 \in H
  <2>1. PICK g \in [0..m -> St] : g[0] = base /\ \A k \in 1..m : g[k] = step[g[k - 1]]
    BY <1>2
  <2> DEFINE f == [k \in 0..(m + 1) |-> IF k <= m THEN g[k] ELSE step[g[m]]]
  <2>2. f \in [0..(m + 1) -> St]
    BY <2>1
  <2>3. \A k \in 0..m : f[k] = g[k]
    OBVIOUS
  <2>4. f[m + 1] = step[g[m]]
    OBVIOUS
  <2> HIDE DEF f
  <2>5. f[0] = base
    BY <2>1, <2>3
  <2>6. ASSUME NEW k \in 1..(m + 1) PROVE f[k] = step[f[k - 1]]
    <3>1. CASE k \in 1..m
      <4>1. k \in 0..m /\ k - 1 \in 0..m
        BY <3>1
      <4> QED BY <2>1, <2>3, <3>1, <4>1
    <3>2. CASE k = m + 1
      <4>1. k - 1 = m /\ m \in 0..m
        BY <3>2
      <4> QED BY <2>3, <2>4, <3>2, <4>1
    <3> QED BY <3>1, <3>2
  <2> QED BY <2>2, <2>5, <2>6
<1> HIDE DEF H
<1>3. n \in H
  BY <1>1, <1>2, CountingUp
<1> QED BY <1>3 DEF H, WalksOn

Paths == {p \in Seq(SpanIds) : Len(p) >= 1}
TailOf(p) == p[Len(p)]
GoOn(p) == IF Kids(TailOf(p)) = {} THEN p ELSE Append(p, traceRows[LongestKid(TailOf(p))].id)
WayDown(p) ==
  /\ p \in Paths /\ p[1] = RootRow.id
  /\ \A k \in 2..Len(p) : Kids(p[k - 1]) # {} /\ p[k] = traceRows[LongestKid(p[k - 1])].id

LEMMA GoOnKeeps ==
  ASSUME TraceTyped, NEW p \in Paths
  PROVE  /\ GoOn(p) \in Paths
         /\ WayDown(p) => WayDown(GoOn(p))
         /\ Kids(TailOf(p)) # {} => Len(GoOn(p)) = Len(p) + 1
         /\ Kids(TailOf(p)) = {} => GoOn(p) = p
<1>0. p \in Seq(SpanIds) /\ Len(p) \in Nat /\ Len(p) >= 1
  BY DEF Paths
<1>1. CASE Kids(TailOf(p)) = {}
  BY <1>1 DEF GoOn
<1>2. CASE Kids(TailOf(p)) # {}
  <2> DEFINE x == traceRows[LongestKid(TailOf(p))].id
  <2>1. x \in SpanIds
    BY <1>2, LongestIs, TraceFacts
  <2>2. GoOn(p) = Append(p, x)
    BY <1>2 DEF GoOn
  <2>3. x = traceRows[LongestKid(p[Len(p)])].id /\ Kids(p[Len(p)]) # {}
    BY <1>2 DEF TailOf
  <2> HIDE DEF x
  <2>4. /\ GoOn(p) \in Seq(SpanIds) /\ Len(GoOn(p)) = Len(p) + 1
        /\ GoOn(p)[Len(p) + 1] = x /\ \A k \in 1..Len(p) : GoOn(p)[k] = p[k]
    BY <1>0, <2>1, <2>2
  <2>5. GoOn(p) \in Paths
    BY <1>0, <2>4 DEF Paths
  <2>6. ASSUME WayDown(p) PROVE WayDown(GoOn(p))
    <3>1. GoOn(p)[1] = RootRow.id
      BY <1>0, <2>4, <2>6 DEF WayDown
    <3>2. ASSUME NEW k \in 2..Len(GoOn(p))
          PROVE  Kids(GoOn(p)[k - 1]) # {} /\ GoOn(p)[k] = traceRows[LongestKid(GoOn(p)[k - 1])].id
      <4>1. CASE k \in 2..Len(p)
        <5>1. k \in 1..Len(p) /\ k - 1 \in 1..Len(p)
          BY <1>0, <4>1
        <5>2. GoOn(p)[k] = p[k] /\ GoOn(p)[k - 1] = p[k - 1]
          BY <2>4, <5>1
        <5> QED BY <2>6, <4>1, <5>2 DEF WayDown
      <4>2. CASE k = Len(p) + 1
        <5>1. k - 1 = Len(p) /\ Len(p) \in 1..Len(p)
          BY <1>0, <4>2
        <5>2. GoOn(p)[k] = x /\ GoOn(p)[k - 1] = p[Len(p)]
          BY <2>4, <4>2, <5>1
        <5> QED BY <2>3, <5>2
      <4> QED BY <1>0, <2>4, <4>1, <4>2
    <3> QED BY <2>5, <3>1, <3>2 DEF WayDown
  <2> QED BY <1>2, <2>4, <2>5, <2>6
<1> QED BY <1>1, <1>2

(* The path of a breakdown is as long as the steps, or ends at a leaf.     *)
LEMMA PathIs ==
  ASSUME TraceTyped, traceRows # <<>>
  PROVE  /\ WayDown(CriticalPath)
         /\ Len(CriticalPath) = MaxDepth + 1 \/ ~ Recurses
<1> DEFINE N == MaxDepth
           base == <<RootRow.id>>
           step == [p \in Paths |-> GoOn(p)]
           P(walk) == walk = [n \in 0..N |-> IF n = 0 THEN base ELSE GoOn(walk[n - 1])]
<1>1. N \in Nat
  BY TraceAssumption DEF TraceAssumption
<1>2. base \in Paths /\ WayDown(base) /\ Len(base) = 1
  <2>1. RootRow.id \in SpanIds
    BY RootIs, TraceFacts
  <2>2. base \in Seq(SpanIds) /\ Len(base) = 1 /\ base[1] = RootRow.id /\ 2..1 = {}
    BY <2>1
  <2> HIDE DEF base
  <2> QED BY SMTT(30), <2>2 DEF Paths, WayDown
<1>3. step \in [Paths -> Paths] /\ \A p \in Paths : step[p] = GoOn(p)
  BY GoOnKeeps
<1>4. CriticalPath = (CHOOSE walk : P(walk))[N]
  BY DEF CriticalPath, GoOn, TailOf
<1> HIDE DEF base, step, N
<1>5. PICK g \in [0..N -> Paths] : WalksOn(N, base, step, g)
  <2>1. base \in Paths
    BY <1>2
  <2>2. step \in [Paths -> Paths]
    BY <1>3
  <2> QED BY <1>1, <2>1, <2>2, WalkExists
<1>6. \A k \in 1..N : g[k] = GoOn(g[k - 1])
  <2>1. \A k \in 1..N : k - 1 \in 0..N
    BY <1>1
  <2> QED BY <1>3, <1>5, <2>1 DEF WalksOn
<1>7. P(g)
  <2>1. \A n \in 0..N : n # 0 => n \in 1..N
    BY <1>1
  <2>2. g = [n \in 0..N |-> g[n]]
    BY <1>5
  <2> QED BY <1>5, <1>6, <2>1, <2>2 DEF WalksOn
<1> DEFINE walk == CHOOSE w : P(w)
<1>8. P(walk)
  BY <1>7
<1> HIDE DEF walk
<1>9. /\ walk[0] = base /\ CriticalPath = walk[N]
      /\ \A k \in 1..N : walk[k] = GoOn(walk[k - 1])
  <2>1. 0 \in 0..N /\ \A k \in 1..N : k \in 0..N /\ k # 0
    BY <1>1
  <2>2. \A k \in 0..N : walk[k] = IF k = 0 THEN base ELSE GoOn(walk[k - 1])
    BY <1>8
  <2> QED BY <1>4, <2>1, <2>2 DEF walk
<1> HIDE DEF P
<1> DEFINE H == {k \in Nat : k <= N => /\ WayDown(walk[k])
                                       /\ Len(walk[k]) = k + 1 \/ Kids(TailOf(walk[k])) = {}}
<1>10. 0 \in H
  BY <1>2, <1>9
<1>11. ASSUME NEW k \in Nat, k \in H PROVE k + 1 \in H
  <2> SUFFICES ASSUME k + 1 <= N
               PROVE  /\ WayDown(walk[k + 1])
                      /\ Len(walk[k + 1]) = (k + 1) + 1 \/ Kids(TailOf(walk[k + 1])) = {}
    OBVIOUS
  <2>1. k <= N /\ k + 1 \in 1..N /\ (k + 1) - 1 = k
    BY <1>1
  <2>2. WayDown(walk[k]) /\ (Len(walk[k]) = k + 1 \/ Kids(TailOf(walk[k])) = {})
    BY <1>11, <2>1
  <2>3. walk[k + 1] = GoOn(walk[k]) /\ walk[k] \in Paths
    BY <1>9, <2>1, <2>2 DEF WayDown
  <2>4. WayDown(walk[k + 1])
    BY <2>2, <2>3, GoOnKeeps
  <2>5. CASE Kids(TailOf(walk[k])) = {}
    BY <2>3, <2>4, <2>5, GoOnKeeps
  <2>6. CASE Kids(TailOf(walk[k])) # {}
    BY <2>2, <2>3, <2>4, <2>6, GoOnKeeps
  <2> QED BY <2>5, <2>6
<1> HIDE DEF H
<1>12. Nat \subseteq H
  BY <1>10, <1>11, CountingUp
<1>13. WayDown(walk[N]) /\ (Len(walk[N]) = N + 1 \/ Kids(TailOf(walk[N])) = {})
  <2>1. N <= N
    BY <1>1
  <2>2. N \in H
    BY <1>1, <1>12, Zenon
  <2> QED BY <2>1, <2>2, Zenon DEF H
<1> QED BY <1>1, <1>9, <1>13 DEF Recurses, TailOf, N

LEMMA PercentOf ==
  ASSUME NEW d \in Nat, d # 0
  PROVE  (d * 100) \div d = 100
<1> DEFINE q == (d * 100) \div d
           r == (d * 100) % d
<1>1. q \in Int /\ r \in Int /\ d * 100 = d * q + r /\ 0 <= r /\ r < d
  OBVIOUS
<1> HIDE DEF q, r
<1>2. q < 101
  <2> SUFFICES ASSUME q >= 101 PROVE FALSE
    BY <1>1
  <2>1. d * q >= d * 101
    BY <1>1
  <2> QED BY <1>1, <2>1
<1>3. q > 99
  <2> SUFFICES ASSUME q <= 99 PROVE FALSE
    BY <1>1
  <2>1. d * q <= d * 99 /\ d * q \in Int
    BY <1>1
  <2> QED BY <1>1, <2>1
<1>4. q = 100
  BY <1>1, <1>2, <1>3
<1> QED BY <1>4 DEF q

LEMMA PathExplains == TraceTyped => CriticalPathIsLongest
<1> SUFFICES ASSUME TraceTyped, traceRows # <<>>
             PROVE  CriticalPathIsLongest
  BY DEF CriticalPathIsLongest
<1> DEFINE P == CriticalPath
<1>1. /\ P \in Seq(SpanIds) /\ Len(P) \in Nat /\ Len(P) >= 1
      /\ DOMAIN P = 1..Len(P) /\ P[1] = RootRow.id
      /\ \A k \in 2..Len(P) : Kids(P[k - 1]) # {} /\ P[k] = traceRows[LongestKid(P[k - 1])].id
  BY PathIs DEF WayDown, Paths
<1>2. ASSUME NEW k \in 2..Len(P)
      PROVE  /\ k - 1 \in 1..Len(P) /\ k \in 1..Len(P)
             /\ LongestKid(P[k - 1]) \in DOMAIN traceRows
             /\ P[k] = traceRows[LongestKid(P[k - 1])].id
             /\ traceRows[LongestKid(P[k - 1])].parent = P[k - 1]
             /\ \A j \in Kids(P[k - 1]) :
                  traceRows[j].duration <= traceRows[LongestKid(P[k - 1])].duration
  <2>1. k - 1 \in 1..Len(P) /\ k \in 1..Len(P)
    BY <1>1
  <2>2. Kids(P[k - 1]) # {} /\ P[k] = traceRows[LongestKid(P[k - 1])].id
    BY <1>1
  <2>3. LongestKid(P[k - 1]) \in Kids(P[k - 1])
    BY <2>2, LongestIs
  <2>4. LongestKid(P[k - 1]) \in DOMAIN traceRows /\ traceRows[LongestKid(P[k - 1])].parent = P[k - 1]
    BY <2>3 DEF Kids
  <2> QED BY <2>1, <2>2, <2>4, LongestIs
<1> HIDE DEF P
<1> DEFINE traced == {traceRows[i].id : i \in DOMAIN traceRows}
<1>3. ASSUME Recurses
      PROVE  \/ Cardinality(traced) > MaxDepth
             \/ \E S \in SUBSET SpanIds : S # {} /\ \A id \in S :
                  \E i \in DOMAIN traceRows : traceRows[i].id = id /\ traceRows[i].parent \in S
  <2> SUFFICES ASSUME ~ (Cardinality(traced) > MaxDepth)
               PROVE  \E S \in SUBSET SpanIds : S # {} /\ \A id \in S :
                  \E i \in DOMAIN traceRows : traceRows[i].id = id /\ traceRows[i].parent \in S
    OBVIOUS
  <2>1. Len(P) = MaxDepth + 1 /\ MaxDepth \in Nat
    BY <1>3, PathIs, TraceAssumption DEF P, TraceAssumption
  <2>2. IsFiniteSet(1..Len(P)) /\ Cardinality(1..Len(P)) = MaxDepth + 1
    BY <1>1, <2>1, FS_Interval
  <2>3. IsFiniteSet(traced) /\ Cardinality(traced) < MaxDepth + 1
    <3>0. traced \in SUBSET SpanIds
      BY TraceFacts
    <3>1. IsFiniteSet(traced) /\ Cardinality(traced) \in Nat
      BY <3>0, TraceAssumption, FS_Subset, FS_CardinalityType DEF TraceAssumption
    <3> HIDE DEF traced
    <3> QED BY <2>1, <3>1
  <2>4. P \in [1..Len(P) -> traced]
    <3>1. ASSUME NEW k \in 1..Len(P) PROVE P[k] \in traced
      <4>1. CASE k = 1
        <5>1. \E i \in DOMAIN traceRows : RootRow = traceRows[i]
          BY RootIs
        <5> QED BY <1>1, <4>1, <5>1
      <4>2. CASE k # 1
        <5>1. k \in 2..Len(P)
          BY <1>1, <4>2
        <5> QED BY <1>2, <5>1
      <4> QED BY <4>1, <4>2
    <3>2. P = [k \in 1..Len(P) |-> P[k]]
      BY <1>1
    <3> HIDE DEF traced
    <3> QED BY <3>1, <3>2
  <2> HIDE DEF traced
  <2>5. PICK x, y \in 1..Len(P) : x # y /\ P[x] = P[y]
    <3>1. Cardinality(traced) < Cardinality(1..Len(P))
      BY <2>2, <2>3
    <3> QED BY <2>2, <2>3, <2>4, <3>1, FS_PigeonHole
  <2>6. \E a, b \in 1..Len(P) : a < b /\ P[a] = P[b]
    <3>1. x < y \/ y < x
      BY <1>1, <2>5
    <3> QED BY <2>5, <3>1
  <2>7. PICK a, b \in 1..Len(P) : a < b /\ P[a] = P[b]
    BY <2>6
  <2> DEFINE S == {P[k] : k \in a + 1..b}
  <2>8. b \in a + 1..b
    BY <1>1, <2>7
  <2>9. \A k \in a + 1..b : k \in 2..Len(P) /\ k - 1 \in a..b
    BY <1>1, <2>7
  <2>10. S \in SUBSET SpanIds /\ S # {}
    <3>1. \A k \in a + 1..b : P[k] \in SpanIds
      BY <1>1, <2>9
    <3> QED BY <2>8, <3>1
  <2>11. ASSUME NEW k \in a..b PROVE P[k] \in S
    <3>1. CASE k = a
      BY <2>7, <2>8, <3>1
    <3>2. CASE k # a
      <4>1. k \in a + 1..b
        BY <1>1, <3>2
      <4> QED BY <4>1
    <3> QED BY <3>1, <3>2
  <2>12. ASSUME NEW id \in S
         PROVE  \E i \in DOMAIN traceRows : traceRows[i].id = id /\ traceRows[i].parent \in S
    <3>1. PICK k \in a + 1..b : id = P[k]
      OBVIOUS
    <3>2. k \in 2..Len(P) /\ P[k - 1] \in S
      BY <2>9, <2>11
    <3> HIDE DEF S
    <3> QED BY <1>2, <3>1, <3>2
  <2> HIDE DEF S
  <2> QED BY <2>10, <2>12
<1>4. ASSUME ~ Recurses
      PROVE  /\ RootRow.id \in Critical
             /\ \A i \in DOMAIN traceRows : traceRows[i].id \in Critical \ {RootRow.id} =>
                  /\ traceRows[i].parent \in Critical
                  /\ \A j \in Kids(traceRows[i].parent) : traceRows[j].duration <= traceRows[i].duration
             /\ \A id \in Critical : Kids(id) # {} => \E j \in Kids(id) : traceRows[j].id \in Critical
  <2>1. Critical = {P[k] : k \in 1..Len(P)}
    BY <1>1 DEF Critical, P
  <2>2. 1 \in 1..Len(P)
    BY <1>1
  <2>3. Kids(P[Len(P)]) = {}
    BY <1>4 DEF Recurses, P
  <2>4. ASSUME NEW i \in DOMAIN traceRows, traceRows[i].id \in Critical \ {RootRow.id}
        PROVE  /\ traceRows[i].parent \in Critical
               /\ \A j \in Kids(traceRows[i].parent) : traceRows[j].duration <= traceRows[i].duration
    <3>1. PICK k \in 1..Len(P) : traceRows[i].id = P[k]
      BY <2>1, <2>4
    <3>2. k # 1
      BY <1>1, <2>4, <3>1
    <3>3. k \in 2..Len(P)
      BY <1>1, <3>2
    <3> DEFINE m == LongestKid(P[k - 1])
    <3>4. /\ k - 1 \in 1..Len(P) /\ m \in DOMAIN traceRows /\ P[k] = traceRows[m].id
          /\ traceRows[m].parent = P[k - 1]
          /\ \A j \in Kids(P[k - 1]) : traceRows[j].duration <= traceRows[m].duration
      BY <1>2, <3>3
    <3> HIDE DEF m
    <3>5. traceRows[i] = traceRows[m]
      BY <3>1, <3>4 DEF TraceTyped
    <3> QED BY <2>1, <3>4, <3>5
  <2>5. ASSUME NEW id \in Critical, Kids(id) # {}
        PROVE  \E j \in Kids(id) : traceRows[j].id \in Critical
    <3>1. PICK k \in 1..Len(P) : id = P[k]
      BY <2>1
    <3>2. k # Len(P)
      BY <2>3, <2>5, <3>1
    <3>3. k + 1 \in 2..Len(P) /\ (k + 1) - 1 = k
      <4>1. \A n \in Nat : \A m \in 1..n : m # n => m + 1 \in 2..n /\ (m + 1) - 1 = m
        OBVIOUS
      <4>2. Len(P) \in Nat
        BY <1>1
      <4> QED BY <3>2, <4>1, <4>2
    <3>4. /\ k + 1 \in 1..Len(P) /\ LongestKid(P[k]) \in DOMAIN traceRows
          /\ P[k + 1] = traceRows[LongestKid(P[k])].id /\ traceRows[LongestKid(P[k])].parent = P[k]
      BY <1>2, <3>3
    <3>5. LongestKid(P[k]) \in Kids(P[k])
      BY <3>4 DEF Kids
    <3> QED BY <2>1, <3>1, <3>4, <3>5
  <2> QED BY <1>1, <2>1, <2>2, <2>4, <2>5
<1>5. TraceBreakdown[CHOOSE i \in DOMAIN traceRows : traceRows[i] = RootRow].share \in {0, 100}
  <2> DEFINE x == CHOOSE i \in DOMAIN traceRows : traceRows[i] = RootRow
  <2>1. x \in DOMAIN traceRows /\ traceRows[x] = RootRow
    BY RootIs
  <2> HIDE DEF x
  <2>2. TraceBreakdown[x].share = (RootRow.duration * 100) \div TotalDuration
    BY <2>1 DEF TraceBreakdown
  <2>3. RootRow.duration \in Nat
    BY <2>1, TraceFacts
  <2>4. CASE RootRow.duration = 0
    <3>1. TotalDuration = 1
      BY <2>4 DEF TotalDuration
    <3>2. (0 * 100) \div 1 = 0
      OBVIOUS
    <3> QED BY <2>2, <2>4, <3>1, <3>2 DEF x
  <2>5. CASE RootRow.duration # 0
    <3>1. TotalDuration = RootRow.duration
      BY <2>5 DEF TotalDuration
    <3>2. (RootRow.duration * 100) \div RootRow.duration = 100
      BY <2>3, <2>5, PercentOf
    <3> QED BY <2>2, <3>1, <3>2 DEF x
  <2> QED BY <2>4, <2>5
<1> QED BY <1>3, <1>4, <1>5 DEF CriticalPathIsLongest

(* The analysis of an endpoint between its reads.                          *)
AnalysisStands ==
  /\ analysis \in [step : 0..3, count : Nat, threshold : Int, slow : Nat, histogram : Nat]
  /\ analysis.step = 1 =>
       /\ analysis.count <= Cardinality(Kids(0))
       /\ analysis.count > 0 => \E i \in Kids(0) : traceRows[i].duration >= analysis.threshold
  /\ analysis.step = 2 =>
       /\ analysis.count <= Cardinality(Kids(0)) /\ analysis.slow <= Cardinality(Kids(0))
       /\ analysis.count > 0 => analysis.slow > 0
  /\ analysis.step = 3 =>
       /\ analysis.histogram >= analysis.count /\ analysis.slow <= analysis.histogram
       /\ analysis.count > 0 => analysis.slow > 0

TraceIInv == TraceTyped /\ AnalysisStands

LEMMA EntriesCounted ==
  ASSUME TraceTyped
  PROVE  /\ IsFiniteSet(Kids(0)) /\ Cardinality(Kids(0)) \in Nat
         /\ \A some \in SUBSET Kids(0) : /\ Cardinality(some) \in Nat
                                         /\ Cardinality(some) <= Cardinality(Kids(0))
                                         /\ some # {} => Cardinality(some) > 0
<1>1. IsFiniteSet(Kids(0))
  BY TraceFacts
<1>2. \A some \in SUBSET Kids(0) : IsFiniteSet(some) /\ Cardinality(some) <= Cardinality(Kids(0))
  BY <1>1, FS_Subset
<1>3. \A some \in SUBSET Kids(0) : Cardinality(some) \in Nat /\ (some # {} => Cardinality(some) # 0)
  BY <1>2, FS_CardinalityType, FS_EmptySet
<1>4. Cardinality(Kids(0)) \in Nat
  BY <1>1, FS_CardinalityType
<1> QED BY <1>1, <1>2, <1>3, <1>4

LEMMA SlowestEntry ==
  ASSUME TraceTyped, Kids(0) # {}
  PROVE  /\ EntryDurations # {} /\ Max(EntryDurations) \in Nat
         /\ \E i \in Kids(0) : traceRows[i].duration = Max(EntryDurations)
<1> DEFINE x == LongestKid(0)
<1>1. x \in Kids(0) /\ \A j \in Kids(0) : traceRows[j].duration <= traceRows[x].duration
  BY LongestIs
<1>2. \A j \in Kids(0) : traceRows[j].duration \in Nat
  BY TraceFacts
<1> HIDE DEF x
<1>3. EntryDurations = {traceRows[i].duration : i \in Kids(0)}
  BY DEF EntryDurations
<1>4. \E y \in EntryDurations : \A z \in EntryDurations : y >= z
  BY <1>1, <1>2, <1>3
<1>5. Max(EntryDurations) \in EntryDurations
  BY <1>4 DEF Max
<1> QED BY <1>1, <1>2, <1>3, <1>5

LEMMA AnalysisReads ==
  ASSUME TraceIInv, ReadFigures \/ ReadSlow \/ ReadHistogram
  PROVE  TraceIInv'
<1>1. traceRows' = traceRows
  BY DEF ReadFigures, ReadSlow, ReadHistogram
<1>2. TraceTyped /\ TraceTyped' /\ Kids(0)' = Kids(0)
  BY <1>1 DEF TraceIInv, TraceTyped, Kids
<1>3. /\ Cardinality(Kids(0)) \in Nat /\ IsFiniteSet(Kids(0))
      /\ \A some \in SUBSET Kids(0) : /\ Cardinality(some) \in Nat
                                      /\ Cardinality(some) <= Cardinality(Kids(0))
                                      /\ some # {} => Cardinality(some) > 0
  BY <1>2, EntriesCounted
<1>4. analysis \in [step : 0..3, count : Nat, threshold : Int, slow : Nat, histogram : Nat]
  BY DEF TraceIInv, AnalysisStands
<1>5. CASE ReadFigures
  <2> DEFINE n == Cardinality(Kids(0))
  <2>1. PICK below \in IF EntryDurations = {} THEN {0} ELSE {0, 1} :
          analysis' = [NoAnalysis EXCEPT !.step = 1, !.count = n,
            !.threshold = IF EntryDurations = {} THEN 0 ELSE Max(EntryDurations) - below]
    BY Zenon, <1>5 DEF ReadFigures
  <2> DEFINE t == IF EntryDurations = {} THEN 0 ELSE Max(EntryDurations) - below
  <2>2. analysis' = [step |-> 1, count |-> n, threshold |-> t, slow |-> 0, histogram |-> 0]
    BY <2>1 DEF NoAnalysis
  <2>3. EntryDurations = {} <=> Kids(0) = {}
    BY DEF EntryDurations
  <2>4. t \in Int /\ (n > 0 => \E i \in Kids(0) : traceRows[i].duration >= t)
    <3>1. CASE Kids(0) = {}
      <4>1. n = 0
        BY <3>1, FS_EmptySet
      <4> QED BY <2>3, <3>1, <4>1
    <3>2. CASE Kids(0) # {}
      <4>1. PICK i \in Kids(0) : traceRows[i].duration = Max(EntryDurations)
        BY <1>2, <3>2, SlowestEntry
      <4>2. Max(EntryDurations) \in Nat /\ below \in {0, 1} /\ t = Max(EntryDurations) - below
        BY <1>2, <2>3, <3>2, SlowestEntry
      <4> HIDE DEF t
      <4>3. t \in Int /\ Max(EntryDurations) >= t
        BY <4>2
      <4> QED BY <4>1, <4>3
    <3> QED BY <3>1, <3>2
  <2> HIDE DEF t, n
  <2>5. n \in Nat /\ n = Cardinality(Kids(0)')
    BY <1>2, <1>3 DEF n
  <2>6. AnalysisStands'
    BY <1>1, <1>2, <2>2, <2>4, <2>5 DEF AnalysisStands
  <2> QED BY SMTT(30), <1>2, <2>6 DEF TraceIInv
<1>6. CASE ReadSlow
  <2> DEFINE slow == {i \in Kids(0) : traceRows[i].duration >= analysis.threshold}
             m == IF analysis.count = 0 THEN 0 ELSE Cardinality(slow)
  <2>1. analysis.step = 1 /\ analysis' = [analysis EXCEPT !.step = 2, !.threshold = 0, !.slow = m]
    BY <1>6 DEF ReadSlow
  <2>2. analysis' = [step |-> 2, count |-> analysis.count, threshold |-> 0, slow |-> m,
                     histogram |-> analysis.histogram]
    BY <1>4, <2>1
  <2>3. /\ analysis.count \in Nat /\ analysis.histogram \in Nat
        /\ analysis.count <= Cardinality(Kids(0)) /\ (analysis.count > 0 => slow # {})
    BY <2>1 DEF TraceIInv, AnalysisStands
  <2>4. m \in Nat /\ m <= Cardinality(Kids(0)) /\ (analysis.count > 0 => m > 0)
    <3>1. /\ Cardinality(slow) \in Nat /\ Cardinality(slow) <= Cardinality(Kids(0))
          /\ slow # {} => Cardinality(slow) > 0
      BY <1>3
    <3> HIDE DEF slow
    <3> QED BY <1>3, <2>3, <3>1
  <2> HIDE DEF m
  <2>5. AnalysisStands'
    BY <1>2, <2>2, <2>3, <2>4 DEF AnalysisStands
  <2> QED BY <1>2, <2>5 DEF TraceIInv
<1>7. CASE ReadHistogram
  <2>1. analysis.step = 2 /\ analysis' = [analysis EXCEPT !.step = 3, !.histogram = Cardinality(Kids(0))]
    BY <1>7 DEF ReadHistogram
  <2>2. analysis' = [step |-> 3, count |-> analysis.count, threshold |-> analysis.threshold,
                     slow |-> analysis.slow, histogram |-> Cardinality(Kids(0))]
    BY <1>4, <2>1
  <2>3. /\ analysis.count <= Cardinality(Kids(0)) /\ analysis.slow <= Cardinality(Kids(0))
        /\ analysis.count > 0 => analysis.slow > 0
    BY <2>1 DEF TraceIInv, AnalysisStands
  <2>4. analysis.count \in Nat /\ analysis.slow \in Nat /\ analysis.threshold \in Int
    BY <1>4
  <2>5. AnalysisStands'
    BY <1>3, <2>2, <2>3, <2>4 DEF AnalysisStands
  <2> QED BY <1>2, <2>5 DEF TraceIInv
<1> QED BY <1>5, <1>6, <1>7

LEMMA RowsStay ==
  ASSUME TraceIInv, RowArrives
  PROVE  TraceIInv'
<1>1. PICK id \in SpanIds, parent \in SpanIds \union {0}, d \in Durations :
        LET row == [id |-> id, parent |-> parent, duration |-> d]
        IN  /\ \A i \in DOMAIN traceRows : traceRows[i].id = id => traceRows[i] = row
            /\ traceRows' \in {Append(traceRows, row), <<row>> \o traceRows}
  BY DEF RowArrives
<1> DEFINE row == [id |-> id, parent |-> parent, duration |-> d]
           n == Len(traceRows)
<1>2. /\ \A i \in DOMAIN traceRows : traceRows[i].id = id => traceRows[i] = row
      /\ traceRows' = Append(traceRows, row) \/ traceRows' = <<row>> \o traceRows
  BY <1>1
<1>3. row \in TraceRow /\ row.id = id
  BY TraceAssumption DEF TraceAssumption, TraceRow
<1>4. TraceTyped /\ traceRows \in Seq(TraceRow) /\ n \in Nat /\ DOMAIN traceRows = 1..n
  BY DEF TraceIInv, TraceTyped
<1> HIDE DEF row
<1>5. PICK by \in {0, 1} :
        /\ traceRows' \in Seq(TraceRow) /\ DOMAIN traceRows' = 1..(n + 1)
        /\ \A i \in 1..n : i + by \in 1..(n + 1) /\ traceRows'[i + by] = traceRows[i]
        /\ \A i \in 1..(n + 1) : traceRows'[i] = row \/ \E j \in 1..n : traceRows'[i] = traceRows[j]
  <2>1. CASE traceRows' = Append(traceRows, row)
    <3>1. /\ traceRows' \in Seq(TraceRow) /\ Len(traceRows') = n + 1
          /\ \A i \in 1..n : traceRows'[i] = traceRows[i]
          /\ traceRows'[n + 1] = row
      BY <1>3, <1>4, <2>1
    <3>2. DOMAIN traceRows' = 1..(n + 1)
      BY <3>1
    <3>3. \A i \in 1..n : i + 0 \in 1..(n + 1) /\ i + 0 = i
      BY <1>4
    <3>4. \A i \in 1..(n + 1) : i \in 1..n \/ i = n + 1
      BY <1>4
    <3> HIDE DEF n
    <3>5. \A i \in 1..(n + 1) : traceRows'[i] = row \/ \E j \in 1..n : traceRows'[i] = traceRows[j]
      BY <3>1, <3>4
    <3>6. \A i \in 1..n : i + 0 \in 1..(n + 1) /\ traceRows'[i + 0] = traceRows[i]
      BY <3>1, <3>3
    <3> QED BY <3>1, <3>2, <3>5, <3>6
  <2>2. CASE traceRows' = <<row>> \o traceRows
    <3>0. <<row>> \in Seq(TraceRow) /\ Len(<<row>>) = 1 /\ <<row>>[1] = row
      BY <1>3
    <3>1. /\ traceRows' \in Seq(TraceRow) /\ Len(traceRows') = n + 1
          /\ \A i \in 1..(n + 1) : traceRows'[i] = IF i <= 1 THEN <<row>>[i] ELSE traceRows[i - 1]
      BY <1>4, <2>2, <3>0
    <3>2. DOMAIN traceRows' = 1..(n + 1)
      BY <3>1
    <3>3. \A i \in 1..n : i + 1 \in 1..(n + 1) /\ ~(i + 1 <= 1) /\ (i + 1) - 1 = i
      BY <1>4
    <3>4. \A i \in 1..(n + 1) : i = 1 \/ (~(i <= 1) /\ i - 1 \in 1..n)
      BY <1>4
    <3> HIDE DEF n
    <3>5. \A i \in 1..n : i + 1 \in 1..(n + 1) /\ traceRows'[i + 1] = traceRows[i]
      BY <3>1, <3>3
    <3>6. \A i \in 1..(n + 1) : traceRows'[i] = row \/ \E j \in 1..n : traceRows'[i] = traceRows[j]
      <4> SUFFICES ASSUME NEW i \in 1..(n + 1)
                   PROVE  traceRows'[i] = row \/ \E j \in 1..n : traceRows'[i] = traceRows[j]
        OBVIOUS
      <4>1. CASE i = 1
        <5>1. traceRows'[1] = row
          BY <3>0, <3>1, <4>1
        <5> QED BY <4>1, <5>1
      <4>2. CASE ~(i <= 1) /\ i - 1 \in 1..n
        BY <3>1, <4>2
      <4> QED BY <3>4, <4>1, <4>2
    <3> QED BY <3>1, <3>2, <3>5, <3>6
  <2> QED BY <1>2, <2>1, <2>2
<1> HIDE DEF n
<1>6. TraceTyped'
  <2>1. ASSUME NEW i \in DOMAIN traceRows', NEW j \in DOMAIN traceRows',
               traceRows'[i].id = traceRows'[j].id
        PROVE  traceRows'[i] = traceRows'[j]
    <3>1. /\ traceRows'[i] = row \/ \E k \in 1..n : traceRows'[i] = traceRows[k]
          /\ traceRows'[j] = row \/ \E k \in 1..n : traceRows'[j] = traceRows[k]
      BY <1>5
    <3> QED BY <1>2, <1>3, <1>4, <2>1, <3>1 DEF TraceTyped
  <2> QED BY <1>5, <2>1 DEF TraceTyped
<1>7. \A i \in Kids(0) : i + by \in Kids(0)' /\ traceRows'[i + by] = traceRows[i]
  BY <1>4, <1>5 DEF Kids
<1>8. Cardinality(Kids(0)) <= Cardinality(Kids(0)') /\ Cardinality(Kids(0)) \in Nat
      /\ Cardinality(Kids(0)') \in Nat
  <2> DEFINE more == Kids(0)'
             f == [j \in more |-> j - by]
             image == {f[j] : j \in more}
  <2>1. IsFiniteSet(more)
    <3>1. more \subseteq 1..(n + 1)
      BY <1>5 DEF Kids
    <3>2. IsFiniteSet(1..(n + 1))
      BY <1>4, FS_Interval
    <3> QED BY <3>1, <3>2, FS_Subset
  <2>2. \A i \in Kids(0) : i + by \in more /\ (i + by) - by = i
    BY <1>4, <1>7 DEF Kids
  <2> HIDE DEF more
  <2>3. \A i \in Kids(0) : f[i + by] = i
    BY <2>2
  <2> HIDE DEF f
  <2>4. Kids(0) \subseteq image
    BY <2>2, <2>3
  <2>5. Cardinality(image) <= Cardinality(more) /\ IsFiniteSet(image)
    BY <2>1, ImageIsSmaller, ImageIsFinite
  <2> HIDE DEF image
  <2>6. /\ Cardinality(Kids(0)) <= Cardinality(image) /\ IsFiniteSet(Kids(0))
    BY <2>4, <2>5, FS_Subset
  <2>7. Cardinality(Kids(0)) \in Nat /\ Cardinality(image) \in Nat /\ Cardinality(more) \in Nat
    BY <2>1, <2>5, <2>6, FS_CardinalityType
  <2> QED BY <2>5, <2>6, <2>7 DEF more
<1>9. analysis' = analysis
  BY DEF RowArrives
<1>10. AnalysisStands'
  <2>1. analysis.count \in Nat /\ analysis.slow \in Nat
    BY DEF TraceIInv, AnalysisStands
  <2>2. ASSUME analysis.step = 1
        PROVE  /\ analysis.count <= Cardinality(Kids(0)')
               /\ analysis.count > 0 => \E i \in Kids(0)' : traceRows'[i].duration >= analysis.threshold
    <3>1. analysis.count <= Cardinality(Kids(0))
      BY <2>2 DEF TraceIInv, AnalysisStands
    <3>2. ASSUME analysis.count > 0
          PROVE  \E i \in Kids(0)' : traceRows'[i].duration >= analysis.threshold
      <4>1. PICK i \in Kids(0) : traceRows[i].duration >= analysis.threshold
        BY <2>2, <3>2 DEF TraceIInv, AnalysisStands
      <4> QED BY <1>7, <4>1
    <3> QED BY <1>8, <2>1, <3>1, <3>2
  <2>3. ASSUME analysis.step = 2
        PROVE  /\ analysis.count <= Cardinality(Kids(0)') /\ analysis.slow <= Cardinality(Kids(0)')
               /\ analysis.count > 0 => analysis.slow > 0
    <3>1. /\ analysis.count <= Cardinality(Kids(0)) /\ analysis.slow <= Cardinality(Kids(0))
          /\ analysis.count > 0 => analysis.slow > 0
      BY <2>3 DEF TraceIInv, AnalysisStands
    <3> QED BY <1>8, <2>1, <3>1
  <2> QED BY <1>9, <2>2, <2>3 DEF TraceIInv, AnalysisStands
<1> QED BY <1>6, <1>10 DEF TraceIInv

(* For any rows, in any order and repeated, and any number of spans: the   *)
(* critical path of a breakdown goes from the root to a leaf along longest *)
(* children, or the rows are each other's ancestors; and an analysis whose *)
(* reads saw different rows adds up (latency.py).                          *)
THEOREM TracesStayExplained == TraceSpec => []TracesAreExplained
<1>1. TraceInit => TraceIInv
  <2> SUFFICES ASSUME TraceInit PROVE TraceIInv
    OBVIOUS
  <2>1. traceRows = <<>> /\ analysis = [step |-> 0, count |-> 0, threshold |-> 0, slow |-> 0, histogram |-> 0]
    BY DEF TraceInit, NoAnalysis
  <2>2. <<>> \in Seq(TraceRow) /\ DOMAIN <<>> = {}
    OBVIOUS
  <2> QED BY <2>1, <2>2 DEF TraceIInv, TraceTyped, AnalysisStands
<1>2. TraceIInv /\ [TraceNext]_traceVars => TraceIInv'
  <2>1. ASSUME TraceIInv, UNCHANGED traceVars PROVE TraceIInv'
    BY <2>1 DEF traceVars, TraceIInv, TraceTyped, AnalysisStands, Kids
  <2> QED BY <2>1, AnalysisReads, RowsStay DEF TraceNext
<1>3. TraceIInv => TracesAreExplained
  <2>1. TraceIInv => AnalysisAddsUp
    BY DEF TraceIInv, AnalysisStands, AnalysisAddsUp
  <2> QED BY <2>1, PathExplains DEF TracesAreExplained, TraceIInv
<1> QED BY <1>1, <1>2, <1>3, PTL DEF TraceSpec
=============================================================================
