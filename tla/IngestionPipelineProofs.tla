----------------------- MODULE IngestionPipelineProofs -----------------------
(***************************************************************************)
(* The pipeline keeps the contract of a request, for any requests and any  *)
(* finite bodies, whatever records they share: a record gets one fate,     *)
(* which is final, and the answer comes once, after all of them.  What it  *)
(* rests on is where a request's records are while it awaits its           *)
(* publishes: each accepted one is still to be offered, was offered, or    *)
(* was dropped.                                                            *)
(***************************************************************************)
EXTENDS IngestionPipeline, FiniteSetTheorems, TLAPS

(* The types of what the contract is about.                                *)
RequestsTyped ==
  /\ phase \in [Requests -> Phases]
  /\ accepted \in [Requests -> SUBSET Records]
  /\ todo \in [Requests -> SUBSET Records]
  /\ offered \in [Requests -> SUBSET Records]
  /\ dropped \in [Requests -> SUBSET Records]
  /\ refused \in SUBSET Requests
  /\ pressed \in SUBSET refused
  /\ response \in [Requests -> [accepted : Nat, rejected : Int] \union {NoResponse, Raised}]
  /\ \A r \in Requests : accepted[r] \subseteq RecordsOf[r]

(* What is known of a request at each await of process_*.                  *)
Progress ==
  \A r \in Requests :
    /\ phase[r] \in {"idle", "routing", "deadletter"} => response[r] = NoResponse
    /\ phase[r] = "idle" => accepted[r] = {}
    /\ phase[r] \in {"idle", "deadletter"} => offered[r] = {} /\ dropped[r] = {}
    /\ phase[r] \in {"idle", "routing"} => r \notin refused
    /\ phase[r] = "deadletter" => r \in refused
    /\ phase[r] = "routing" =>
         /\ wiring.router
         /\ accepted[r] = todo[r] \union offered[r] \union dropped[r]
         /\ todo[r] \intersect (offered[r] \union dropped[r]) = {}
    /\ offered[r] \intersect dropped[r] = {}
    /\ r \in refused => offered[r] = {} /\ dropped[r] = {}
    /\ offered[r] \union dropped[r] \subseteq accepted[r]

PipelineIInv == RequestsTyped /\ Progress

-----------------------------------------------------------------------------
LEMMA Bodies ==
  /\ \A r \in Requests : RecordsOf[r] \subseteq Records
  /\ \A r \in Requests : \A S \in SUBSET RecordsOf[r] : IsFiniteSet(S) /\ Cardinality(S) \in Nat
BY PipelineAssumption, FS_Subset, FS_CardinalityType DEF PipelineAssumption

LEMMA ScreenedRecords ==
  ASSUME NEW r \in Requests, NEW s \in Screenings(r)
  PROVE  s.ok \in SUBSET RecordsOf[r]
BY DEF Screenings

LEMMA InitProgress == Init => PipelineIInv
BY DEF Init, PipelineInit, PipelineIInv, RequestsTyped, Progress, Phases, NoResponse, Raised

(* What the tail of process_* writes.                                      *)
LEMMA FinishEffect ==
  ASSUME NEW r \in Requests, NEW ok \in SUBSET RecordsOf[r], Finish(r, ok), PipelineIInv
  PROVE  /\ phase' = [phase EXCEPT ![r] = "done"]
         /\ response'[r].accepted = Cardinality(ok) \/ response'[r].accepted = -1
         /\ response' \in [Requests -> [accepted : Nat, rejected : Int] \union {NoResponse, Raised}]
         /\ \A s \in Requests \ {r} : response'[s] = response[s]
<1>1. Cardinality(ok) \in Nat /\ Cardinality(RecordsOf[r]) \in Nat
  BY Bodies
<1> QED BY <1>1 DEF Finish, Raised, PipelineIInv, RequestsTyped

LEMMA ReceiveNothingKeeps ==
  ASSUME NEW r \in Requests, PipelineIInv, ReceiveNothing(r)
  PROVE  PipelineIInv'
<1>1. /\ phase[r] = "idle" /\ accepted' = [accepted EXCEPT ![r] = {}] /\ Finish(r, {})
      /\ UNCHANGED <<wiring, todo, offered, dropped, refused, pressed>>
  BY DEF ReceiveNothing, Screened, historyVars
<1>2. RequestsTyped'
  BY <1>1, FinishEffect DEF PipelineIInv, RequestsTyped, Phases
<1>3. Progress'
  BY <1>1, FinishEffect DEF PipelineIInv, RequestsTyped, Progress
<1> QED BY <1>2, <1>3 DEF PipelineIInv

LEMMA ReceiveUnroutedKeeps ==
  ASSUME NEW r \in Requests, PipelineIInv, ReceiveUnrouted(r)
  PROVE  PipelineIInv'
<1>1. PICK ok \in SUBSET RecordsOf[r] : accepted' = [accepted EXCEPT ![r] = ok] /\ Finish(r, ok)
  BY ScreenedRecords DEF ReceiveUnrouted, Screened
<1>2. phase[r] = "idle" /\ UNCHANGED <<wiring, todo, offered, dropped, refused, pressed>>
  BY DEF ReceiveUnrouted, Screened, historyVars
<1>3. RequestsTyped'
  BY <1>1, <1>2, Bodies, FinishEffect DEF PipelineIInv, RequestsTyped, Phases
<1>4. Progress'
  BY <1>1, <1>2, FinishEffect DEF PipelineIInv, RequestsTyped, Progress
<1> QED BY <1>3, <1>4 DEF PipelineIInv

LEMMA ReceiveRefusedKeeps ==
  ASSUME NEW r \in Requests, PipelineIInv, ReceiveRefused(r)
  PROVE  PipelineIInv'
<1>1. PICK ok \in SUBSET RecordsOf[r] :
        /\ accepted' = [accepted EXCEPT ![r] = ok]
        /\ \/ phase' = [phase EXCEPT ![r] = "deadletter"] /\ response' = response
           \/ Finish(r, ok)
  BY ScreenedRecords DEF ReceiveRefused, Screened
<1>2. /\ phase[r] = "idle" /\ refused' = refused \union {r}
      /\ pressed' = pressed \/ pressed' = pressed \union {r}
      /\ UNCHANGED <<wiring, todo, offered, dropped>>
  BY DEF ReceiveRefused, Screened
<1>3. RequestsTyped'
  BY <1>1, <1>2, Bodies, FinishEffect DEF PipelineIInv, RequestsTyped, Phases
<1>4. Progress'
  BY <1>1, <1>2, FinishEffect DEF PipelineIInv, RequestsTyped, Progress
<1> QED BY <1>3, <1>4 DEF PipelineIInv

LEMMA ReceiveRoutableKeeps ==
  ASSUME NEW r \in Requests, PipelineIInv, ReceiveRoutable(r)
  PROVE  PipelineIInv'
<1>1. PICK ok \in SUBSET RecordsOf[r] :
        accepted' = [accepted EXCEPT ![r] = ok] /\ todo' = [todo EXCEPT ![r] = ok]
  BY ScreenedRecords DEF ReceiveRoutable, Screened
<1>2. /\ phase[r] = "idle" /\ wiring.router /\ phase' = [phase EXCEPT ![r] = "routing"]
      /\ UNCHANGED <<wiring, offered, dropped, refused, pressed, response>>
  BY DEF ReceiveRoutable, Screened, historyVars
<1>3. RequestsTyped'
  BY <1>1, <1>2, Bodies DEF PipelineIInv, RequestsTyped, Phases
<1>4. Progress'
  BY <1>1, <1>2 DEF PipelineIInv, RequestsTyped, Progress
<1> QED BY <1>3, <1>4 DEF PipelineIInv

(* One turn of _publish_batch moves a record out of todo.                  *)
LEMMA OfferKeeps ==
  ASSUME NEW r \in Requests, NEW m \in RecordsOf[r], PipelineIInv,
         Publish(r, m) \/ PublishFails(r, m)
  PROVE  PipelineIInv'
<1>1. /\ phase[r] = "routing" /\ m \in todo[r] /\ todo' = [todo EXCEPT ![r] = @ \ {m}]
      /\ \/ Finish(r, accepted[r]) \/ UNCHANGED <<phase, response>>
      /\ UNCHANGED <<wiring, accepted, refused, pressed>>
      /\ \/ /\ offered' = [offered EXCEPT ![r] = @ \union {m}] /\ UNCHANGED dropped
         \/ /\ dropped' = [dropped EXCEPT ![r] = @ \union {m}] /\ UNCHANGED offered
  BY DEF Publish, PublishFails, AfterOffer
<1>2. RequestsTyped'
  BY <1>1, Bodies, FinishEffect DEF PipelineIInv, RequestsTyped, Phases
<1>3. Progress'
  BY <1>1, Bodies, FinishEffect DEF PipelineIInv, RequestsTyped, Progress
<1> QED BY <1>2, <1>3 DEF PipelineIInv

LEMMA DeadLetterKeeps ==
  ASSUME NEW r \in Requests, PipelineIInv, DeadLetter(r)
  PROVE  PipelineIInv'
<1>1. /\ phase[r] = "deadletter" /\ Finish(r, accepted[r])
      /\ UNCHANGED <<wiring, accepted, todo, offered, dropped, refused, pressed>>
  BY DEF DeadLetter, historyVars
<1>2. RequestsTyped'
  BY <1>1, FinishEffect DEF PipelineIInv, RequestsTyped, Phases
<1>3. Progress'
  BY <1>1, FinishEffect DEF PipelineIInv, RequestsTyped, Progress
<1> QED BY <1>2, <1>3 DEF PipelineIInv

LEMMA CrashKeeps ==
  ASSUME PipelineIInv, Crash
  PROVE  PipelineIInv'
BY DEF PipelineIInv, RequestsTyped, Progress, Crash, historyVars, Phases

(* PipelineIInv is inductive.                                              *)
THEOREM PipelineInvariant == Spec => []PipelineIInv
<1>1. PipelineIInv /\ [Next]_vars => PipelineIInv'
  <2> SUFFICES ASSUME PipelineIInv, [Next]_vars PROVE PipelineIInv'
    OBVIOUS
  <2>1. ASSUME NEW r \in Requests, Receive(r) PROVE PipelineIInv'
    BY <2>1, ReceiveNothingKeeps, ReceiveUnroutedKeeps, ReceiveRefusedKeeps,
       ReceiveRoutableKeeps DEF Receive
  <2>2. ASSUME NEW r \in Requests, Advance(r) PROVE PipelineIInv'
    BY <2>2, OfferKeeps, DeadLetterKeeps DEF Advance
  <2>3. CASE Crash
    BY <2>3, CrashKeeps
  <2>4. CASE UNCHANGED vars
    BY <2>4 DEF vars, pipelineVars, historyVars, PipelineIInv, RequestsTyped, Progress
  <2> QED BY <2>1, <2>2, <2>3, <2>4 DEF Next
<1> QED BY <1>1, InitProgress, PTL DEF Spec

-----------------------------------------------------------------------------
(* The requests that came in, and those that published a record.           *)
Received == {r \in Requests : phase[r] # "idle"}
Publishers(m) == {r \in Requests : m \in offered[r]}

(* What the counters and the bags of records hold.                         *)
CountersTyped ==
  /\ wiring \in [router : BOOLEAN, direct : BOOLEAN]
  /\ js \in BOOLEAN
  /\ metrics \in [accepted : Nat, rejected : Nat, errors : Nat]
  /\ parked \in [Records -> Nat]
  /\ stream \in [Records -> Nat]
  /\ issued \in [Records -> Nat]
  /\ deadLetters \in [Records -> Nat]
  /\ direct \in [Records -> Nat]
  /\ response \in [Requests -> [accepted : Nat, rejected : Nat] \union {NoResponse, Raised}]

(* A request that was answered normally had everything it accepted offered.*)
AnsweredWasOffered ==
  \A r \in Requests :
    (phase[r] = "done" /\ wiring.router /\ r \notin refused)
      => offered[r] \union dropped[r] = accepted[r]

IssuedByPublishers == \A m \in Records : issued[m] = Cardinality(Publishers(m))

(* The inductive invariant about the shared state, on top of PipelineIInv: *)
(* only finitely many requests came in, so that counting them makes sense. *)
CountersIInv ==
  /\ CountersTyped
  /\ IsFiniteSet(Received)
  /\ IsFiniteSet(AllCounted)
  /\ EveryRecordCountedOnce
  /\ AnsweredWasOffered
  /\ IssuedByPublishers

(* Records of one more request, none counted before, add their number.     *)
LEMMA CountMore ==
  ASSUME NEW P, NEW r, NEW X, IsFiniteSet(P), IsFiniteSet(X),
         \A x \in X : <<r, x>> \notin P
  PROVE  /\ IsFiniteSet(P \union ({r} \X X))
         /\ Cardinality(P \union ({r} \X X)) = Cardinality(P) + Cardinality(X)
<1>1. IsFiniteSet({r}) /\ Cardinality({r}) = 1
  BY FS_Singleton
<1>2. IsFiniteSet({r} \X X) /\ Cardinality({r} \X X) = 1 * Cardinality(X)
  BY <1>1, FS_Product
<1>3. Cardinality(X) \in Nat /\ Cardinality(P) \in Nat
  BY FS_CardinalityType
<1>4. P \cap ({r} \X X) = {}
  OBVIOUS
<1>5. /\ IsFiniteSet(P \union ({r} \X X))
      /\ Cardinality(P \union ({r} \X X))
           = Cardinality(P) + Cardinality({r} \X X) - Cardinality({})
  BY <1>2, <1>4, FS_Union
<1> QED BY <1>2, <1>3, <1>5, FS_EmptySet

(* A body splits into what was accepted, what broke and what was invalid.  *)
LEMMA BodySplits ==
  ASSUME NEW r \in Requests, NEW s \in Screenings(r), s.ok \cap s.broken = {}
  PROVE  /\ Cardinality(s.ok) \in Nat
         /\ Cardinality(s.broken) \in Nat
         /\ Invalid(r, s) \in Nat
         /\ Cardinality(RecordsOf[r] \ s.ok) \in Nat
         /\ Cardinality(RecordsOf[r]) \in Nat
         /\ Invalid(r, s) + Cardinality(s.broken) = Cardinality(RecordsOf[r] \ s.ok)
         /\ Cardinality(RecordsOf[r] \ s.ok) + Cardinality(s.ok) = Cardinality(RecordsOf[r])
<1>1. s.ok \in SUBSET RecordsOf[r] /\ s.broken \in SUBSET RecordsOf[r]
  BY DEF Screenings
<1>2. IsFiniteSet(RecordsOf[r]) /\ IsFiniteSet(s.ok) /\ IsFiniteSet(s.broken)
  BY <1>1, Bodies
<1> DEFINE rest == RecordsOf[r] \ s.ok
           invalid == RecordsOf[r] \ (s.ok \union s.broken)
<1>3. IsFiniteSet(rest) /\ IsFiniteSet(invalid)
  BY <1>1, Bodies
<1>4. /\ Cardinality(s.ok) \in Nat /\ Cardinality(s.broken) \in Nat
      /\ Cardinality(rest) \in Nat /\ Cardinality(invalid) \in Nat
      /\ Cardinality(RecordsOf[r]) \in Nat
  BY <1>2, <1>3, FS_CardinalityType
<1>5. Cardinality(rest) = Cardinality(RecordsOf[r]) - Cardinality(s.ok)
  <2>1. RecordsOf[r] \cap s.ok = s.ok
    BY <1>1
  <2> QED BY <2>1, <1>2, FS_Difference
<1>6. Cardinality(rest) = Cardinality(invalid) + Cardinality(s.broken)
  <2>1. rest = invalid \union s.broken /\ invalid \cap s.broken = {}
    BY <1>1
  <2>2. Cardinality(rest) = Cardinality(invalid) + Cardinality(s.broken) - Cardinality({})
    BY <2>1, <1>2, <1>3, FS_Union
  <2> QED BY <2>2, <1>4, FS_EmptySet
<1> QED BY <1>4, <1>5, <1>6 DEF Invalid

(* A step of request r leaves finitely many requests received.             *)
LEMMA ReceivedGrows ==
  ASSUME NEW r \in Requests, IsFiniteSet(Received),
         \A s \in Requests \ {r} : phase'[s] = phase[s]
  PROVE  IsFiniteSet(Received')
<1>1. IsFiniteSet(Received \union {r})
  BY FS_AddElement
<1>2. Received' \in SUBSET (Received \union {r})
  BY DEF Received
<1> QED BY <1>1, <1>2, FS_Subset

(* A step of request r that makes the counters see the records X as well.  *)
LEMMA CountersFollow ==
  ASSUME NEW r \in Requests, CountersIInv, NEW X \in SUBSET RecordsOf[r],
         CountedOf(r) \cap X = {},
         CountedOf(r)' = CountedOf(r) \union X,
         \A s \in Requests \ {r} : phase'[s] = phase[s] /\ accepted'[s] = accepted[s],
         metrics'.accepted + metrics'.rejected + metrics'.errors
           = metrics.accepted + metrics.rejected + metrics.errors + Cardinality(X)
  PROVE  IsFiniteSet(AllCounted') /\ EveryRecordCountedOnce'
<1>1. \A s \in Requests \ {r} : CountedOf(s)' = CountedOf(s)
  BY DEF CountedOf
<1>2. X \subseteq Records /\ IsFiniteSet(X)
  BY Bodies
<1>3. AllCounted' = AllCounted \union ({r} \X X)
  <2>1. ASSUME NEW p PROVE p \in AllCounted' <=> p \in AllCounted \union ({r} \X X)
    <3>1. CASE p \notin Requests \X Records
      BY <1>2, <3>1 DEF AllCounted
    <3>2. CASE p \in Requests \X Records
      <4>1. p[1] \in Requests /\ (p \in {r} \X X <=> p[1] = r /\ p[2] \in X)
        BY <3>2
      <4>2. p \in AllCounted' <=> p[2] \in CountedOf(p[1])'
        BY <3>2 DEF AllCounted
      <4>3. p \in AllCounted <=> p[2] \in CountedOf(p[1])
        BY <3>2 DEF AllCounted
      <4>4. CASE p[1] = r
        BY <4>1, <4>2, <4>3, <4>4
      <4>5. CASE p[1] # r
        BY <4>1, <4>2, <4>3, <4>5, <1>1
      <4> QED BY <4>4, <4>5
    <3> QED BY <3>1, <3>2
  <2> QED BY <2>1
<1>4. \A x \in X : <<r, x>> \notin AllCounted
  BY DEF AllCounted
<1>5. /\ IsFiniteSet(AllCounted')
      /\ Cardinality(AllCounted') = Cardinality(AllCounted) + Cardinality(X)
  BY <1>2, <1>3, <1>4, CountMore DEF CountersIInv
<1> QED BY <1>5 DEF CountersIInv, EveryRecordCountedOnce

(* What the tail of process_* does to the rows and the answers.            *)
LEMMA FinishTyped ==
  ASSUME NEW r \in Requests, NEW ok \in SUBSET RecordsOf[r], Finish(r, ok), CountersTyped
  PROVE  /\ direct' \in [Records -> Nat]
         /\ response' \in [Requests -> [accepted : Nat, rejected : Nat] \union {NoResponse, Raised}]
         /\ phase' = [phase EXCEPT ![r] = "done"]
<1>1. direct' \in [Records -> Nat]
  BY DEF Finish, DirectWrite, Plus, CountersTyped
<1>2. Cardinality(ok) \in Nat /\ Cardinality(RecordsOf[r]) - Cardinality(ok) \in Nat
  <2>1. IsFiniteSet(RecordsOf[r]) /\ IsFiniteSet(ok)
    BY Bodies
  <2>2. Cardinality(ok) <= Cardinality(RecordsOf[r])
    BY <2>1, FS_Subset
  <2>3. Cardinality(ok) \in Nat /\ Cardinality(RecordsOf[r]) \in Nat
    BY Bodies
  <2> QED BY <2>2, <2>3
<1>3. response' \in [Requests -> [accepted : Nat, rejected : Nat] \union {NoResponse, Raised}]
  BY <1>2 DEF Finish, CountersTyped
<1> QED BY <1>1, <1>3 DEF Finish

LEMMA CountedAdds ==
  ASSUME CountersTyped, NEW a \in Nat, NEW b \in Nat, NEW c \in Nat
  PROVE  /\ Counted(a, b, c) \in [accepted : Nat, rejected : Nat, errors : Nat]
         /\ Counted(a, b, c).accepted + Counted(a, b, c).rejected + Counted(a, b, c).errors
              = metrics.accepted + metrics.rejected + metrics.errors + (a + b + c)
<1>1. metrics.accepted \in Nat /\ metrics.rejected \in Nat /\ metrics.errors \in Nat
  BY DEF CountersTyped
<1> QED BY <1>1 DEF Counted

LEMMA PlusTyped ==
  ASSUME NEW bag \in [Records -> Nat], NEW S
  PROVE  Plus(bag, S) \in [Records -> Nat]
<1>1. \A m \in Records : bag[m] + (IF m \in S THEN 1 ELSE 0) \in Nat
  OBVIOUS
<1> QED BY <1>1 DEF Plus

LEMMA ReceiveCounted ==
  ASSUME PipelineIInv, CountersIInv, NEW r \in Requests, Receive(r)
  PROVE  CountersIInv'
<1>0. PICK s \in Screenings(r) :
        /\ Screened(r, s)
        /\ \/ /\ s.ok = {}
              /\ metrics' = Counted(0, Invalid(r, s), Cardinality(s.broken))
              /\ Finish(r, {})
              /\ UNCHANGED <<js, parked>>
           \/ /\ ~wiring.router
              /\ metrics' = Counted(Cardinality(s.ok), Invalid(r, s), Cardinality(s.broken))
              /\ parked' = Plus(parked, s.ok)
              /\ Finish(r, s.ok)
              /\ UNCHANGED js
           \/ /\ metrics' = Counted(0, Invalid(r, s), Cardinality(s.broken) + Cardinality(s.ok))
              /\ js' \in {js, TRUE}
              /\ UNCHANGED parked
              /\ r \in refused'
              /\ \/ phase' = [phase EXCEPT ![r] = "deadletter"] /\ UNCHANGED <<direct, response>>
                 \/ Finish(r, s.ok)
           \/ /\ metrics' = Counted(0, Invalid(r, s), Cardinality(s.broken))
              /\ js' = TRUE
              /\ phase' = [phase EXCEPT ![r] = "routing"]
              /\ UNCHANGED <<parked, direct, response>>
  BY DEF Receive, ReceiveNothing, ReceiveUnrouted, ReceiveRefused, ReceiveRoutable, EnsureJs
<1>1. /\ UNCHANGED <<stream, issued, wiring, deadLetters, offered, dropped>>
      /\ refused \subseteq refused'
      /\ \A q \in Requests \ {r} : q \in refused' => q \in refused
  BY DEF Receive, ReceiveNothing, ReceiveUnrouted, ReceiveRefused, ReceiveRoutable,
         natsVars, historyVars
<1>2. /\ phase[r] = "idle" /\ s.ok \cap s.broken = {}
      /\ accepted' = [accepted EXCEPT ![r] = s.ok]
      /\ s.ok \in SUBSET RecordsOf[r]
  BY <1>0, ScreenedRecords DEF Screened
<1>3. \/ phase' = [phase EXCEPT ![r] = "deadletter"]
      \/ phase' = [phase EXCEPT ![r] = "routing"]
      \/ phase' = [phase EXCEPT ![r] = "done"]
  BY <1>0 DEF Finish
<1>4. \A q \in Requests \ {r} : phase'[q] = phase[q] /\ accepted'[q] = accepted[q]
  BY <1>2, <1>3 DEF PipelineIInv, RequestsTyped
<1> DEFINE o == Cardinality(s.ok)
           b == Cardinality(s.broken)
           i == Invalid(r, s)
<1>a. /\ o \in Nat /\ b \in Nat /\ i \in Nat /\ 0 \in Nat /\ b + o \in Nat
      /\ Cardinality(RecordsOf[r] \ s.ok) = 0 + i + b
      /\ Cardinality(RecordsOf[r]) = o + i + b
      /\ Cardinality(RecordsOf[r]) = 0 + i + (b + o)
  BY <1>2, BodySplits
<1>b. \/ /\ s.ok = {} /\ o = 0
         /\ phase' = [phase EXCEPT ![r] = "done"]
         /\ metrics' = Counted(0, i, b)
      \/ /\ phase' = [phase EXCEPT ![r] = "done"]
         /\ metrics' = Counted(o, i, b)
      \/ /\ phase' \in {[phase EXCEPT ![r] = "deadletter"], [phase EXCEPT ![r] = "done"]}
         /\ metrics' = Counted(0, i, b + o)
      \/ /\ phase' = [phase EXCEPT ![r] = "routing"]
         /\ metrics' = Counted(0, i, b)
  BY <1>0, FS_EmptySet DEF Finish
<1> HIDE DEF o, b, i
<1>c. /\ metrics' \in [accepted : Nat, rejected : Nat, errors : Nat]
      /\ metrics'.accepted + metrics'.rejected + metrics'.errors
           = metrics.accepted + metrics.rejected + metrics.errors
             + Cardinality(IF phase'[r] = "routing" THEN RecordsOf[r] \ s.ok ELSE RecordsOf[r])
  <2>1. CountersTyped /\ phase \in [Requests -> Phases]
    BY DEF CountersIInv, PipelineIInv, RequestsTyped
  <2>2. CASE metrics' = Counted(0, i, b) /\ o = 0 /\ phase'[r] = "done"
    BY <2>1, <2>2, <1>a, CountedAdds
  <2>3. CASE metrics' = Counted(o, i, b) /\ phase'[r] = "done"
    BY <2>1, <2>3, <1>a, CountedAdds
  <2>4. CASE metrics' = Counted(0, i, b + o) /\ phase'[r] # "routing"
    <3>1. /\ metrics' \in [accepted : Nat, rejected : Nat, errors : Nat]
          /\ metrics'.accepted + metrics'.rejected + metrics'.errors
               = metrics.accepted + metrics.rejected + metrics.errors + (0 + i + (b + o))
      BY <2>1, <2>4, <1>a, CountedAdds
    <3> QED BY <2>4, <3>1, <1>a
  <2>5. CASE metrics' = Counted(0, i, b) /\ phase'[r] = "routing"
    BY <2>1, <2>5, <1>a, CountedAdds
  <2> QED BY <2>1, <2>2, <2>3, <2>4, <2>5, <1>b
<1>5. CountersTyped'
  <2>1. metrics' \in [accepted : Nat, rejected : Nat, errors : Nat]
    BY <1>c
  <2>2. parked' \in [Records -> Nat] /\ js' \in BOOLEAN
    <3>1. parked \in [Records -> Nat] /\ js \in BOOLEAN
      BY DEF CountersIInv, CountersTyped
    <3>2. parked' = parked \/ parked' = Plus(parked, s.ok)
      BY <1>0
    <3> QED BY <1>0, <3>1, <3>2, PlusTyped
  <2>3. /\ direct' \in [Records -> Nat]
        /\ response' \in [Requests -> [accepted : Nat, rejected : Nat] \union {NoResponse, Raised}]
    BY <1>0, <1>2, FinishTyped DEF CountersIInv, CountersTyped
  <2> QED BY <1>1, <2>1, <2>2, <2>3 DEF CountersIInv, CountersTyped
<1>6. IsFiniteSet(Received')
  BY <1>4, ReceivedGrows DEF CountersIInv
<1>7. IsFiniteSet(AllCounted') /\ EveryRecordCountedOnce'
  <2> DEFINE X == CountedOf(r)'
  <2>1. accepted'[r] = s.ok /\ phase'[r] \in {"deadletter", "routing", "done"}
    BY <1>2, <1>3 DEF PipelineIInv, RequestsTyped
  <2>2. X \in SUBSET RecordsOf[r] /\ CountedOf(r) = {}
    BY <1>2, <2>1 DEF CountedOf
  <2>3. metrics'.accepted + metrics'.rejected + metrics'.errors
           = metrics.accepted + metrics.rejected + metrics.errors + Cardinality(X)
    <3>1. X = IF phase'[r] = "routing" THEN RecordsOf[r] \ s.ok ELSE RecordsOf[r]
      BY <2>1 DEF CountedOf
    <3> QED BY <1>c, <3>1
  <2> HIDE DEF X
  <2>4. CountedOf(r)' = CountedOf(r) \union X /\ CountedOf(r) \cap X = {}
    BY <2>2 DEF X
  <2> QED BY <1>4, <2>2, <2>3, <2>4, CountersFollow
<1>8. AnsweredWasOffered'
  <2> SUFFICES ASSUME NEW q \in Requests, phase'[q] = "done", wiring'.router, q \notin refused'
               PROVE  offered'[q] \union dropped'[q] = accepted'[q]
    BY DEF AnsweredWasOffered
  <2>1. CASE q = r
    <3>1. s.ok = {}
      BY <1>0, <1>1, <2>1 DEF PipelineIInv, RequestsTyped
    <3> QED BY <1>1, <1>2, <2>1, <3>1 DEF PipelineIInv, RequestsTyped, Progress
  <2>2. CASE q # r
    BY <1>1, <1>4, <2>2 DEF CountersIInv, AnsweredWasOffered
  <2> QED BY <2>1, <2>2
<1>9. IssuedByPublishers'
  BY <1>1 DEF CountersIInv, IssuedByPublishers, Publishers
<1> QED BY <1>5, <1>6, <1>7, <1>8, <1>9 DEF CountersIInv
(* One turn of _publish_batch: the stream may have one copy more, and this *)
(* request becomes one of the record's publishers.                         *)
LEMMA OfferCounted ==
  ASSUME PipelineIInv, CountersIInv, NEW r \in Requests, NEW m \in RecordsOf[r],
         Publish(r, m) \/ PublishFails(r, m)
  PROVE  CountersIInv'
<1>1. AfterOffer(r, m)
  BY DEF Publish, PublishFails
<1>2. /\ phase[r] = "routing" /\ m \in todo[r] /\ m \in Records
      /\ UNCHANGED <<wiring, js, accepted, parked, deadLetters, refused, pressed>>
      /\ accepted[r] \in SUBSET RecordsOf[r]
      /\ IsFiniteSet(accepted[r]) /\ Cardinality(accepted[r]) \in Nat
  BY <1>1, Bodies DEF AfterOffer, PipelineIInv, RequestsTyped
<1>3. \/ /\ todo'[r] = {}
         /\ metrics' = Counted(Cardinality(accepted[r]), 0, 0)
         /\ Finish(r, accepted[r])
      \/ UNCHANGED <<metrics, direct, phase, response>>
  BY <1>1 DEF AfterOffer
<1>4. \A q \in Requests \ {r} : phase'[q] = phase[q] /\ accepted'[q] = accepted[q]
  BY <1>2, <1>3 DEF Finish, PipelineIInv, RequestsTyped
<1>5. CountersTyped'
  <2>1. /\ direct' \in [Records -> Nat]
        /\ response' \in [Requests -> [accepted : Nat, rejected : Nat] \union {NoResponse, Raised}]
    BY <1>2, <1>3, FinishTyped DEF CountersIInv, CountersTyped
  <2>2. metrics' \in [accepted : Nat, rejected : Nat, errors : Nat]
    <3>1. metrics \in [accepted : Nat, rejected : Nat, errors : Nat]
      BY DEF CountersIInv, CountersTyped
    <3>2. Counted(Cardinality(accepted[r]), 0, 0) \in [accepted : Nat, rejected : Nat, errors : Nat]
      BY <1>2, CountedAdds DEF CountersIInv
    <3> QED BY <1>3, <3>1, <3>2
  <2>3. stream' \in [Records -> Nat] /\ issued' \in [Records -> Nat]
    BY <1>2 DEF Publish, PublishFails, natsVars, CountersIInv, CountersTyped
  <2> QED BY <1>2, <2>1, <2>2, <2>3 DEF CountersIInv, CountersTyped
<1>6. IsFiniteSet(Received')
  BY <1>4, ReceivedGrows DEF CountersIInv
<1>7. IsFiniteSet(AllCounted') /\ EveryRecordCountedOnce'
  <2>1. CASE UNCHANGED <<metrics, direct, phase, response>>
    <3>1. AllCounted' = AllCounted
      BY <1>2, <2>1 DEF AllCounted, CountedOf
    <3> QED BY <2>1, <3>1 DEF CountersIInv, EveryRecordCountedOnce
  <2>2. CASE metrics' = Counted(Cardinality(accepted[r]), 0, 0) /\ Finish(r, accepted[r])
    <3>1. phase'[r] = "done" /\ accepted'[r] = accepted[r]
      BY <1>2, <2>2 DEF Finish, PipelineIInv, RequestsTyped
    <3>2. CountedOf(r) = RecordsOf[r] \ accepted[r] /\ CountedOf(r)' = RecordsOf[r]
      BY <1>2, <3>1 DEF CountedOf
    <3>3. metrics'.accepted + metrics'.rejected + metrics'.errors
            = metrics.accepted + metrics.rejected + metrics.errors
              + (Cardinality(accepted[r]) + 0 + 0)
      BY <1>2, <2>2, CountedAdds DEF CountersIInv
    <3>4. Cardinality(accepted[r]) + 0 + 0 = Cardinality(accepted[r])
      BY <1>2
    <3>5. /\ CountedOf(r) \cap accepted[r] = {}
          /\ CountedOf(r)' = CountedOf(r) \union accepted[r]
      BY <1>2, <3>2
    <3> QED BY <1>2, <1>4, <3>3, <3>4, <3>5, CountersFollow
  <2> QED BY <1>3, <2>1, <2>2
<1>8. \/ offered'[r] = offered[r] \union {m} /\ dropped'[r] = dropped[r]
      \/ offered'[r] = offered[r] /\ dropped'[r] = dropped[r] \union {m}
  BY DEF Publish, PublishFails, PipelineIInv, RequestsTyped
<1>9. \A q \in Requests \ {r} : offered'[q] = offered[q] /\ dropped'[q] = dropped[q]
  BY DEF Publish, PublishFails, PipelineIInv, RequestsTyped
<1>10. AnsweredWasOffered'
  <2> SUFFICES ASSUME NEW q \in Requests, phase'[q] = "done", wiring'.router, q \notin refused'
               PROVE  offered'[q] \union dropped'[q] = accepted'[q]
    BY DEF AnsweredWasOffered
  <2>1. CASE q = r
    <3>1. todo'[r] = {}
      BY <1>2, <1>3, <2>1
    <3>2. todo[r] \subseteq {m}
      BY <1>1, <3>1 DEF AfterOffer, PipelineIInv, RequestsTyped
    <3> QED BY <1>2, <1>8, <2>1, <3>2 DEF PipelineIInv, Progress
  <2>2. CASE q # r
    BY <1>2, <1>4, <1>9, <2>2 DEF CountersIInv, AnsweredWasOffered
  <2> QED BY <2>1, <2>2
<1>11. IssuedByPublishers'
  <2> SUFFICES ASSUME NEW n \in Records
               PROVE  issued'[n] = Cardinality(Publishers(n)')
    BY DEF IssuedByPublishers
  <2>1. issued \in [Records -> Nat] /\ issued[n] = Cardinality(Publishers(n))
    BY DEF CountersIInv, CountersTyped, IssuedByPublishers
  <2>2. CASE Publish(r, m) /\ n = m
    <3>1. issued'[n] = issued[n] + 1 /\ offered' = [offered EXCEPT ![r] = @ \union {m}]
      BY <2>1, <2>2 DEF Publish
    <3>2. Publishers(n)' = Publishers(n) \union {r}
      BY <2>2, <3>1 DEF Publishers, PipelineIInv, RequestsTyped
    <3>3. r \notin Publishers(n)
      BY <1>2, <2>2 DEF Publishers, PipelineIInv, Progress
    <3>4. IsFiniteSet(Publishers(n))
      <4>1. Publishers(n) \in SUBSET Received
        BY DEF Publishers, Received, PipelineIInv, Progress
      <4> QED BY <4>1, FS_Subset DEF CountersIInv
    <3> QED BY <2>1, <3>1, <3>2, <3>3, <3>4, FS_AddElement
  <2>3. CASE ~(Publish(r, m) /\ n = m)
    <3>1. issued'[n] = issued[n]
      BY <2>1, <2>3, <1>2 DEF Publish, PublishFails, natsVars
    <3>2. Publishers(n)' = Publishers(n)
      BY <2>3, <1>2 DEF Publish, PublishFails, Publishers, PipelineIInv, RequestsTyped
    <3> QED BY <2>1, <3>1, <3>2
  <2> QED BY <2>2, <2>3
<1> QED BY <1>5, <1>6, <1>7, <1>10, <1>11 DEF CountersIInv

LEMMA DeadLetterCounted ==
  ASSUME PipelineIInv, CountersIInv, NEW r \in Requests, DeadLetter(r)
  PROVE  CountersIInv'
<1>1. /\ phase[r] = "deadletter" /\ Finish(r, accepted[r])
      /\ UNCHANGED <<stream, issued, wiring, js, accepted, todo, metrics, parked,
                     offered, dropped, refused, pressed>>
      /\ accepted[r] \in SUBSET RecordsOf[r]
  BY DEF DeadLetter, natsVars, historyVars, PipelineIInv, RequestsTyped
<1>2. phase' = [phase EXCEPT ![r] = "done"]
  BY <1>1 DEF Finish
<1>3. CountersTyped'
  <2>1. deadLetters' \in [Records -> Nat]
    BY PlusTyped DEF DeadLetter, CountersIInv, CountersTyped
  <2>2. /\ direct' \in [Records -> Nat]
        /\ response' \in [Requests -> [accepted : Nat, rejected : Nat] \union {NoResponse, Raised}]
    BY <1>1, FinishTyped DEF CountersIInv
  <2> QED BY <1>1, <2>1, <2>2 DEF CountersIInv, CountersTyped
<1>4. IsFiniteSet(Received')
  BY <1>2, ReceivedGrows DEF CountersIInv, PipelineIInv, RequestsTyped
<1>5. AllCounted' = AllCounted
  <2>1. \A q \in Requests : CountedOf(q)' = CountedOf(q)
    BY <1>1, <1>2 DEF CountedOf, PipelineIInv, RequestsTyped
  <2> QED BY <2>1 DEF AllCounted
<1>6. AnsweredWasOffered'
  <2>1. r \in refused
    BY <1>1 DEF PipelineIInv, Progress
  <2> QED BY <1>1, <1>2, <2>1 DEF CountersIInv, AnsweredWasOffered, PipelineIInv, RequestsTyped
<1>7. IssuedByPublishers'
  BY <1>1 DEF CountersIInv, IssuedByPublishers, Publishers
<1> QED BY <1>1, <1>3, <1>4, <1>5, <1>6, <1>7 DEF CountersIInv, EveryRecordCountedOnce

LEMMA CrashCounted ==
  ASSUME PipelineIInv, CountersIInv, Crash
  PROVE  CountersIInv'
<1>1. /\ UNCHANGED <<stream, issued, wiring, accepted, deadLetters, direct, response,
                     offered, dropped, refused, pressed>>
      /\ phase' = [q \in Requests |-> IF phase[q] = "idle" THEN "idle" ELSE "gone"]
      /\ metrics' = [accepted |-> 0, rejected |-> 0, errors |-> 0]
      /\ js' = FALSE /\ parked' = Nothing
  BY DEF Crash, natsVars, historyVars
<1>2. CountersTyped'
  BY <1>1 DEF CountersIInv, CountersTyped, Nothing
<1>3. IsFiniteSet(Received')
  <2>1. Received' = Received
    BY <1>1 DEF Received
  <2> QED BY <2>1 DEF CountersIInv
<1>4. AllCounted' = {}
  <2>1. \A q \in Requests : CountedOf(q)' = {}
    BY <1>1 DEF CountedOf
  <2> QED BY <2>1 DEF AllCounted
<1>5. EveryRecordCountedOnce'
  BY <1>1, <1>4, FS_EmptySet DEF EveryRecordCountedOnce
<1>6. AnsweredWasOffered'
  BY <1>1 DEF AnsweredWasOffered
<1>7. IssuedByPublishers'
  BY <1>1 DEF CountersIInv, IssuedByPublishers, Publishers
<1> QED BY <1>2, <1>3, <1>4, <1>5, <1>6, <1>7, FS_EmptySet DEF CountersIInv

LEMMA InitCounted == Init => CountersIInv
<1> SUFFICES ASSUME Init PROVE CountersIInv
  OBVIOUS
<1>1. CountersTyped
  BY DEF Init, PipelineInit, CountersTyped, Nothing
<1>2. Received = {} /\ AllCounted = {} /\ \A m \in Records : Publishers(m) = {}
  BY DEF Init, PipelineInit, Received, AllCounted, CountedOf, Publishers
<1>3. EveryRecordCountedOnce
  BY <1>2, FS_EmptySet DEF Init, PipelineInit, EveryRecordCountedOnce
<1>4. IssuedByPublishers
  BY <1>2, FS_EmptySet DEF Init, Nothing, IssuedByPublishers
<1> QED
  BY <1>1, <1>2, <1>3, <1>4, FS_EmptySet
     DEF CountersIInv, AnsweredWasOffered, Init, PipelineInit

THEOREM CountersInvariant == Spec => []CountersIInv
<1>1. PipelineIInv /\ CountersIInv /\ [Next]_vars => CountersIInv'
  <2> SUFFICES ASSUME PipelineIInv, CountersIInv, [Next]_vars PROVE CountersIInv'
    OBVIOUS
  <2>1. ASSUME NEW r \in Requests, Advance(r) PROVE CountersIInv'
    BY <2>1, OfferCounted, DeadLetterCounted DEF Advance
  <2>2. CASE UNCHANGED vars
    <3>1. UNCHANGED <<wiring, js, phase, accepted, metrics, parked, stream, issued, deadLetters,
                     direct, response, offered, dropped, refused, pressed>>
      BY <2>2 DEF vars, pipelineVars, historyVars, natsVars
    <3>2. CountersTyped' /\ Received' = Received
      BY <3>1 DEF CountersIInv, CountersTyped, Received
    <3>3. AllCounted' = AllCounted
      BY <3>1 DEF AllCounted, CountedOf
    <3>4. EveryRecordCountedOnce'
      BY <3>1, <3>3 DEF CountersIInv, EveryRecordCountedOnce
    <3>5. AnsweredWasOffered' /\ IssuedByPublishers'
      BY <3>1 DEF CountersIInv, AnsweredWasOffered, IssuedByPublishers, Publishers
    <3> QED BY <3>2, <3>3, <3>4, <3>5 DEF CountersIInv
  <2> QED BY <2>1, <2>2, ReceiveCounted, CrashCounted DEF Next
<1> QED BY <1>1, InitCounted, PipelineInvariant, PTL DEF Spec

(* The counters of PipelineMetrics (pipeline.py 87-126) count every record *)
(* of every request exactly once, dead letters are fresh, and every        *)
(* accepted payload is offered exactly once, in every interleaving of any  *)
(* number of requests that share records.                                  *)
THEOREM SharedStateIsCoherent == Spec => []PipelineInv
<1>1. PipelineIInv /\ CountersIInv => PipelineInv
  BY DEF PipelineIInv, RequestsTyped, Progress, CountersIInv, CountersTyped, PipelineInv, TypeOK,
         DeadLettersWereNeverOffered, EveryPayloadOfferedOnce, AnsweredWasOffered,
         IssuedByPublishers, Publishers
<1> QED BY <1>1, PipelineInvariant, CountersInvariant, PTL

-----------------------------------------------------------------------------
(* The dead letter envelope of a request holds records that the stream was *)
(* never offered (pipeline.py 104-110), in every interleaving.             *)
THEOREM DeadLettersAreFresh == Spec => []DeadLettersWereNeverOffered
<1>1. PipelineIInv => DeadLettersWereNeverOffered
  BY DEF PipelineIInv, RequestsTyped, Progress, DeadLettersWereNeverOffered
<1> QED BY <1>1, PipelineInvariant, PTL

-----------------------------------------------------------------------------
(* The state of the contract that a state of the pipeline stands for.      *)
Fate(r) == [m \in Records |-> FateOf(r, m)]
Accepted(r) == response[r].accepted
Gone == {r \in Requests : phase[r] = "gone"}

LEMMA FatesAreFates ==
  ASSUME NEW r \in Requests, NEW m \in Records
  PROVE  FateOf(r, m) \in Contract!Fates
BY DEF FateOf, Contract!Fates

(* The contract counts with the FiniteSets it extends.                     *)
LEMMA SameCount == ASSUME NEW S PROVE Contract!Cardinality(S) = Cardinality(S)
BY DEF Contract!Cardinality, Cardinality

LEMMA InitContract == Init => Contract!ContractInit
BY DEF Init, PipelineInit, Contract!ContractInit, FateOf, NoResponse

(* What a step has to show to be a Proceed of the contract.                *)
LEMMA ProceedFrom ==
  ASSUME NEW r \in Requests, Accepted(r) = -1, phase[r] # "gone", Gone' = Gone,
         \A s \in Requests \ {r} : Fate(s)' = Fate(s) /\ Accepted(s)' = Accepted(s),
         \A m \in Records : (FateOf(r, m) # "unknown" \/ m \notin RecordsOf[r]) =>
                             FateOf(r, m)' = FateOf(r, m),
         \/ Accepted(r)' = Accepted(r)
         \/ /\ \A m \in RecordsOf[r] : FateOf(r, m)' # "unknown"
            /\ Accepted(r)' = Contract!Cardinality({m \in RecordsOf[r] : FateOf(r, m)' # "rejected"})
  PROVE  Contract!Proceed(r)
<1> DEFINE f == Fate(r)'
           fate == [s \in Requests |-> Fate(s)]
           answer == [s \in Requests |-> Accepted(s)]
<1>1. f \in [Records -> Contract!Fates] /\ \A m \in Records : f[m] = FateOf(r, m)'
  BY DEF Fate, FateOf, Contract!Fates
<1>2. \A m \in Records : fate[r][m] # "unknown" \/ m \notin RecordsOf[r] => f[m] = fate[r][m]
  BY <1>1 DEF Fate
<1>3. fate' = [fate EXCEPT ![r] = f]
  OBVIOUS
<1>4. \/ answer' = answer
      \/ /\ Contract!Undecided(f, r) = {}
         /\ answer' = [answer EXCEPT ![r] = Contract!Cardinality(Contract!AcceptedIn(f, r))]
  <2>1. CASE Accepted(r)' = Accepted(r)
    BY <2>1
  <2>2. CASE /\ \A m \in RecordsOf[r] : FateOf(r, m)' # "unknown"
             /\ Accepted(r)' = Contract!Cardinality({m \in RecordsOf[r] : FateOf(r, m)' # "rejected"})
    <3>1. Contract!Undecided(f, r) = {}
      BY <1>1, <2>2, Bodies DEF Contract!Undecided
    <3>2. Contract!AcceptedIn(f, r) = {m \in RecordsOf[r] : FateOf(r, m)' # "rejected"}
      BY <1>1, Bodies DEF Contract!AcceptedIn
    <3> QED BY <2>2, <3>1, <3>2
  <2> QED BY <2>1, <2>2
<1>5. answer[r] = -1 /\ r \notin Gone /\ Gone' = Gone
  BY DEF Gone
<1>6. /\ answer[r] = -1 /\ r \notin Gone /\ Gone' = Gone
      /\ \E g \in [Records -> Contract!Fates] :
           /\ \A m \in Records : fate[r][m] # "unknown" \/ m \notin RecordsOf[r] => g[m] = fate[r][m]
           /\ fate' = [fate EXCEPT ![r] = g]
           /\ \/ answer' = answer
              \/ /\ Contract!Undecided(g, r) = {}
                 /\ answer' = [answer EXCEPT ![r] = Contract!Cardinality(Contract!AcceptedIn(g, r))]
  <2> HIDE DEF fate, answer
  <2> QED BY <1>1, <1>2, <1>3, <1>4, <1>5
<1> QED BY ONLY <1>6 DEF Contract!Proceed, Fate, Accepted, Gone

LEMMA Unanswered ==
  ASSUME NEW r \in Requests, PipelineIInv, phase[r] \in {"idle", "routing", "deadletter"}
  PROVE  Accepted(r) = -1
BY DEF PipelineIInv, Progress, Accepted, NoResponse

(* The fate of every record of a request that gets nothing but answered,   *)
(* and of all other requests, whose variables a step leaves alone.         *)
LEMMA OthersKeepTheirFate ==
  ASSUME NEW s \in Requests, wiring' = wiring,
         (phase'[s] = "idle") <=> (phase[s] = "idle"), accepted'[s] = accepted[s],
         offered'[s] = offered[s], dropped'[s] = dropped[s],
         s \in refused' <=> s \in refused, response'[s] = response[s]
  PROVE  Fate(s)' = Fate(s) /\ Accepted(s)' = Accepted(s)
<1>1. \A m \in Records : FateOf(s, m)' = FateOf(s, m)
  BY DEF FateOf
<1> QED BY <1>1 DEF Fate, Accepted

(* A request that is received: its fates follow from the records accepted. *)
LEMMA ReceiveProceeds ==
  ASSUME NEW r \in Requests, PipelineIInv, phase[r] = "idle",
         NEW ok \in SUBSET RecordsOf[r],
         accepted' = [accepted EXCEPT ![r] = ok],
         NEW p \in {"routing", "deadletter", "done"}, phase' = [phase EXCEPT ![r] = p],
         UNCHANGED <<wiring, offered, dropped>>,
         refused' = refused \/ refused' = refused \union {r},
         \A s \in Requests \ {r} : response'[s] = response[s],
         \/ Accepted(r)' = Accepted(r)
         \/ Accepted(r)' = Cardinality(ok) /\ (ok # {} /\ wiring.router => r \in refused')
  PROVE  Contract!Proceed(r)
<1>1. Gone' = Gone /\ phase[r] # "gone" /\ Accepted(r) = -1
  BY Unanswered DEF PipelineIInv, RequestsTyped, Gone
<1>2. \A s \in Requests \ {r} : Fate(s)' = Fate(s) /\ Accepted(s)' = Accepted(s)
  BY OthersKeepTheirFate DEF PipelineIInv, RequestsTyped
<1>3. /\ \A m \in Records : FateOf(r, m) = "unknown"
      /\ \A m \in Records \ RecordsOf[r] : FateOf(r, m)' = "unknown"
      /\ \A m \in RecordsOf[r] \ ok : FateOf(r, m)' = "rejected"
      /\ \A m \in ok : /\ FateOf(r, m)' # "rejected"
                       /\ ~wiring.router \/ r \in refused' => FateOf(r, m)' # "unknown"
  <2>1. /\ accepted'[r] = ok /\ phase'[r] # "idle" /\ wiring'.router = wiring.router
        /\ offered'[r] = {} /\ dropped'[r] = {}
    BY DEF PipelineIInv, RequestsTyped, Progress
  <2>2. \A m \in Records : FateOf(r, m) = "unknown"
    BY DEF FateOf
  <2>3. \A m : FateOf(r, m)' = IF m \notin RecordsOf[r] THEN "unknown"
                              ELSE IF m \notin ok THEN "rejected"
                              ELSE IF r \in refused' THEN "refused"
                              ELSE IF ~wiring.router THEN "parked" ELSE "unknown"
    BY <2>1 DEF FateOf
  <2> QED BY <2>2, <2>3
<1>4. {m \in RecordsOf[r] : FateOf(r, m)' # "rejected"} = ok
  <2>1. \A m \in RecordsOf[r] : FateOf(r, m)' # "rejected" <=> m \in ok
    BY <1>3
  <2> QED BY <2>1
<1>5. \/ Accepted(r)' = Accepted(r)
      \/ /\ \A m \in RecordsOf[r] : FateOf(r, m)' # "unknown"
         /\ Accepted(r)' =
              Contract!Cardinality({m \in RecordsOf[r] : FateOf(r, m)' # "rejected"})
  BY <1>3, <1>4, SameCount
<1> QED BY <1>1, <1>2, <1>3, <1>5, ProceedFrom

LEMMA ReceiveImplements ==
  ASSUME NEW r \in Requests, PipelineIInv, Receive(r)
  PROVE  Contract!Proceed(r)
<1>1. phase[r] = "idle"
  BY DEF Receive, ReceiveNothing, ReceiveUnrouted, ReceiveRefused, ReceiveRoutable, Screened
<1>0. response[r].accepted = -1
  BY <1>1, Unanswered DEF Accepted
<1>2. CASE ReceiveNothing(r)
  <2>1. /\ accepted' = [accepted EXCEPT ![r] = {}] /\ Finish(r, {})
        /\ UNCHANGED <<wiring, offered, dropped, refused, pressed>>
    BY <1>2 DEF ReceiveNothing, Screened, historyVars
  <2> QED BY <1>0, <1>1, <2>1, FinishEffect, ReceiveProceeds DEF Accepted
<1>3. CASE ReceiveUnrouted(r)
  <2>1. PICK ok \in SUBSET RecordsOf[r] :
          accepted' = [accepted EXCEPT ![r] = ok] /\ Finish(r, ok)
    BY <1>3, ScreenedRecords DEF ReceiveUnrouted, Screened
  <2>2. ~wiring.router /\ UNCHANGED <<wiring, offered, dropped, refused, pressed>>
    BY <1>3 DEF ReceiveUnrouted, historyVars
  <2> QED BY <1>0, <1>1, <2>1, <2>2, FinishEffect, ReceiveProceeds DEF Accepted
<1>4. CASE ReceiveRefused(r)
  <2>1. PICK ok \in SUBSET RecordsOf[r] :
          /\ accepted' = [accepted EXCEPT ![r] = ok]
          /\ \/ phase' = [phase EXCEPT ![r] = "deadletter"] /\ response' = response
             \/ Finish(r, ok)
    BY <1>4, ScreenedRecords DEF ReceiveRefused, Screened
  <2>2. refused' = refused \union {r} /\ UNCHANGED <<wiring, offered, dropped>>
    BY <1>4 DEF ReceiveRefused
  <2>3. CASE Finish(r, ok)
    BY <1>0, <1>1, <2>1, <2>2, <2>3, FinishEffect, ReceiveProceeds DEF Accepted
  <2>4. CASE phase' = [phase EXCEPT ![r] = "deadletter"] /\ response' = response
    BY <1>1, <2>1, <2>2, <2>4, ReceiveProceeds DEF Accepted
  <2> QED BY <2>1, <2>3, <2>4
<1>5. CASE ReceiveRoutable(r)
  <2>1. PICK ok \in SUBSET RecordsOf[r] : accepted' = [accepted EXCEPT ![r] = ok]
    BY <1>5, ScreenedRecords DEF ReceiveRoutable, Screened
  <2>2. /\ phase' = [phase EXCEPT ![r] = "routing"]
        /\ UNCHANGED <<wiring, offered, dropped, refused, response>>
    BY <1>5 DEF ReceiveRoutable, historyVars
  <2> QED BY <1>1, <2>1, <2>2, ReceiveProceeds DEF Accepted
<1> QED BY <1>2, <1>3, <1>4, <1>5 DEF Receive

LEMMA OfferImplements ==
  ASSUME NEW r \in Requests, NEW m \in RecordsOf[r], PipelineIInv,
         Publish(r, m) \/ PublishFails(r, m)
  PROVE  Contract!Proceed(r)
<1>1. /\ phase[r] = "routing" /\ m \in todo[r] /\ todo' = [todo EXCEPT ![r] = @ \ {m}]
      /\ UNCHANGED <<wiring, accepted, refused, pressed>>
      /\ \/ todo'[r] = {} /\ Finish(r, accepted[r])
         \/ UNCHANGED <<phase, response>>
      /\ \/ /\ offered' = [offered EXCEPT ![r] = @ \union {m}] /\ UNCHANGED dropped
         \/ /\ dropped' = [dropped EXCEPT ![r] = @ \union {m}] /\ UNCHANGED offered
  BY DEF Publish, PublishFails, AfterOffer
<1>2. /\ \/ phase' = phase /\ response' = response
         \/ /\ phase' = [phase EXCEPT ![r] = "done"] /\ Accepted(r)' \in {Cardinality(accepted[r]), -1}
            /\ todo'[r] = {} /\ \A s \in Requests \ {r} : response'[s] = response[s]
      /\ accepted[r] \in SUBSET RecordsOf[r] /\ accepted[r] \in SUBSET Records
  BY <1>1, FinishEffect DEF PipelineIInv, RequestsTyped, Accepted
<1>3. Gone' = Gone /\ phase[r] # "gone" /\ Accepted(r) = -1
  BY <1>1, <1>2, Unanswered DEF PipelineIInv, RequestsTyped, Gone
<1>4. \A s \in Requests \ {r} : Fate(s)' = Fate(s) /\ Accepted(s)' = Accepted(s)
  BY <1>1, <1>2, OthersKeepTheirFate DEF PipelineIInv, RequestsTyped
<1>5. \A x \in Records : /\ x \notin RecordsOf[r] => FateOf(r, x)' = "unknown" /\ FateOf(r, x) = "unknown"
                         /\ x \in RecordsOf[r] \ accepted[r] =>
                              FateOf(r, x)' = "rejected" /\ FateOf(r, x) = "rejected"
  BY <1>1, <1>2 DEF FateOf, PipelineIInv, RequestsTyped
<1>6. \A x \in accepted[r] :
        /\ FateOf(r, x) # "unknown" => FateOf(r, x)' = FateOf(r, x)
        /\ FateOf(r, x)' # "rejected"
        /\ x \notin todo'[r] => FateOf(r, x)' # "unknown"
  BY <1>1, <1>2 DEF FateOf, PipelineIInv, RequestsTyped, Progress
<1>7. {x \in RecordsOf[r] : FateOf(r, x)' # "rejected"} = accepted[r]
  BY <1>2, <1>5, <1>6, Bodies
<1>8. \/ Accepted(r)' = Accepted(r)
      \/ /\ \A x \in RecordsOf[r] : FateOf(r, x)' # "unknown"
         /\ Accepted(r)' =
              Contract!Cardinality({x \in RecordsOf[r] : FateOf(r, x)' # "rejected"})
  BY <1>2, <1>3, <1>5, <1>6, <1>7, SameCount, Bodies DEF Accepted
<1>9. \A x \in Records : (FateOf(r, x) # "unknown" \/ x \notin RecordsOf[r]) =>
                         FateOf(r, x)' = FateOf(r, x)
  BY <1>5, <1>6
<1> QED BY <1>3, <1>4, <1>8, <1>9, ProceedFrom

LEMMA DeadLetterImplements ==
  ASSUME NEW r \in Requests, PipelineIInv, DeadLetter(r)
  PROVE  Contract!Proceed(r)
<1>1. /\ phase[r] = "deadletter" /\ Finish(r, accepted[r])
      /\ UNCHANGED <<wiring, accepted, offered, dropped, refused, pressed>>
  BY DEF DeadLetter, historyVars
<1>2. /\ phase' = [phase EXCEPT ![r] = "done"] /\ Accepted(r)' \in {Cardinality(accepted[r]), -1}
      /\ \A s \in Requests \ {r} : response'[s] = response[s]
      /\ accepted[r] \in SUBSET RecordsOf[r]
  BY <1>1, FinishEffect DEF PipelineIInv, RequestsTyped, Accepted
<1>3. Gone' = Gone /\ phase[r] # "gone" /\ Accepted(r) = -1
  BY <1>1, <1>2, Unanswered DEF PipelineIInv, RequestsTyped, Gone
<1>4. \A s \in Requests \ {r} : Fate(s)' = Fate(s) /\ Accepted(s)' = Accepted(s)
  BY <1>1, <1>2, OthersKeepTheirFate DEF PipelineIInv, RequestsTyped
<1>5. /\ \A x \in Records : FateOf(r, x)' = FateOf(r, x)
      /\ \A x \in RecordsOf[r] \ accepted[r] : FateOf(r, x) = "rejected"
      /\ \A x \in accepted[r] : FateOf(r, x) = "refused"
  BY <1>1, <1>2 DEF FateOf, PipelineIInv, RequestsTyped, Progress
<1>6. {x \in RecordsOf[r] : FateOf(r, x)' # "rejected"} = accepted[r]
  BY <1>2, <1>5, Bodies
<1>7. \/ Accepted(r)' = Accepted(r)
      \/ /\ \A x \in RecordsOf[r] : FateOf(r, x)' # "unknown"
         /\ Accepted(r)' =
              Contract!Cardinality({x \in RecordsOf[r] : FateOf(r, x)' # "rejected"})
  BY <1>2, <1>3, <1>5, <1>6, SameCount, Bodies
<1> QED BY <1>3, <1>4, <1>5, <1>7, ProceedFrom

LEMMA CrashImplements ==
  ASSUME PipelineIInv, Crash
  PROVE  Contract!Abandon
<1>1. /\ phase' = [r \in Requests |-> IF phase[r] = "idle" THEN "idle" ELSE "gone"]
      /\ UNCHANGED <<wiring, accepted, response, offered, dropped, refused, pressed>>
  BY DEF Crash, historyVars
<1>2. \A r \in Requests : Fate(r)' = Fate(r) /\ Accepted(r)' = Accepted(r)
  BY <1>1, OthersKeepTheirFate
<1>3. Gone \subseteq Gone' /\ Gone' \in SUBSET Requests
  BY <1>1 DEF Gone
<1>4. Gone' \in {Gone \union S : S \in SUBSET Requests}
  BY <1>3
<1>5. UNCHANGED [r \in Requests |-> Fate(r)] /\ UNCHANGED [r \in Requests |-> Accepted(r)]
  BY <1>2
<1> QED BY <1>4, <1>5 DEF Contract!Abandon, Fate, Accepted, Gone

LEMMA StutterImplements ==
  ASSUME UNCHANGED vars
  PROVE  UNCHANGED Contract!contractVars
BY DEF vars, pipelineVars, historyVars, Contract!contractVars, FateOf

(* The pipeline implements the contract of a request, for any number of    *)
(* requests that run at once: every step of process_* is a step of the     *)
(* contract, so each record meets one final fate and the answer, given     *)
(* once, counts the records that were not rejected.                        *)
THEOREM PipelineImplementsContract == Spec => ImplementsContract
<1>1. Init => Contract!ContractInit
  BY InitContract
<1>2. PipelineIInv /\ [Next]_vars => [Contract!ContractNext]_Contract!contractVars
  <2> SUFFICES ASSUME PipelineIInv, [Next]_vars
               PROVE  [Contract!ContractNext]_Contract!contractVars
    OBVIOUS
  <2>1. ASSUME NEW r \in Requests, Receive(r) PROVE Contract!ContractNext
    BY <2>1, ReceiveImplements DEF Contract!ContractNext
  <2>2. ASSUME NEW r \in Requests, Advance(r) PROVE Contract!ContractNext
    BY <2>2, OfferImplements, DeadLetterImplements DEF Contract!ContractNext, Advance
  <2>3. CASE Crash
    BY <2>3, CrashImplements DEF Contract!ContractNext
  <2>4. CASE UNCHANGED vars
    BY <2>4, StutterImplements
  <2> QED BY <2>1, <2>2, <2>3, <2>4 DEF Next
<1> QED BY <1>1, <1>2, PipelineInvariant, PTL DEF Spec, ImplementsContract, Contract!ContractSpec

=============================================================================
