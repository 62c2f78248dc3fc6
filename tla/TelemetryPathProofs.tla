------------------------- MODULE TelemetryPathProofs ------------------------
(***************************************************************************)
(* The queue path, for any requests, records, kinds and batch size.  What  *)
(* was never published is nowhere behind the stream, because the writer    *)
(* only handles what the stream holds; and until something goes wrong the  *)
(* copies JetStream was asked to deliver are owed, buffered or rows, where *)
(* the one whose ack is awaited is owed and buffered at once.              *)
(***************************************************************************)
EXTENDS TelemetryPath, FiniteSetTheorems, TLAPS

Publishers(m) == {r \in Requests : m \in offered[r]}

PathTyped ==
  /\ stream \in [Records -> Nat] /\ issued \in [Records -> Nat]
  /\ buffer \in [Records -> Nat] /\ table \in [Records -> Nat] /\ lost \in [Records -> Nat]
  /\ handling \in [Kinds -> Records \union {NoRecord}]
  /\ offered \in [Requests -> SUBSET Records]
  /\ faults \in Nat

(* What a handler works on is of its kind and still owed to JetStream.     *)
HandlersOwe ==
  \A k \in Kinds : handling[k] # NoRecord =>
    KindOf[handling[k]] = k /\ stream[handling[k]] > 0

PublishersFinite == \A m \in Records : IsFiniteSet(Publishers(m))

(* What no request published is nowhere.                                   *)
NothingUnpublished ==
  \A m \in Records : Publishers(m) = {} =>
    stream[m] = 0 /\ buffer[m] = 0 /\ table[m] = 0 /\ lost[m] = 0

(* In fair weather the writer runs and every copy is in one place.         *)
FairCopies ==
  faults = 0 =>
    /\ process = "running"
    /\ \A m \in Records : stream[m] - InHandler(m) + buffer[m] + table[m] = issued[m]

PathIInv ==
  PathTyped /\ HandlersOwe /\ PublishersFinite /\ NothingUnpublished /\ FairCopies

-----------------------------------------------------------------------------
LEMMA InitPath == Init => PathIInv
<1> SUFFICES ASSUME Init
             PROVE  PathIInv
  OBVIOUS
<1> USE DEF Init, P!Init, P!PipelineInit, P!Nothing, W!WriterInit, W!Nothing
<1>1. PathTyped
  BY DEF PathTyped
<1>2. \A m \in Records : Publishers(m) = {}
  BY DEF Publishers
<1>3. PublishersFinite
  BY <1>2, FS_EmptySet DEF PublishersFinite
<1>4. HandlersOwe /\ NothingUnpublished
  BY DEF HandlersOwe, NothingUnpublished
<1>5. \A m \in Records : InHandler(m) = 0
  BY TelemetryAssumption DEF InHandler, TelemetryAssumption
<1>6. FairCopies
  BY <1>5 DEF FairCopies
<1> QED BY <1>1, <1>3, <1>4, <1>6 DEF PathIInv

(* Of the pipeline's steps only one that publishes touches the stream.     *)
LEMMA PipelineStep ==
  ASSUME P!Next
  PROVE  \/ UNCHANGED <<stream, issued, offered>>
         \/ \E r \in Requests, m \in Records :
              /\ stream' = [stream EXCEPT ![m] = @ + 1]
              /\ issued' = [issued EXCEPT ![m] = @ + 1]
              /\ offered' = [offered EXCEPT ![r] = @ \union {m}]
<1>1. ASSUME NEW r \in Requests, P!Receive(r)
      PROVE  UNCHANGED <<stream, issued, offered>>
  BY <1>1 DEF P!Receive, P!ReceiveNothing, P!ReceiveUnrouted, P!ReceiveRefused, P!ReceiveRoutable,
              P!natsVars, P!historyVars
<1>2. ASSUME NEW r \in Requests, NEW m \in RecordsOf[r], P!Publish(r, m)
      PROVE  /\ m \in Records
             /\ stream' = [stream EXCEPT ![m] = @ + 1]
             /\ issued' = [issued EXCEPT ![m] = @ + 1]
             /\ offered' = [offered EXCEPT ![r] = @ \union {m}]
  BY <1>2, TelemetryAssumption DEF P!Publish, TelemetryAssumption
<1>3. ASSUME NEW r \in Requests,
             P!DeadLetter(r) \/ \E m \in RecordsOf[r] : P!PublishFails(r, m)
      PROVE  UNCHANGED <<stream, issued, offered>>
  BY <1>3 DEF P!DeadLetter, P!PublishFails, P!natsVars, P!historyVars
<1>4. CASE P!Crash
  BY <1>4 DEF P!Crash, P!natsVars, P!historyVars
<1> QED BY <1>1, <1>2, <1>3, <1>4 DEF P!Next, P!Advance

LEMMA PublishKeeps ==
  ASSUME PathIInv, UNCHANGED writerVars,
         NEW r \in Requests, NEW m \in Records,
         stream' = [stream EXCEPT ![m] = @ + 1],
         issued' = [issued EXCEPT ![m] = @ + 1],
         offered' = [offered EXCEPT ![r] = @ \union {m}]
  PROVE  PathIInv'
<1> USE DEF PathIInv
<1>1. UNCHANGED <<buffer, handling, process, table, lost, faults>>
  BY DEF writerVars
<1>2. PathTyped'
  BY <1>1 DEF PathTyped
<1>3. /\ stream'[m] = stream[m] + 1 /\ issued'[m] = issued[m] + 1
      /\ \A n \in Records \ {m} : stream'[n] = stream[n] /\ issued'[n] = issued[n]
  BY DEF PathTyped
<1>4. HandlersOwe'
  BY <1>1, <1>3, TelemetryAssumption DEF HandlersOwe, PathTyped
<1>5. /\ Publishers(m)' = Publishers(m) \union {r}
      /\ \A n \in Records \ {m} : Publishers(n)' = Publishers(n)
  BY DEF Publishers, PathTyped
<1>6. PublishersFinite'
  <2>1. IsFiniteSet(Publishers(m) \union {r})
    BY FS_AddElement DEF PublishersFinite
  <2> QED BY <1>5, <2>1 DEF PublishersFinite
<1>7. NothingUnpublished'
  BY <1>1, <1>3, <1>5 DEF NothingUnpublished
<1>8. FairCopies'
  <2> SUFFICES ASSUME faults' = 0, NEW n \in Records
               PROVE  process' = "running" /\
                      stream'[n] - InHandler(n)' + buffer'[n] + table'[n] = issued'[n]
    BY DEF FairCopies
  <2> DEFINE i == InHandler(n)
  <2>1. InHandler(n)' = i /\ i \in Nat
    BY <1>1 DEF InHandler
  <2>2. process = "running" /\ stream[n] - i + buffer[n] + table[n] = issued[n]
    BY <1>1 DEF FairCopies
  <2>3. stream[n] \in Nat /\ buffer[n] \in Nat /\ table[n] \in Nat /\ issued[n] \in Nat
    BY DEF PathTyped
  <2> HIDE DEF i, PathIInv
  <2>4. stream'[n] - i + buffer[n] + table[n] = issued'[n]
    BY <1>3, <2>2, <2>3, <2>1
  <2> QED BY <1>1, <2>1, <2>2, <2>4
<1> QED BY <1>2, <1>4, <1>6, <1>7, <1>8

(* A flush, of any kinds, makes no copy; one that does not raise loses and *)
(* doubles none.                                                           *)
LEMMA FlushEffect ==
  ASSUME PathTyped, NEW K, NEW raised, NEW written, K \ raised \subseteq written,
         W!FlushWith(K, raised, written)
  PROVE  /\ buffer' \in [Records -> Nat] /\ table' \in [Records -> Nat]
         /\ \A m \in Records :
              /\ buffer[m] = 0 => buffer'[m] = 0 /\ table'[m] = table[m]
              /\ raised = {} /\ written = K => buffer'[m] + table'[m] = buffer[m] + table[m]
<1> DEFINE batch(r) == IF KindOf[r] \in K THEN buffer[r] ELSE 0
           kept(r) == IF KindOf[r] \in raised THEN buffer[r] ELSE buffer[r] - batch(r)
           rows(r) == IF KindOf[r] \in written THEN batch(r) ELSE 0
<1>1. /\ buffer' = [r \in Records |-> kept(r)]
      /\ table' = [r \in Records |-> table[r] + rows(r)]
  BY DEF W!FlushWith
<1>2. \A r \in Records : buffer[r] \in Nat /\ table[r] \in Nat
  BY DEF PathTyped
<1>3. \A r \in Records :
        /\ kept(r) \in Nat /\ rows(r) \in Nat
        /\ buffer[r] = 0 => kept(r) = 0 /\ rows(r) = 0
        /\ raised = {} /\ written = K => kept(r) + rows(r) = buffer[r]
  BY <1>2
<1> HIDE DEF batch, kept, rows
<1> QED BY <1>1, <1>2, <1>3

LEMMA OwnPublishers ==
  ASSUME UNCHANGED pipelineVars
  PROVE  \A m \in Records : Publishers(m)' = Publishers(m)
BY DEF pipelineVars, Publishers

LEMMA HandleKeeps ==
  ASSUME PathIInv, UNCHANGED pipelineVars, NEW r \in Records, W!Handle(r)
  PROVE  PathIInv'
<1> USE DEF PathIInv
<1>1. /\ process # "down" /\ handling[KindOf[r]] = NoRecord /\ stream[r] > 0
      /\ buffer' = [buffer EXCEPT ![r] = @ + 1]
      /\ handling' = [handling EXCEPT ![KindOf[r]] = r]
      /\ UNCHANGED <<stream, issued, process, table, lost, faults, offered>>
  BY DEF W!Handle, W!serverVars, pipelineVars
<1>2. KindOf[r] \in Kinds /\ r # NoRecord
  BY TelemetryAssumption DEF TelemetryAssumption
<1>3. PathTyped'
  BY <1>1, <1>2 DEF PathTyped
<1>4. HandlersOwe'
  BY <1>1, <1>2 DEF HandlersOwe, PathTyped
<1>5. PublishersFinite' /\ NothingUnpublished'
  BY <1>1, OwnPublishers DEF PublishersFinite, NothingUnpublished, PathTyped
<1>6. FairCopies'
  <2> SUFFICES ASSUME faults' = 0, NEW n \in Records
               PROVE  process' = "running" /\
                      stream'[n] - InHandler(n)' + buffer'[n] + table'[n] = issued'[n]
    BY DEF FairCopies
  <2>1. process = "running" /\ stream[n] - InHandler(n) + buffer[n] + table[n] = issued[n]
    BY <1>1 DEF FairCopies
  <2>2. stream[n] \in Nat /\ buffer[n] \in Nat /\ table[n] \in Nat /\ issued[n] \in Nat
    BY DEF PathTyped
  <2>3. CASE n = r
    <3>1. InHandler(n) = 0 /\ InHandler(n)' = 1 /\ buffer'[n] = buffer[n] + 1
      BY <1>1, <1>2, <2>3 DEF InHandler, PathTyped
    <3> HIDE DEF PathIInv
    <3> QED BY <1>1, <2>1, <2>2, <3>1
  <2>4. CASE n # r
    <3>1. InHandler(n)' = InHandler(n) /\ buffer'[n] = buffer[n]
      BY <1>1, <1>2, <2>4, TelemetryAssumption DEF InHandler, PathTyped, TelemetryAssumption
    <3> HIDE DEF PathIInv
    <3> QED BY <1>1, <2>1, <2>2, <3>1
  <2> QED BY <2>3, <2>4
<1> QED BY <1>3, <1>4, <1>5, <1>6

LEMMA AckReturnsKeeps ==
  ASSUME PathIInv, UNCHANGED pipelineVars, NEW k \in Kinds, W!AckReturns(k)
  PROVE  PathIInv'
<1> USE DEF PathIInv
<1> DEFINE r == handling[k]
<1>1. /\ r # NoRecord
      /\ handling' = [handling EXCEPT ![k] = NoRecord]
      /\ stream' = [stream EXCEPT ![r] = @ - 1]
      /\ W!FlushIfDue(k)
      /\ UNCHANGED <<issued, process, lost, offered>>
  BY DEF W!AckReturns, pipelineVars
<1>2. r \in Records /\ KindOf[r] = k /\ stream[r] > 0
  BY <1>1 DEF PathTyped, HandlersOwe
<1>3. /\ buffer' \in [Records -> Nat] /\ table' \in [Records -> Nat] /\ faults' \in Nat
      /\ \A m \in Records : buffer[m] = 0 => buffer'[m] = 0 /\ table'[m] = table[m]
      /\ faults' = 0 => /\ faults = 0
                        /\ \A m \in Records : buffer'[m] + table'[m] = buffer[m] + table[m]
  <2>1. CASE UNCHANGED <<buffer, table, faults>>
    BY <2>1 DEF PathTyped
  <2>2. CASE W!FlushWith({k}, {}, {k}) /\ UNCHANGED faults
    <3>1. {k} \ {} \subseteq {k}
      OBVIOUS
    <3> HIDE DEF r
    <3> QED BY <2>2, <3>1, FlushEffect DEF PathTyped
  <2>3. CASE /\ W!Fault
             /\ \E raised \in SUBSET W!NonEmpty({k}), written \in SUBSET {k} :
                  {k} \ raised \subseteq written /\ W!FlushWith({k}, raised, written)
    <3>1. faults' = faults + 1
      BY <2>3 DEF W!Fault
    <3>2. PICK raised \in SUBSET W!NonEmpty({k}), written \in SUBSET {k} :
            {k} \ raised \subseteq written /\ W!FlushWith({k}, raised, written)
      BY <2>3
    <3>3. /\ buffer' \in [Records -> Nat] /\ table' \in [Records -> Nat]
          /\ \A m \in Records : buffer[m] = 0 => buffer'[m] = 0 /\ table'[m] = table[m]
      BY <3>2, FlushEffect
    <3> QED BY <3>1, <3>3 DEF PathTyped
  <2> QED BY <1>1, <2>1, <2>2, <2>3 DEF W!FlushIfDue, W!Flush
<1>4. /\ stream'[r] = stream[r] - 1 /\ \A n \in Records \ {r} : stream'[n] = stream[n]
      /\ stream' \in [Records -> Nat]
      /\ handling'[k] = NoRecord /\ \A j \in Kinds \ {k} : handling'[j] = handling[j]
      /\ handling' \in [Kinds -> Records \union {NoRecord}]
  BY <1>1, <1>2 DEF PathTyped
<1>5. PathTyped'
  BY <1>1, <1>3, <1>4 DEF PathTyped
<1>6. HandlersOwe'
  BY <1>1, <1>2, <1>4 DEF HandlersOwe, PathTyped
<1>7. PublishersFinite' /\ NothingUnpublished'
  BY <1>1, <1>2, <1>3, <1>4, OwnPublishers DEF PublishersFinite, NothingUnpublished, PathTyped
<1>8. FairCopies'
  <2> SUFFICES ASSUME faults' = 0, NEW n \in Records
               PROVE  process' = "running" /\
                      stream'[n] - InHandler(n)' + buffer'[n] + table'[n] = issued'[n]
    BY <1>2 DEF FairCopies
  <2>1. process = "running" /\ stream[n] - InHandler(n) + buffer[n] + table[n] = issued[n]
    BY <1>3 DEF FairCopies
  <2>2. /\ stream[n] \in Nat /\ buffer[n] \in Nat /\ table[n] \in Nat /\ issued[n] \in Nat
        /\ buffer'[n] \in Nat /\ table'[n] \in Nat
        /\ buffer'[n] + table'[n] = buffer[n] + table[n]
    BY <1>3 DEF PathTyped
  <2>3. CASE n = r
    <3>1. InHandler(n) = 1 /\ InHandler(n)' = 0 /\ stream'[n] = stream[n] - 1
      BY <1>1, <1>2, <1>4, <2>3 DEF InHandler
    <3> HIDE DEF PathIInv, r
    <3> QED BY <1>1, <2>1, <2>2, <3>1
  <2>4. CASE n # r
    <3>1. InHandler(n)' = InHandler(n) /\ InHandler(n) \in {0, 1} /\ stream'[n] = stream[n]
      BY <1>1, <1>2, <1>4, <2>4, TelemetryAssumption DEF InHandler, TelemetryAssumption
    <3> HIDE DEF PathIInv, r
    <3> QED BY <1>1, <2>1, <2>2, <3>1
  <2> QED BY <2>3, <2>4
<1> QED BY <1>5, <1>6, <1>7, <1>8

(* What counts as a fault needs no more than that no copy is made.         *)
LEMMA FaultKeeps ==
  ASSUME PathIInv, UNCHANGED pipelineVars, UNCHANGED <<stream, issued, lost>>,
         W!Fault, buffer' \in [Records -> Nat], table' \in [Records -> Nat],
         \A m \in Records : buffer[m] = 0 => buffer'[m] = 0 /\ table'[m] = table[m],
         handling' \in [Kinds -> Records \union {NoRecord}],
         \A k \in Kinds : handling'[k] \in {handling[k], NoRecord}
  PROVE  PathIInv'
<1> USE DEF PathIInv
<1>1. faults' \in Nat /\ faults' # 0
  BY DEF W!Fault, PathTyped
<1>2. PathTyped'
  BY <1>1 DEF PathTyped, pipelineVars
<1>3. HandlersOwe'
  BY DEF HandlersOwe
<1>4. PublishersFinite' /\ NothingUnpublished'
  BY OwnPublishers DEF PublishersFinite, NothingUnpublished
<1> QED BY <1>1, <1>2, <1>3, <1>4 DEF FairCopies

LEMMA AckLostKeeps ==
  ASSUME PathIInv, UNCHANGED pipelineVars, NEW k \in Kinds, W!AckLost(k)
  PROVE  PathIInv'
<1>1. /\ UNCHANGED <<stream, issued, lost>> /\ W!Fault
      /\ handling' = [handling EXCEPT ![k] = NoRecord]
      /\ \/ UNCHANGED <<buffer, table>>
         \/ \E raised \in SUBSET W!NonEmpty({k}), written \in SUBSET {k} :
              {k} \ raised \subseteq written /\ W!FlushWith({k}, raised, written)
  BY DEF W!AckLost, W!serverVars
<1>2. PathTyped
  BY DEF PathIInv
<1>3. /\ buffer' \in [Records -> Nat] /\ table' \in [Records -> Nat]
      /\ \A m \in Records : buffer[m] = 0 => buffer'[m] = 0 /\ table'[m] = table[m]
  <2>1. ASSUME NEW raised \in SUBSET W!NonEmpty({k}), NEW written \in SUBSET {k},
               {k} \ raised \subseteq written, W!FlushWith({k}, raised, written)
        PROVE  /\ buffer' \in [Records -> Nat] /\ table' \in [Records -> Nat]
               /\ \A m \in Records : buffer[m] = 0 => buffer'[m] = 0 /\ table'[m] = table[m]
    BY <1>2, <2>1, FlushEffect
  <2>2. CASE UNCHANGED <<buffer, table>>
    BY <1>2, <2>2 DEF PathTyped
  <2> QED BY <1>1, <2>1, <2>2
<1>4. /\ handling' \in [Kinds -> Records \union {NoRecord}]
      /\ \A j \in Kinds : handling'[j] \in {handling[j], NoRecord}
  BY <1>1, <1>2 DEF PathTyped
<1> QED BY <1>1, <1>3, <1>4, FaultKeeps

LEMMA AckRaisesKeeps ==
  ASSUME PathIInv, UNCHANGED pipelineVars, NEW k \in Kinds, W!AckRaises(k)
  PROVE  PathIInv'
<1>1. /\ UNCHANGED <<stream, issued, lost>> /\ W!Fault
      /\ handling' = [handling EXCEPT ![k] = NoRecord]
      /\ UNCHANGED <<buffer, table>>
  BY DEF W!AckRaises, W!serverVars
<1>2. PathTyped
  BY DEF PathIInv
<1>3. /\ buffer' \in [Records -> Nat] /\ table' \in [Records -> Nat]
      /\ \A m \in Records : buffer[m] = 0 => buffer'[m] = 0 /\ table'[m] = table[m]
  BY <1>1, <1>2 DEF PathTyped
<1>4. /\ handling' \in [Kinds -> Records \union {NoRecord}]
      /\ \A j \in Kinds : handling'[j] \in {handling[j], NoRecord}
  BY <1>1, <1>2 DEF PathTyped
<1> QED BY <1>1, <1>3, <1>4, FaultKeeps

LEMMA StopKeeps ==
  ASSUME PathIInv, UNCHANGED pipelineVars, W!Stop
  PROVE  PathIInv'
<1>1. /\ UNCHANGED <<stream, issued, lost, handling>> /\ W!Fault
      /\ \E raised \in SUBSET W!NonEmpty(Kinds), written \in SUBSET Kinds :
           Kinds \ raised \subseteq written /\ W!FlushWith(Kinds, raised, written)
  BY DEF W!Stop, W!serverVars
<1>2. PathTyped
  BY DEF PathIInv
<1>3. /\ buffer' \in [Records -> Nat] /\ table' \in [Records -> Nat]
      /\ \A m \in Records : buffer[m] = 0 => buffer'[m] = 0 /\ table'[m] = table[m]
  BY <1>1, <1>2, FlushEffect
<1>4. /\ handling' \in [Kinds -> Records \union {NoRecord}]
      /\ \A j \in Kinds : handling'[j] \in {handling[j], NoRecord}
  BY <1>1, <1>2 DEF PathTyped
<1> QED BY <1>1, <1>3, <1>4, FaultKeeps

(* A process ends only after a fault: a crash, or the stop before it.      *)
LEMMA EndKeeps ==
  ASSUME PathIInv, UNCHANGED pipelineVars, W!Exit \/ W!Crash
  PROVE  PathIInv'
<1> USE DEF PathIInv
<1>1. /\ W!EndProcess /\ UNCHANGED <<stream, issued>>
      /\ \/ process = "stopped" /\ UNCHANGED faults
         \/ faults' = faults + 1
  BY DEF W!Exit, W!Crash, W!Fault, W!EndProcess, W!serverVars
<1>2. faults' \in Nat /\ faults' # 0
  BY <1>1 DEF FairCopies, PathTyped
<1>3. /\ lost' = [r \in Records |-> lost[r] + buffer[r]]
      /\ buffer' = [r \in Records |-> 0]
      /\ handling' = [k \in Kinds |-> NoRecord]
      /\ UNCHANGED <<table, offered>>
  BY <1>1 DEF W!EndProcess, W!Nothing, pipelineVars
<1>4. PathTyped'
  BY <1>1, <1>2, <1>3 DEF PathTyped
<1>5. HandlersOwe'
  BY <1>3 DEF HandlersOwe
<1>6. PublishersFinite'
  BY OwnPublishers DEF PublishersFinite
<1>7. NothingUnpublished'
  BY <1>1, <1>3, OwnPublishers DEF NothingUnpublished
<1> QED BY <1>2, <1>4, <1>5, <1>6, <1>7 DEF FairCopies

LEMMA RestartKeeps ==
  ASSUME PathIInv, UNCHANGED pipelineVars, W!Restart
  PROVE  PathIInv'
<1>1. /\ process = "down" /\ process' = "running"
      /\ UNCHANGED <<stream, issued, buffer, handling, table, lost, faults, offered>>
  BY DEF W!Restart, W!serverVars, pipelineVars
<1>2. faults' # 0
  BY <1>1 DEF PathIInv, FairCopies
<1>3. PathTyped' /\ HandlersOwe'
  BY <1>1 DEF PathIInv, PathTyped, HandlersOwe
<1>4. PublishersFinite'
  BY OwnPublishers DEF PathIInv, PublishersFinite
<1>5. NothingUnpublished'
  BY <1>1, OwnPublishers DEF PathIInv, NothingUnpublished
<1> QED BY <1>2, <1>3, <1>4, <1>5 DEF PathIInv, FairCopies

(* The server's redelivery owes one copy more, and asks for one more.      *)
LEMMA ExpiryKeeps ==
  ASSUME PathIInv, UNCHANGED pipelineVars, NEW r \in Records, W!AckWaitExpires(r)
  PROVE  PathIInv'
<1> USE DEF PathIInv
<1>1. /\ stream[r] > 0
      /\ stream' = [stream EXCEPT ![r] = @ + 1] /\ issued' = [issued EXCEPT ![r] = @ + 1]
      /\ UNCHANGED <<buffer, handling, process, table, lost, faults, offered>>
  BY DEF W!AckWaitExpires, W!writerVars, pipelineVars
<1>2. PathTyped'
  BY <1>1 DEF PathTyped
<1>3. /\ stream'[r] = stream[r] + 1 /\ issued'[r] = issued[r] + 1
      /\ \A n \in Records \ {r} : stream'[n] = stream[n] /\ issued'[n] = issued[n]
  BY <1>1 DEF PathTyped
<1>4. HandlersOwe'
  BY <1>1, <1>3, TelemetryAssumption DEF HandlersOwe, PathTyped
<1>5. PublishersFinite' /\ NothingUnpublished'
  BY <1>1, <1>3, OwnPublishers DEF PublishersFinite, NothingUnpublished, PathTyped
<1>6. FairCopies'
  <2> SUFFICES ASSUME faults' = 0, NEW n \in Records
               PROVE  process' = "running" /\
                      stream'[n] - InHandler(n)' + buffer'[n] + table'[n] = issued'[n]
    BY DEF FairCopies
  <2> DEFINE i == InHandler(n)
  <2>1. InHandler(n)' = i /\ i \in Nat
    BY <1>1 DEF InHandler
  <2>2. process = "running" /\ stream[n] - i + buffer[n] + table[n] = issued[n]
    BY <1>1 DEF FairCopies
  <2>3. stream[n] \in Nat /\ buffer[n] \in Nat /\ table[n] \in Nat /\ issued[n] \in Nat
    BY DEF PathTyped
  <2> HIDE DEF i, PathIInv
  <2>4. stream'[n] - i + buffer[n] + table[n] = issued'[n]
    BY <1>3, <2>2, <2>3, <2>1
  <2> QED BY <1>1, <2>1, <2>2, <2>4
<1> QED BY <1>2, <1>4, <1>5, <1>6

(* Time, the pipeline's own steps and stutters change nothing of it.       *)
LEMMA QuietKeeps ==
  ASSUME PathIInv,
         UNCHANGED <<stream, issued, buffer, handling, process, table, lost, faults, offered>>
  PROVE  PathIInv'
<1>1. PathTyped' /\ HandlersOwe'
  BY DEF PathIInv, PathTyped, HandlersOwe
<1>2. \A m \in Records : Publishers(m)' = Publishers(m)
  BY DEF Publishers
<1>3. PublishersFinite' /\ NothingUnpublished'
  BY <1>2 DEF PathIInv, PublishersFinite, NothingUnpublished
<1>4. FairCopies'
  BY DEF PathIInv, FairCopies, InHandler
<1> QED BY <1>1, <1>3, <1>4 DEF PathIInv

LEMMA StepPath == PathIInv /\ [Next]_vars => PathIInv'
<1> SUFFICES ASSUME PathIInv, [Next]_vars
             PROVE  PathIInv'
  OBVIOUS
<1>1. CASE P!Next /\ UNCHANGED writerVars
  <2>1. CASE UNCHANGED <<stream, issued, offered>>
    BY <1>1, <2>1, QuietKeeps DEF writerVars
  <2> QED BY <1>1, <2>1, PipelineStep, PublishKeeps
<1>2. CASE W!WriterNext /\ UNCHANGED pipelineVars
  <2>1. CASE W!Tick
    BY <1>2, <2>1, QuietKeeps DEF W!Tick, W!serverVars, pipelineVars
  <2> QED BY <1>2, <2>1, HandleKeeps, AckReturnsKeeps, AckLostKeeps, AckRaisesKeeps,
             StopKeeps, EndKeeps, RestartKeeps DEF W!WriterNext
<1>3. CASE W!ServerNext /\ UNCHANGED pipelineVars
  BY <1>3, ExpiryKeeps DEF W!ServerNext
<1>4. CASE UNCHANGED vars
  BY <1>4, QuietKeeps DEF vars, pipelineVars, writerVars
<1> QED BY <1>1, <1>2, <1>3, <1>4 DEF Next

(* For any number of requests and records: only what was published is in a *)
(* buffer, in ClickHouse or lost, and every copy JetStream was asked for   *)
(* in fair weather is owed, buffered or a row.                             *)
THEOREM PathInvariant == Spec => []PathIInv
<1>1. PathIInv /\ [Next]_vars => PathIInv'
  BY StepPath
<1> QED BY InitPath, <1>1, PTL DEF Spec

(* A row the StorageWriter holds, wrote or lost was published.             *)
THEOREM NothingFromNowhere == Spec => []StoredWasPublished
<1>1. PathIInv => StoredWasPublished
  <2> SUFFICES ASSUME PathIInv, NEW m \in Records, buffer[m] + table[m] + lost[m] > 0
               PROVE  Publications(m) > 0
    BY DEF StoredWasPublished
  <2>1. Publishers(m) # {}
    BY DEF PathIInv, NothingUnpublished
  <2>2. IsFiniteSet(Publishers(m))
    BY DEF PathIInv, PublishersFinite
  <2>3. Cardinality(Publishers(m)) \in Nat
    BY <2>2, FS_CardinalityType
  <2>4. Cardinality(Publishers(m)) # 0
    BY <2>1, <2>2, FS_EmptySet
  <2> DEFINE n == Cardinality(Publishers(m))
  <2> HIDE DEF n
  <2>5. n > 0
    BY <2>3, <2>4 DEF n
  <2> QED BY <2>5 DEF n, Publications, Publishers
<1> QED BY <1>1, PathInvariant, PTL

(* Without a fault and without a redelivery the queue path holds each      *)
(* publication exactly once.                                               *)
THEOREM ExactlyOnceInFairWeather == Spec => []FairWeatherExactlyOnce
<1>1. PathIInv => FairWeatherExactlyOnce
  BY DEF PathIInv, FairCopies, FairWeatherExactlyOnce
<1> QED BY <1>1, PathInvariant, PTL

=============================================================================
