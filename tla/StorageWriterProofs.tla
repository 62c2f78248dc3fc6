------------------------ MODULE StorageWriterProofs -------------------------
(***************************************************************************)
(* What StorageWriter guarantees for every set of records and kinds, every *)
(* batch size, flush interval and number of faults.  The argument: a flush *)
(* conserves the copies of a record (FlushOutcome, whatever insert raises  *)
(* or is written all the same), so every action keeps the balance between  *)
(* what was delivered and what is buffered, stored or lost; and because a  *)
(* handler takes custody before it acknowledges, and the handlers of other *)
(* kinds never touch its record (HandlersKeepToTheirKind), JetStream never *)
(* gives up more copies than the writer has taken.                         *)
(***************************************************************************)
EXTENDS StorageWriter, FiniteSetTheorems, TLAPS

(* A handler works on a record of its own kind: two handlers that await    *)
(* their acks at the same time never settle deliveries of one record.      *)
HandlersKeepToTheirKind ==
  \A k \in Kinds : handling[k] # NoRecord => KindOf[handling[k]] = k

(* What a handler is working on is still owed to JetStream: the ack it     *)
(* awaits settles a delivery that nothing else has settled.                *)
HandledIsOwed ==
  \A k \in Kinds : handling[k] # NoRecord => stream[handling[k]] > 0

(* Rows leave no table and no record is un-lost; a copy leaves a buffer    *)
(* only into ClickHouse or with the process.                               *)
BufferDrainsIntoTable ==
  [][\A r \in Records :
       buffer'[r] < buffer[r] =>
         \/ table'[r] >= table[r] + (buffer[r] - buffer'[r])
         \/ process' = "down"]_vars

(* The inductive invariant.                                                *)
IInv ==
  /\ TypeOK
  /\ HandlersKeepToTheirKind
  /\ HandledIsOwed
  /\ EveryCopyAccountedFor
  /\ AckFollowsCustody

-----------------------------------------------------------------------------
(* What any flush, of any kinds, does to the copies of each record.        *)
FlushOutcome ==
  /\ buffer' \in [Records -> Nat]
  /\ table' \in [Records -> Nat]
  /\ doubled' \in [Records -> Nat]
  /\ sinceFlush' \in 0..FlushInterval
  /\ unflushed' \in SUBSET Kinds
  /\ \A r \in Records :
       /\ buffer'[r] + table'[r] + doubled[r] = buffer[r] + table[r] + doubled'[r]
       /\ doubled'[r] >= doubled[r]
       /\ buffer'[r] < buffer[r] => table'[r] >= table[r] + (buffer[r] - buffer'[r])

(* _flush_*: the clear, the insert and the re-queue of a failed batch      *)
(* conserve the copies, for every combination of kinds whose insert raised *)
(* and kinds whose rows reached ClickHouse, as long as an insert that does *)
(* not raise is written.                                                   *)
LEMMA FlushWithOutcome ==
  ASSUME TypeOK,
         NEW K \in SUBSET Kinds,
         NEW raised \in SUBSET K,
         NEW written \in SUBSET K,
         K \ raised \subseteq written,
         FlushWith(K, raised, written)
  PROVE  FlushOutcome
<1> DEFINE batch(r) == IF KindOf[r] \in K THEN buffer[r] ELSE 0
           kept(r) == IF KindOf[r] \in raised THEN buffer[r] ELSE buffer[r] - batch(r)
           rows(r) == IF KindOf[r] \in written THEN batch(r) ELSE 0
           twice(r) == IF KindOf[r] \in raised \intersect written THEN batch(r) ELSE 0
<1>1. /\ buffer' = [r \in Records |-> kept(r)]
      /\ table' = [r \in Records |-> table[r] + rows(r)]
      /\ doubled' = [r \in Records |-> doubled[r] + twice(r)]
  BY DEF FlushWith
<1>2. /\ sinceFlush' = IF \E r \in Records : batch(r) > 0 THEN 0 ELSE sinceFlush
      /\ unflushed' = (unflushed \ K) \union raised
  BY DEF FlushWith
<1>3. \A r \in Records :
        /\ batch(r) \in Nat /\ kept(r) \in Nat /\ rows(r) \in Nat /\ twice(r) \in Nat
        /\ kept(r) + rows(r) = buffer[r] + twice(r)
        /\ kept(r) < buffer[r] => rows(r) >= buffer[r] - kept(r)
  <2> SUFFICES ASSUME NEW r \in Records
               PROVE  /\ batch(r) \in Nat /\ kept(r) \in Nat
                      /\ rows(r) \in Nat /\ twice(r) \in Nat
                      /\ kept(r) + rows(r) = buffer[r] + twice(r)
                      /\ kept(r) < buffer[r] => rows(r) >= buffer[r] - kept(r)
    OBVIOUS
  <2>1. buffer[r] \in Nat
    BY DEF TypeOK
  <2>2. CASE KindOf[r] \notin K
    BY <2>1, <2>2
  <2>3. CASE KindOf[r] \in K /\ KindOf[r] \notin raised
    BY <2>1, <2>3
  <2>4. CASE KindOf[r] \in raised
    BY <2>1, <2>4
  <2> QED
    BY <2>2, <2>3, <2>4
<1> HIDE DEF batch, kept, rows, twice
<1>4. \A r \in Records : buffer[r] \in Nat /\ table[r] \in Nat /\ doubled[r] \in Nat
  BY DEF TypeOK
<1>5. sinceFlush' \in 0..FlushInterval /\ unflushed' \in SUBSET Kinds
  BY <1>2, WriterAssumption DEF TypeOK, WriterAssumption
<1>6. ASSUME NEW r \in Records
      PROVE  /\ buffer'[r] + table'[r] + doubled[r] = buffer[r] + table[r] + doubled'[r]
             /\ doubled'[r] >= doubled[r]
             /\ buffer'[r] < buffer[r] => table'[r] >= table[r] + (buffer[r] - buffer'[r])
  <2>1. /\ buffer'[r] = kept(r)
        /\ table'[r] = table[r] + rows(r)
        /\ doubled'[r] = doubled[r] + twice(r)
    BY <1>1
  <2> QED
    BY <2>1, <1>3, <1>4
<1>7. /\ buffer' \in [Records -> Nat]
      /\ table' \in [Records -> Nat]
      /\ doubled' \in [Records -> Nat]
  BY <1>1, <1>3, <1>4
<1> QED
  BY <1>5, <1>6, <1>7 DEF FlushOutcome

LEMMA StutterOutcome ==
  ASSUME TypeOK, UNCHANGED <<buffer, table, doubled, sinceFlush, unflushed>>
  PROVE  FlushOutcome
BY DEF TypeOK, FlushOutcome

(* The flush a handler runs after its ack, due or not.                     *)
LEMMA FlushIfDueOutcome ==
  ASSUME TypeOK, NEW k \in Kinds, FlushIfDue(k)
  PROVE  FlushOutcome /\ faults' \in 0..MaxFaults
<1>1. CASE UNCHANGED <<buffer, table, doubled, sinceFlush, unflushed, faults>>
  BY <1>1, StutterOutcome DEF TypeOK
<1>2. CASE FlushWith({k}, {}, {k}) /\ UNCHANGED faults
  BY <1>2, FlushWithOutcome DEF TypeOK
<1>3. ASSUME Fault,
             NEW raised \in SUBSET NonEmpty({k}), NEW written \in SUBSET {k},
             {k} \ raised \subseteq written,
             FlushWith({k}, raised, written)
      PROVE  FlushOutcome /\ faults' \in 0..MaxFaults
  <2>1. raised \in SUBSET {k}
    BY DEF NonEmpty
  <2>2. FlushOutcome
    BY <1>3, <2>1, FlushWithOutcome
  <2>3. faults' \in 0..MaxFaults
    BY <1>3, WriterAssumption DEF Fault, TypeOK, WriterAssumption
  <2> QED
    BY <2>2, <2>3
<1> QED
  BY <1>1, <1>2, <1>3 DEF FlushIfDue, Flush

-----------------------------------------------------------------------------
LEMMA InitIInv == Init => IInv
BY WriterAssumption
   DEF Init, WriterInit, ServerInit, IInv, TypeOK, HandlersKeepToTheirKind, HandledIsOwed,
       EveryCopyAccountedFor, AckFollowsCustody, Nothing, Settled, InHandler,
       WriterAssumption

(* One step per action, and under it one per conjunct it can disturb.      *)
LEMMA NextIInv == IInv /\ [Next]_vars => IInv'
<1> SUFFICES ASSUME IInv, [Next]_vars
             PROVE  IInv'
  OBVIOUS
<1> USE DEF IInv, TypeOK, serverVars, writerVars
<1>1. ASSUME NEW r \in Records, Publish(r) \/ AckWaitExpires(r)
      PROVE  IInv'
  <2>1. UNCHANGED <<buffer, handling, sinceFlush, process, table, delivered, doubled,
                    lost, unflushed, faults>>
    BY <1>1 DEF Publish, AckWaitExpires
  <2>2. /\ stream' = [stream EXCEPT ![r] = @ + 1]
        /\ issued' = [issued EXCEPT ![r] = @ + 1]
    BY <1>1 DEF Publish, AckWaitExpires
  <2>3. TypeOK'
    BY <2>1, <2>2
  <2>4. HandledIsOwed' /\ HandlersKeepToTheirKind' /\ EveryCopyAccountedFor'
    BY <2>1, <2>2 DEF HandledIsOwed, HandlersKeepToTheirKind, EveryCopyAccountedFor
  <2>5. AckFollowsCustody'
    BY <2>1, <2>2 DEF AckFollowsCustody, Settled, InHandler
  <2> QED
    BY <2>3, <2>4, <2>5
<1>2. ASSUME NEW r \in Records, Handle(r)
      PROVE  IInv'
  <2> USE <1>2 DEF Handle
  <2>1. KindOf[r] \in Kinds /\ NoRecord \notin Records
    BY WriterAssumption DEF WriterAssumption
  <2>2. TypeOK'
    BY <2>1
  <2>3. HandledIsOwed' /\ HandlersKeepToTheirKind' /\ EveryCopyAccountedFor'
    BY <2>1 DEF HandledIsOwed, HandlersKeepToTheirKind, EveryCopyAccountedFor
  <2>4. AckFollowsCustody'
    <3> SUFFICES ASSUME NEW s \in Records
                 PROVE  (Settled(s) + InHandler(s) <= buffer[s] + table[s] + lost[s])'
      BY DEF AckFollowsCustody
    <3>1. Settled(s) + InHandler(s) <= buffer[s] + table[s] + lost[s]
      BY DEF AckFollowsCustody
    <3>2. Settled(s)' = Settled(s) /\ Settled(s) \in Int
      BY DEF Settled
    <3>3. CASE s = r
      <4>1. InHandler(s) = 0 /\ InHandler(s)' = 1
        BY <2>1, <3>3 DEF InHandler
      <4> QED
        BY <3>1, <3>2, <3>3, <4>1
    <3>4. CASE s # r
      <4>1. InHandler(s)' = InHandler(s) \/ InHandler(s)' = 0
        BY <2>1, <3>4, WriterAssumption DEF InHandler, WriterAssumption
      <4> QED
        BY <3>1, <3>2, <3>4, <4>1 DEF InHandler
    <3> QED
      BY <3>3, <3>4
  <2> QED
    BY <2>2, <2>3, <2>4
<1>3. ASSUME NEW k \in Kinds, handling[k] # NoRecord,
             handling' = [handling EXCEPT ![k] = NoRecord],
             \/ stream' = [stream EXCEPT ![handling[k]] = @ - 1]
             \/ UNCHANGED stream,
             FlushOutcome, faults' \in 0..MaxFaults,
             UNCHANGED <<issued, process, delivered, lost>>
      PROVE  IInv'
  (* every way a handler can end: AckReturns, AckLost and AckRaises        *)
  <2> DEFINE h == handling[k]
  <2>1. h \in Records /\ KindOf[h] = k /\ stream[h] > 0
    BY <1>3 DEF HandlersKeepToTheirKind, HandledIsOwed
  <2>2. /\ stream' \in [Records -> Nat]
        /\ \A r \in Records : r # h => stream'[r] = stream[r]
        /\ stream'[h] >= stream[h] - 1
    BY <1>3, <2>1
  <2>3. TypeOK'
    BY <1>3, <2>2 DEF FlushOutcome
  <2>4. \A j \in Kinds : handling'[j] # NoRecord => j # k /\ handling'[j] = handling[j]
    BY <1>3
  <2>5. HandlersKeepToTheirKind'
    BY <2>4 DEF HandlersKeepToTheirKind
  <2>6. HandledIsOwed'
    BY <2>1, <2>2, <2>4 DEF HandledIsOwed, HandlersKeepToTheirKind
  <2>7. EveryCopyAccountedFor'
    <3> SUFFICES ASSUME NEW r \in Records
                 PROVE  delivered'[r] + doubled'[r] = buffer'[r] + table'[r] + lost'[r]
      BY DEF EveryCopyAccountedFor
    <3>1. delivered[r] + doubled[r] = buffer[r] + table[r] + lost[r]
      BY DEF EveryCopyAccountedFor
    <3>2. buffer'[r] + table'[r] + doubled[r] = buffer[r] + table[r] + doubled'[r]
      BY <1>3 DEF FlushOutcome
    <3>3. /\ buffer'[r] \in Nat /\ table'[r] \in Nat /\ doubled'[r] \in Nat
          /\ delivered'[r] = delivered[r] /\ lost'[r] = lost[r]
      BY <1>3 DEF FlushOutcome
    <3> QED
      BY <3>1, <3>2, <3>3
  <2>8. AckFollowsCustody'
    <3> SUFFICES ASSUME NEW r \in Records
                 PROVE  (Settled(r) + InHandler(r) <= buffer[r] + table[r] + lost[r])'
      BY DEF AckFollowsCustody
    <3>1. Settled(r) + InHandler(r) <= buffer[r] + table[r] + lost[r]
      BY DEF AckFollowsCustody
    <3>2. (buffer[r] + table[r] + lost[r])' >= buffer[r] + table[r] + lost[r]
      <4>1. /\ buffer'[r] + table'[r] + doubled[r] = buffer[r] + table[r] + doubled'[r]
            /\ doubled'[r] >= doubled[r] /\ lost'[r] = lost[r]
            /\ buffer'[r] \in Nat /\ table'[r] \in Nat /\ doubled'[r] \in Nat
        BY <1>3 DEF FlushOutcome
      <4> QED
        BY <4>1
    <3>3. Settled(r)' + InHandler(r)' <= Settled(r) + InHandler(r)
      <4>1. CASE r = h
        <5>1. InHandler(r) = 1 /\ InHandler(r)' = 0
          BY <1>3, <2>1, <4>1, WriterAssumption DEF InHandler, WriterAssumption
        <5>2. Settled(r)' <= Settled(r) + 1
          BY <1>3, <2>1, <2>2, <4>1 DEF Settled
        <5> QED
          BY <5>1, <5>2, <2>3 DEF Settled
      <4>2. CASE r # h
        <5>1. Settled(r)' = Settled(r) /\ Settled(r) \in Int
          BY <1>3, <2>2, <4>2 DEF Settled
        <5>2. InHandler(r)' <= InHandler(r)
          BY <1>3, <2>1, <4>2, WriterAssumption DEF InHandler, WriterAssumption
        <5> QED
          BY <5>1, <5>2 DEF InHandler
      <4> QED
        BY <4>1, <4>2
    <3>4. /\ Settled(r)' \in Int /\ Settled(r) \in Int
          /\ InHandler(r) \in {0, 1} /\ InHandler(r)' \in {0, 1}
          /\ buffer[r] + table[r] + lost[r] \in Int
          /\ (buffer[r] + table[r] + lost[r])' \in Int
      BY <2>3 DEF Settled, InHandler
    <3> QED
      BY <3>1, <3>2, <3>3, <3>4
  <2> QED
    BY <2>3, <2>5, <2>6, <2>7, <2>8
<1>4. ASSUME NEW k \in Kinds, AckReturns(k)
      PROVE  IInv'
  <2>1. FlushOutcome /\ faults' \in 0..MaxFaults
    BY <1>4, FlushIfDueOutcome DEF AckReturns
  <2> QED
    BY <1>4, <2>1, <1>3 DEF AckReturns
<1>5. ASSUME NEW k \in Kinds, AckLost(k) \/ AckRaises(k)
      PROVE  IInv'
  <2>1. faults' \in 0..MaxFaults
    BY <1>5, WriterAssumption DEF AckLost, AckRaises, Fault, WriterAssumption
  <2>2. FlushOutcome
    <3>1. ASSUME NEW raised \in SUBSET NonEmpty({k}), NEW written \in SUBSET {k},
                 {k} \ raised \subseteq written, FlushWith({k}, raised, written)
          PROVE  FlushOutcome
      <4>1. raised \in SUBSET {k}
        BY DEF NonEmpty
      <4> QED BY <3>1, <4>1, FlushWithOutcome
    <3>2. CASE UNCHANGED <<buffer, table, doubled, sinceFlush, unflushed>>
      BY <3>2, StutterOutcome
    <3>3. CASE AckRaises(k)
      BY <3>3 DEF AckRaises, FlushOutcome
    <3> QED
      BY <1>5, <3>1, <3>2, <3>3 DEF AckLost
  <2> QED
    BY <1>5, <2>1, <2>2, <1>3 DEF AckLost, AckRaises
<1>6. CASE Stop
  <2>1. FlushOutcome
    <3>1. PICK raised \in SUBSET NonEmpty(Kinds), written \in SUBSET Kinds :
            /\ Kinds \ raised \subseteq written
            /\ FlushWith(Kinds, raised, written)
      BY <1>6 DEF Stop
    <3>2. raised \in SUBSET Kinds
      BY DEF NonEmpty
    <3> QED
      BY <3>1, <3>2, FlushWithOutcome
  <2>2. TypeOK'
    BY <1>6, <2>1, WriterAssumption DEF Stop, Fault, FlushOutcome, WriterAssumption
  <2>3. HandledIsOwed' /\ HandlersKeepToTheirKind'
    BY <1>6 DEF Stop, HandledIsOwed, HandlersKeepToTheirKind
  <2>4. EveryCopyAccountedFor' /\ AckFollowsCustody'
    <3> SUFFICES ASSUME NEW r \in Records
                 PROVE  /\ delivered'[r] + doubled'[r] = buffer'[r] + table'[r] + lost'[r]
                        /\ (Settled(r) + InHandler(r) <= buffer[r] + table[r] + lost[r])'
      BY DEF EveryCopyAccountedFor, AckFollowsCustody
    <3>1. /\ buffer'[r] + table'[r] + doubled[r] = buffer[r] + table[r] + doubled'[r]
          /\ doubled'[r] >= doubled[r]
          /\ buffer'[r] \in Nat /\ table'[r] \in Nat /\ doubled'[r] \in Nat
      BY <2>1 DEF FlushOutcome
    <3>2. /\ delivered'[r] = delivered[r] /\ lost'[r] = lost[r]
          /\ Settled(r)' = Settled(r) /\ InHandler(r)' = InHandler(r)
      BY <1>6 DEF Stop, Settled, InHandler
    <3>3. /\ delivered[r] + doubled[r] = buffer[r] + table[r] + lost[r]
          /\ Settled(r) + InHandler(r) <= buffer[r] + table[r] + lost[r]
      BY DEF EveryCopyAccountedFor, AckFollowsCustody
    <3>4. Settled(r) \in Int /\ InHandler(r) \in {0, 1}
      BY DEF Settled, InHandler
    <3> QED
      BY <3>1, <3>2, <3>3, <3>4
  <2> QED
    BY <2>2, <2>3, <2>4
<1>7. CASE Exit \/ Crash
  <2>1. EndProcess
    BY <1>7 DEF Exit, Crash
  <2> USE <2>1 DEF EndProcess, Nothing
  <2>2. TypeOK'
    BY <1>7, WriterAssumption DEF Exit, Crash, Fault, WriterAssumption
  <2>3. HandledIsOwed' /\ HandlersKeepToTheirKind' /\ EveryCopyAccountedFor'
    BY DEF HandledIsOwed, HandlersKeepToTheirKind, EveryCopyAccountedFor
  <2>4. AckFollowsCustody'
    <3> SUFFICES ASSUME NEW r \in Records
                 PROVE  (Settled(r) + InHandler(r) <= buffer[r] + table[r] + lost[r])'
      BY DEF AckFollowsCustody
    <3>1. Settled(r) + InHandler(r) <= buffer[r] + table[r] + lost[r]
      BY DEF AckFollowsCustody
    <3>2. /\ Settled(r)' = Settled(r) /\ Settled(r) \in Int
          /\ InHandler(r)' = 0 /\ InHandler(r) \in {0, 1}
      BY WriterAssumption DEF Settled, InHandler, WriterAssumption
    <3>3. (buffer[r] + table[r] + lost[r])' = buffer[r] + table[r] + lost[r]
      OBVIOUS
    <3> QED
      BY <3>1, <3>2, <3>3
  <2> QED
    BY <2>2, <2>3, <2>4
<1>8. CASE Tick \/ Restart \/ UNCHANGED vars
  <2>1. UNCHANGED <<stream, issued, buffer, handling, table, delivered, doubled, lost,
                    unflushed, faults>>
    BY <1>8 DEF Tick, Restart, vars
  <2>2. TypeOK'
    BY <1>8, <2>1, WriterAssumption DEF Tick, Restart, vars, WriterAssumption
  <2>3. HandledIsOwed' /\ HandlersKeepToTheirKind' /\ EveryCopyAccountedFor'
    BY <2>1 DEF HandledIsOwed, HandlersKeepToTheirKind, EveryCopyAccountedFor
  <2>4. AckFollowsCustody'
    BY <2>1 DEF AckFollowsCustody, Settled, InHandler
  <2> QED
    BY <2>2, <2>3, <2>4
<1> QED
  BY <1>1, <1>2, <1>4, <1>5, <1>6, <1>7, <1>8 DEF Next, WriterNext, ServerNext

THEOREM Invariance == Spec => []IInv
<1>1. Init => IInv
  BY InitIInv
<1>2. IInv /\ [Next]_vars => IInv'
  BY NextIInv
<1> QED
  BY <1>1, <1>2, PTL DEF Spec

-----------------------------------------------------------------------------
(* The state keeps its types: no counter of copies is ever negative, in    *)
(* particular JetStream is never told to settle a delivery twice.          *)
THEOREM TypeCorrect == Spec => []TypeOK
<1>1. IInv => TypeOK
  BY DEF IInv
<1> QED
  BY <1>1, Invariance, PTL

(* _handle_* and _flush_* neither drop nor multiply a record, except what  *)
(* a raising insert wrote all the same and what was in memory when the     *)
(* process ended.                                                          *)
THEOREM CopiesAccountedFor == Spec => []EveryCopyAccountedFor
<1>1. IInv => EveryCopyAccountedFor
  BY DEF IInv
<1> QED
  BY <1>1, Invariance, PTL

(* `await msg.ack()` follows the append: what JetStream gives up is in     *)
(* custody of the writer, or was lost with its process.                    *)
THEOREM CustodyBeforeAck == Spec => []AckFollowsCustody
<1>1. IInv => AckFollowsCustody
  BY DEF IInv
<1> QED
  BY <1>1, Invariance, PTL

(* The ack a handler awaits settles a delivery that nothing else settled.  *)
THEOREM HandledOwed == Spec => []HandledIsOwed
<1>1. IInv => HandledIsOwed
  BY DEF IInv
<1> QED
  BY <1>1, Invariance, PTL

(* A copy leaves a buffer only into ClickHouse, or with the process: no    *)
(* handler of any kind clears a batch that another one has yet to write.   *)
LEMMA NextDrains ==
  ASSUME TypeOK, Next, NEW r \in Records, buffer'[r] < buffer[r]
  PROVE  table'[r] >= table[r] + (buffer[r] - buffer'[r]) \/ process' = "down"
<1>1. CASE FlushOutcome
  BY <1>1 DEF FlushOutcome
<1>2. CASE Exit \/ Crash
  BY <1>2 DEF Exit, Crash, EndProcess
<1>3. ASSUME NEW k \in Kinds, AckReturns(k)
      PROVE  FlushOutcome
  BY <1>3, FlushIfDueOutcome DEF AckReturns
<1>4. ASSUME NEW k \in Kinds, AckLost(k)
      PROVE  FlushOutcome
  <2>1. ASSUME NEW raised \in SUBSET NonEmpty({k}), NEW written \in SUBSET {k},
               {k} \ raised \subseteq written, FlushWith({k}, raised, written)
        PROVE  FlushOutcome
    <3>1. raised \in SUBSET {k}
      BY DEF NonEmpty
    <3> QED BY <2>1, <3>1, FlushWithOutcome
  <2>2. CASE UNCHANGED <<buffer, table, doubled, sinceFlush, unflushed>>
    BY <2>2, StutterOutcome
  <2> QED
    BY <1>4, <2>1, <2>2 DEF AckLost
<1>5. CASE Stop
  <2>1. PICK raised \in SUBSET NonEmpty(Kinds), written \in SUBSET Kinds :
          /\ Kinds \ raised \subseteq written
          /\ FlushWith(Kinds, raised, written)
    BY <1>5 DEF Stop
  <2>2. raised \in SUBSET Kinds
    BY DEF NonEmpty
  <2>3. FlushOutcome
    BY <2>1, <2>2, FlushWithOutcome
  <2> QED
    BY <2>3, <1>1
<1>6. CASE UNCHANGED buffer
  BY <1>6 DEF TypeOK
<1>7. ASSUME NEW s \in Records, Handle(s)
      PROVE  FALSE
  BY <1>7 DEF Handle, TypeOK
<1>8. \/ UNCHANGED buffer \/ Exit \/ Crash \/ Stop
      \/ \E k \in Kinds : AckReturns(k) \/ AckLost(k)
      \/ \E s \in Records : Handle(s)
  BY DEF Next, WriterNext, ServerNext, Publish, AckWaitExpires, AckRaises, Tick, Restart,
         serverVars, writerVars
<1> QED
  BY <1>1, <1>2, <1>3, <1>4, <1>5, <1>6, <1>7, <1>8

THEOREM BuffersDrain == Spec => BufferDrainsIntoTable
<1>1. TypeOK /\ [Next]_vars =>
        [\A r \in Records :
           buffer'[r] < buffer[r] =>
             \/ table'[r] >= table[r] + (buffer[r] - buffer'[r])
             \/ process' = "down"]_vars
  BY NextDrains
<1> QED
  BY <1>1, TypeCorrect, PTL DEF Spec, BufferDrainsIntoTable

-----------------------------------------------------------------------------
(* Copies(k): the copies in the buffer of a kind.  A buffer only ever holds*)
(* finitely many, so that its length is a number.                          *)
Copies(k) == CopiesIn(buffer, Buffered(k))
BuffersFinite == \A k \in Kinds : IsFiniteSet(Copies(k))

BatchIInv == BuffersFinite /\ BufferStaysBelowBatch

LEMMA CopiesDef ==
  ASSUME NEW bag \in [Records -> Nat], NEW k \in Kinds
  PROVE  CopiesIn(bag, {r \in Records : KindOf[r] = k /\ bag[r] > 0})
           = {p \in Records \X Nat : KindOf[p[1]] = k /\ p[2] \in 1..bag[p[1]]}
<1> DEFINE B == {r \in Records : KindOf[r] = k /\ bag[r] > 0}
<1>1. \A r \in Records : bag[r] \in Nat
  OBVIOUS
<1>2. ASSUME NEW p, p \in CopiesIn(bag, B)
      PROVE  p \in Records \X Nat /\ KindOf[p[1]] = k /\ p[2] \in 1..bag[p[1]]
  <2>1. PICK r \in B : p \in {r} \X (1..bag[r])
    BY <1>2 DEF CopiesIn
  <2>2. r \in Records /\ KindOf[r] = k /\ p[1] = r /\ p[2] \in 1..bag[r]
        /\ p = <<p[1], p[2]>>
    BY <2>1
  <2>3. p[2] \in Nat
    BY <2>2, <1>1
  <2> QED BY <2>2, <2>3
<1>3. ASSUME NEW p \in Records \X Nat, KindOf[p[1]] = k, p[2] \in 1..bag[p[1]]
      PROVE  p \in CopiesIn(bag, B)
  <2>1. p[1] \in B
    BY <1>1, <1>3
  <2>2. p \in {p[1]} \X (1..bag[p[1]])
    BY <1>3
  <2> QED BY <2>1, <2>2 DEF CopiesIn
<1> QED BY <1>2, <1>3

(* The copies of a kind, now and after the step.                           *)
LEMMA CopiesNow ==
  ASSUME TypeOK, TypeOK', NEW k \in Kinds
  PROVE  /\ Copies(k) = {p \in Records \X Nat : KindOf[p[1]] = k /\ p[2] \in 1..buffer[p[1]]}
         /\ Copies(k)' = {p \in Records \X Nat : KindOf[p[1]] = k /\ p[2] \in 1..buffer'[p[1]]}
<1>1. buffer \in [Records -> Nat] /\ buffer' \in [Records -> Nat]
  BY DEF TypeOK
<1>2. /\ Copies(k) = CopiesIn(buffer, {r \in Records : KindOf[r] = k /\ buffer[r] > 0})
      /\ Copies(k)' = CopiesIn(buffer', {r \in Records : KindOf[r] = k /\ buffer'[r] > 0})
  BY DEF Copies, Buffered, CopiesIn
<1> QED BY <1>1, <1>2, CopiesDef

(* The buffer of a kind is what its own records make it.                   *)
LEMMA SameCopies ==
  ASSUME TypeOK, TypeOK', NEW k \in Kinds,
         \A r \in Records : KindOf[r] = k => buffer'[r] = buffer[r]
  PROVE  Copies(k)' = Copies(k)
BY CopiesNow

LEMMA NoCopies ==
  ASSUME TypeOK, TypeOK', NEW k \in Kinds, \A r \in Records : KindOf[r] = k => buffer'[r] = 0
  PROVE  Copies(k)' = {}
<1>1. 1..0 = {}
  OBVIOUS
<1> QED BY <1>1, CopiesNow

(* A flush empties the buffers whose insert did not raise, and no other.   *)
LEMMA FlushEmpties ==
  ASSUME TypeOK, TypeOK', NEW K \in SUBSET Kinds, NEW raised \in SUBSET K, NEW written,
         FlushWith(K, raised, written), NEW k \in Kinds
  PROVE  /\ k \in K \ raised => Copies(k)' = {}
         /\ k \notin K \ raised => Copies(k)' = Copies(k)
         /\ k \in unflushed' <=> k \in raised \/ k \in unflushed \ K
<1>1. \A r \in Records :
        /\ KindOf[r] \in K \ raised => buffer'[r] = 0
        /\ KindOf[r] \notin K \ raised => buffer'[r] = buffer[r]
  BY DEF FlushWith, TypeOK
<1>2. unflushed' = (unflushed \ K) \union raised
  BY DEF FlushWith
<1>3. k \in K \ raised => Copies(k)' = {}
  BY <1>1, NoCopies
<1>4. k \notin K \ raised => Copies(k)' = Copies(k)
  BY <1>1, SameCopies
<1> QED BY <1>2, <1>3, <1>4

(* What a kind's buffer may look like after a step that leaves its handler *)
(* at rest: as before, or empty.                                           *)
LEMMA SmallStays ==
  ASSUME BatchIInv, NEW k \in Kinds,
         \/ Copies(k)' = {}
         \/ /\ Copies(k)' = Copies(k)
            /\ \/ handling'[k] # NoRecord \/ k \in unflushed'
               \/ handling[k] = NoRecord /\ k \notin unflushed
               \/ BufferLen(k) < BatchSize
  PROVE  /\ IsFiniteSet(Copies(k)')
         /\ (handling'[k] = NoRecord /\ k \notin unflushed') => BufferLen(k)' < BatchSize
<1>1. BatchSize \in Nat \ {0}
  BY WriterAssumption DEF WriterAssumption
<1>2. BufferLen(k) = Cardinality(Copies(k)) /\ BufferLen(k)' = Cardinality(Copies(k)')
  BY DEF BufferLen, Copies
<1>3. CASE Copies(k)' = {}
  BY <1>1, <1>2, <1>3, FS_EmptySet
<1>4. CASE Copies(k)' = Copies(k)
  BY <1>2, <1>4, <1>1, FS_EmptySet DEF BatchIInv, BuffersFinite, BufferStaysBelowBatch
<1> QED BY <1>3, <1>4

LEMMA InitBatch == Init => BatchIInv
<1> SUFFICES ASSUME Init PROVE BatchIInv
  OBVIOUS
<1>1. \A k \in Kinds : Copies(k) = {}
  BY DEF Init, WriterInit, Nothing, Copies, CopiesIn, Buffered
<1>2. BatchSize \in Nat \ {0}
  BY WriterAssumption DEF WriterAssumption
<1>3. \A k \in Kinds : BufferLen(k) = Cardinality(Copies(k))
  BY DEF BufferLen, Copies
<1> QED BY <1>1, <1>2, <1>3, FS_EmptySet DEF BatchIInv, BuffersFinite, BufferStaysBelowBatch

(* The handler of another kind touches neither buffer nor flag of this one *)
(* (one step of the event loop, whichever handler runs).                   *)
LEMMA NextBatch ==
  ASSUME IInv, IInv', BatchIInv, [Next]_vars
  PROVE  BatchIInv'
<1>0. TypeOK /\ TypeOK'
  BY DEF IInv
<1> SUFFICES ASSUME NEW k \in Kinds
             PROVE  /\ IsFiniteSet(Copies(k)')
                    /\ (handling'[k] = NoRecord /\ k \notin unflushed') => BufferLen(k)' < BatchSize
  BY DEF BatchIInv, BuffersFinite, BufferStaysBelowBatch
<1>1. ASSUME UNCHANGED <<buffer, handling, unflushed>>
      PROVE  /\ IsFiniteSet(Copies(k)')
             /\ (handling'[k] = NoRecord /\ k \notin unflushed') => BufferLen(k)' < BatchSize
  <2>1. Copies(k)' = Copies(k)
    BY <1>0, <1>1, SameCopies
  <2> QED BY <2>1, <1>1, SmallStays
<1>2. ASSUME NEW r \in Records, Handle(r)
      PROVE  /\ IsFiniteSet(Copies(k)')
             /\ (handling'[k] = NoRecord /\ k \notin unflushed') => BufferLen(k)' < BatchSize
  <2>1. /\ buffer' = [buffer EXCEPT ![r] = @ + 1]
        /\ handling' = [handling EXCEPT ![KindOf[r]] = r]
        /\ UNCHANGED unflushed /\ KindOf[r] \in Kinds /\ r # NoRecord
    BY <1>2, WriterAssumption DEF Handle, WriterAssumption
  <2>2. CASE k # KindOf[r]
    <3>1. handling'[k] = handling[k]
      BY <2>1, <2>2, <1>0 DEF TypeOK
    <3>2. Copies(k)' = Copies(k)
      BY <2>1, <2>2, <1>0, SameCopies DEF TypeOK
    <3> QED BY <2>1, <3>1, <3>2, SmallStays
  <2>3. CASE k = KindOf[r]
    <3>1. handling'[k] # NoRecord
      BY <2>1, <2>3, <1>0 DEF TypeOK
    <3>2. Copies(k)' = Copies(k) \union {<<r, buffer[r] + 1>>}
      <4>1. Copies(k)' = {p \in Records \X Nat : KindOf[p[1]] = k /\ p[2] \in 1..buffer'[p[1]]}
        BY <1>0, CopiesNow
      <4>2. \A q \in Records : buffer[q] \in Nat /\ buffer'[q] = IF q = r THEN buffer[r] + 1 ELSE buffer[q]
        BY <2>1, <1>0 DEF TypeOK
      <4>3. 1..(buffer[r] + 1) = (1..buffer[r]) \union {buffer[r] + 1}
        BY <4>2
      <4> QED BY <4>1, <4>2, <4>3, <2>3, <1>0, CopiesNow
    <3>3. IsFiniteSet(Copies(k))
      BY DEF BatchIInv, BuffersFinite
    <3> QED BY <3>1, <3>2, <3>3, FS_AddElement
  <2> QED BY <2>2, <2>3
<1>3. ASSUME NEW j \in Kinds, AckReturns(j) \/ AckLost(j)
      PROVE  /\ IsFiniteSet(Copies(k)')
             /\ (handling'[k] = NoRecord /\ k \notin unflushed') => BufferLen(k)' < BatchSize
  <2>1. handling' = [handling EXCEPT ![j] = NoRecord]
    BY <1>3 DEF AckReturns, AckLost
  <2>2. \A i \in Kinds \ {j} : handling'[i] = handling[i]
    BY <2>1, <1>0 DEF TypeOK
  <2>3. ASSUME NEW raised \in SUBSET {j}, NEW written, FlushWith({j}, raised, written)
        PROVE  /\ IsFiniteSet(Copies(k)')
               /\ (handling'[k] = NoRecord /\ k \notin unflushed') => BufferLen(k)' < BatchSize
    <3>1. /\ k \in {j} \ raised => Copies(k)' = {}
          /\ k \notin {j} \ raised => Copies(k)' = Copies(k)
          /\ k \in unflushed' <=> k \in raised \/ k \in unflushed \ {j}
      BY <2>3, <1>0, FlushEmpties
    <3> QED BY <3>1, <2>2, SmallStays
  <2>4. ASSUME ~ShouldFlush(j), UNCHANGED <<buffer, unflushed>>
        PROVE  /\ IsFiniteSet(Copies(k)')
               /\ (handling'[k] = NoRecord /\ k \notin unflushed') => BufferLen(k)' < BatchSize
    <3>1. Copies(k)' = Copies(k)
      BY <2>4, <1>0, SameCopies
    <3>2. BufferLen(j) < BatchSize
      <4>1. Cardinality(Copies(j)) \in Nat /\ BufferLen(j) = Cardinality(Copies(j))
        BY FS_CardinalityType DEF BatchIInv, BuffersFinite, BufferLen, Copies
      <4>2. ~(BufferLen(j) >= BatchSize) /\ BatchSize \in Nat
        BY <2>4, WriterAssumption DEF ShouldFlush, WriterAssumption
      <4> QED BY <4>1, <4>2
    <3> QED BY <3>1, <3>2, <2>2, <2>4, SmallStays
  <2>5. \/ ~ShouldFlush(j) /\ UNCHANGED <<buffer, unflushed>>
        \/ \E raised \in SUBSET {j}, written \in SUBSET {j} : FlushWith({j}, raised, written)
    <3>1. NonEmpty({j}) \subseteq {j}
      BY DEF NonEmpty
    <3> QED BY <1>3, <3>1 DEF AckReturns, AckLost, FlushIfDue, Flush
  <2> QED BY <2>3, <2>4, <2>5
<1>4. ASSUME NEW j \in Kinds, AckRaises(j)
      PROVE  /\ IsFiniteSet(Copies(k)')
             /\ (handling'[k] = NoRecord /\ k \notin unflushed') => BufferLen(k)' < BatchSize
  <2>1. /\ handling' = [handling EXCEPT ![j] = NoRecord]
        /\ unflushed' = unflushed \union {j} /\ UNCHANGED buffer
    BY <1>4 DEF AckRaises
  <2>2. Copies(k)' = Copies(k)
    BY <2>1, <1>0, SameCopies
  <2>3. k # j => handling'[k] = handling[k]
    BY <2>1, <1>0 DEF TypeOK
  <2> QED BY <2>1, <2>2, <2>3, SmallStays
<1>5. CASE Stop
  <2>1. PICK raised \in SUBSET NonEmpty(Kinds), written \in SUBSET Kinds :
          FlushWith(Kinds, raised, written)
    BY <1>5 DEF Stop
  <2>2. raised \in SUBSET Kinds /\ UNCHANGED handling
    BY <1>5 DEF NonEmpty, Stop
  <2>3. /\ k \in Kinds \ raised => Copies(k)' = {}
        /\ k \notin Kinds \ raised => Copies(k)' = Copies(k)
        /\ k \in unflushed' <=> k \in raised \/ k \in unflushed \ Kinds
    BY <2>1, <2>2, <1>0, FlushEmpties
  <2> QED BY <2>3, SmallStays
<1>6. CASE Exit \/ Crash
  <2>1. \A r \in Records : buffer'[r] = 0
    BY <1>6 DEF Exit, Crash, EndProcess, Nothing
  <2>2. Copies(k)' = {}
    BY <2>1, <1>0, NoCopies
  <2> QED BY <2>2, SmallStays
<1>7. CASE Tick \/ Restart \/ UNCHANGED vars \/ \E r \in Records : Publish(r) \/ AckWaitExpires(r)
  BY <1>7, <1>1 DEF Tick, Restart, vars, writerVars, Publish, AckWaitExpires
<1> QED
  BY <1>2, <1>3, <1>4, <1>5, <1>6, <1>7 DEF Next, WriterNext, ServerNext

(* A buffer reaches BATCH_SIZE (writer.py 62-84) only while a handler runs *)
(* or after a flush that failed or was skipped, for any batch size: the    *)
(* buffers do not grow behind the back of handlers that interleave.        *)
THEOREM BatchesStaySmall == Spec => []BufferStaysBelowBatch
<1>1. Init => BatchIInv
  BY InitBatch
<1>2. IInv /\ IInv' /\ BatchIInv /\ [Next]_vars => BatchIInv'
  BY NextBatch
<1>3. BatchIInv => BufferStaysBelowBatch
  BY DEF BatchIInv
<1> QED
  BY <1>1, <1>2, <1>3, Invariance, PTL DEF Spec

(* The three together, as the writer's run checks them: no copy is dropped *)
(* or multiplied by a flush, none is given up that was not taken, and none *)
(* waits in a full buffer.                                                 *)
THEOREM CopiesStayKept == Spec => []WriterKeepsCopies
<1>1. EveryCopyAccountedFor /\ AckFollowsCustody /\ BufferStaysBelowBatch => WriterKeepsCopies
  BY DEF WriterKeepsCopies
<1> QED
  BY <1>1, CopiesAccountedFor, CustodyBeforeAck, BatchesStaySmall, PTL

=============================================================================
