-------------------------- MODULE ApiServicesProofs -------------------------
(***************************************************************************)
(* What the services of the API process guarantee, one by one, for any     *)
(* number of tasks, clients, requests and lines and for any size and       *)
(* limit, and that each of them behaves in ApiServices as it does alone,   *)
(* so that all of it holds there.                                          *)
(***************************************************************************)
EXTENDS ApiServices, FiniteSetTheorems, SequenceTheorems, TLAPS

-----------------------------------------------------------------------------
(***************************************************************************)
(* What ConnectionPool guarantees for any number of tasks, clients and any *)
(* pool size.  Permits are conserved because release() either gives the    *)
(* permit back or hands it to a task that really waits (the waiting line   *)
(* is exactly the waiting tasks, each once), and a client has one owner    *)
(* because only clients never seen before join, and a task puts back what  *)
(* it alone holds.                                                         *)
(***************************************************************************)

(* The waiting line is exactly the waiting tasks, each once: no task is    *)
(* left in it by a cancellation, and none sleeps outside it.               *)
WaitersAreWaiting ==
  /\ \A t \in Tasks : pc[t] = "waiting" <=> \E i \in 1..Len(waiters) : waiters[i] = t
  /\ \A i, j \in 1..Len(waiters) : waiters[i] = waiters[j] => i = j

(* Nobody sleeps while there is a permit to be had.                        *)
NoIdlePermit == waiters # <<>> => permits = 0

(* The clients the pool knows are in its queue or with a task: a failed    *)
(* replacement loses none, so close() reaches every client it should.      *)
KnownClientsAreOwned ==
  \A c \in all : idle[c] = 1 \/ \E t \in Tasks : holds[t] = c

(* Where a client can be, without counting: OneOwner follows.              *)
Ownership ==
  /\ \A c \in Clients : idle[c] \in {0, 1}
  /\ \A c \in Clients, t \in Tasks : holds[t] = c => idle[c] = 0
  /\ \A t, u \in Tasks : (holds[t] = holds[u] /\ holds[t] # NoClient) => t = u
  /\ \A t \in Tasks : pc[t] = "using" <=> holds[t] # NoClient

(* A client in the queue, with a task or in _all_clients was created.      *)
OnlyCreated ==
  /\ all \subseteq created
  /\ \A c \in Clients : idle[c] > 0 => c \in created
  /\ \A t \in Tasks : holds[t] # NoClient => holds[t] \in created

ClosedIsEmpty == closed => all = {} /\ \A c \in Clients : idle[c] = 0

(* The waiting line: what the semaphore keeps.                             *)
LineOK ==
  /\ permits \in Nat
  /\ waiters \in Seq(Tasks)
  /\ pc \in [Tasks -> {"out", "waiting", "granted", "getting", "using"}]
  /\ PermitsConserved
  /\ WaitersAreWaiting
  /\ NoIdlePermit

(* The clients: what the queue, the tasks and close() keep.                *)
ClientsOK ==
  /\ idle \in [Clients -> Nat]
  /\ all \in SUBSET Clients
  /\ closed \in BOOLEAN
  /\ holds \in [Tasks -> Clients \union {NoClient}]
  /\ alive \in SUBSET Clients
  /\ created \in SUBSET Clients
  /\ setup \in {"new", "partial", "ready"}
  /\ Ownership
  /\ OnlyCreated
  /\ ClosedIsEmpty
  /\ KnownClientsAreOwned

(* The inductive invariant.                                                *)
IInv == LineOK /\ ClientsOK

-----------------------------------------------------------------------------
(* Taking out of the line whoever is at place i leaves everybody else in   *)
(* it, once.                                                               *)
LEMMA RemoveAtLine ==
  ASSUME NEW s \in Seq(Tasks), NEW i \in 1..Len(s),
         \A j, k \in 1..Len(s) : s[j] = s[k] => j = k
  PROVE  /\ RemoveAt(s, i) \in Seq(Tasks)
         /\ \A j, k \in 1..Len(RemoveAt(s, i)) :
              RemoveAt(s, i)[j] = RemoveAt(s, i)[k] => j = k
         /\ \A t \in Tasks :
              (\E j \in 1..Len(RemoveAt(s, i)) : RemoveAt(s, i)[j] = t)
                <=> (t # s[i] /\ \E j \in 1..Len(s) : s[j] = t)
<1> DEFINE a == SubSeq(s, 1, i-1)
           b == SubSeq(s, i+1, Len(s))
           r == RemoveAt(s, i)
<1>1. Len(s) \in Nat /\ i \in Int
  OBVIOUS
<1>2. /\ a \in Seq(Tasks) /\ Len(a) = i-1
      /\ \A j \in 1..(i-1) : a[j] = s[j]
  <2>1. \A j \in 1..(i-1) : s[j] \in Tasks
    BY <1>1
  <2> QED
    BY <1>1, <2>1, SubSeqProperties
<1>3. /\ b \in Seq(Tasks) /\ Len(b) = Len(s)-i
      /\ \A j \in 1..(Len(s)-i) : b[j] = s[i+j]
  <2>1. \A j \in (i+1)..Len(s) : s[j] \in Tasks
    BY <1>1
  <2>2. /\ b \in Seq(Tasks)
        /\ Len(b) = IF i+1 <= Len(s) THEN Len(s)-(i+1)+1 ELSE 0
        /\ \A j \in 1..(Len(s)-(i+1)+1) : b[j] = s[(i+1)+j-1]
    BY <1>1, <2>1, SubSeqProperties
  <2> QED
    BY <1>1, <2>2
<1>4. r = a \o b
  BY DEF RemoveAt
<1>5. /\ r \in Seq(Tasks) /\ Len(r) = Len(s)-1
      /\ \A j \in 1..(Len(s)-1) : r[j] = IF j < i THEN s[j] ELSE s[j+1]
  <2> HIDE DEF a, b, r
  <2>1. r \in Seq(Tasks) /\ Len(r) = Len(s)-1
    <3>5. a \in Seq(Tasks) /\ b \in Seq(Tasks)
      BY <1>2, <1>3, Zenon
    <3>6. a \o b \in Seq(Tasks) /\ Len(a \o b) = Len(a) + Len(b)
      BY <3>5, ConcatProperties
    <3>1. r \in Seq(Tasks) /\ Len(r) = Len(a) + Len(b)
      BY <1>4, <3>6, Zenon
    <3>2. Len(a) = i-1 /\ Len(b) = Len(s)-i
      BY <1>2, <1>3, Zenon
    <3> DEFINE n == Len(s)
    <3>3. n \in Int /\ Len(a) = i-1 /\ Len(b) = n-i /\ i \in Int
      BY <1>1, <3>2
    <3> HIDE DEF n
    <3>4. Len(a) + Len(b) = n-1
      BY <3>3
    <3> QED
      BY <3>1, <3>4 DEF n
  <2>2. ASSUME NEW j \in 1..(Len(s)-1)
        PROVE  r[j] = IF j < i THEN s[j] ELSE s[j+1]
    <3>1. CASE j < i
      BY <1>1, <1>2, <1>3, <1>4, <3>1
    <3>2. CASE ~(j < i)
      <4>3. /\ a \in Seq(Tasks) /\ b \in Seq(Tasks) /\ Len(a) = i-1 /\ Len(b) = Len(s)-i
        BY <1>2, <1>3, Zenon
      <4>4. \A k \in 1..(Len(a)+Len(b)) :
              (a \o b)[k] = IF k <= Len(a) THEN a[k] ELSE b[k-Len(a)]
        BY <4>3, ConcatProperties
      <4>5. j \in 1..(Len(a)+Len(b)) /\ ~(j <= Len(a))
        BY <1>1, <3>2, <4>3
      <4>1. r[j] = b[j-(i-1)]
        BY <1>4, <4>3, <4>4, <4>5
      <4>2. j-(i-1) \in 1..(Len(s)-i) /\ i+(j-(i-1)) = j+1
        BY <1>1, <3>2
      <4> QED
        BY <1>3, <3>2, <4>1, <4>2
    <3> QED
      BY <3>1, <3>2
  <2> QED
    BY <2>1, <2>2
<1> HIDE DEF r, a, b
<1>6. \A j, k \in 1..Len(r) : r[j] = r[k] => j = k
  <2> SUFFICES ASSUME NEW j \in 1..Len(r), NEW k \in 1..Len(r), r[j] = r[k]
               PROVE  j = k
    OBVIOUS
  <2> DEFINE up(n) == IF n < i THEN n ELSE n+1
  <2>1. up(j) \in 1..Len(s) /\ up(k) \in 1..Len(s) /\ s[up(j)] = s[up(k)]
    BY <1>1, <1>5
  <2>2. up(j) = up(k)
    BY <2>1
  <2> QED
    BY <1>1, <1>5, <2>2
<1>7. ASSUME NEW t \in Tasks
      PROVE  (\E j \in 1..Len(r) : r[j] = t)
               <=> (t # s[i] /\ \E j \in 1..Len(s) : s[j] = t)
  <2>1. ASSUME NEW j \in 1..Len(r), r[j] = t
        PROVE  t # s[i] /\ \E k \in 1..Len(s) : s[k] = t
    <3> DEFINE k == IF j < i THEN j ELSE j+1
    <3>1. k \in 1..Len(s) /\ s[k] = t /\ k # i
      BY <1>1, <1>5, <2>1
    <3> QED
      BY <3>1
  <2>2. ASSUME NEW k \in 1..Len(s), s[k] = t, t # s[i]
        PROVE  \E j \in 1..Len(r) : r[j] = t
    <3> DEFINE j == IF k < i THEN k ELSE k-1
    <3>1. j \in 1..Len(r) /\ r[j] = t
      BY <1>1, <1>5, <2>2
    <3> QED
      BY <3>1
  <2> QED
    BY <2>1, <2>2
<1> QED
  BY <1>5, <1>6, <1>7 DEF r

LEMMA TailLine ==
  ASSUME NEW s \in Seq(Tasks), s # <<>>,
         \A j, k \in 1..Len(s) : s[j] = s[k] => j = k
  PROVE  /\ Head(s) \in Tasks /\ s[1] = Head(s) /\ 1 \in 1..Len(s)
         /\ Tail(s) \in Seq(Tasks)
         /\ \A j, k \in 1..Len(Tail(s)) : Tail(s)[j] = Tail(s)[k] => j = k
         /\ \A t \in Tasks :
              (\E j \in 1..Len(Tail(s)) : Tail(s)[j] = t)
                <=> (t # Head(s) /\ \E j \in 1..Len(s) : s[j] = t)
<1> DEFINE r == Tail(s)
<1>1. /\ Head(s) \in Tasks /\ s[1] = Head(s) /\ Len(s) \in Nat /\ Len(s) >= 1
      /\ r \in Seq(Tasks) /\ Len(r) = Len(s)-1
      /\ \A j \in 1..Len(r) : r[j] = s[j+1]
  BY HeadTailProperties
<1> HIDE DEF r
<1>2. \A j, k \in 1..Len(r) : r[j] = r[k] => j = k
  <2> SUFFICES ASSUME NEW j \in 1..Len(r), NEW k \in 1..Len(r), r[j] = r[k]
               PROVE  j = k
    OBVIOUS
  <2>1. j+1 \in 1..Len(s) /\ k+1 \in 1..Len(s) /\ s[j+1] = s[k+1]
    BY <1>1
  <2>2. j+1 = k+1
    BY <2>1
  <2> QED
    BY <1>1, <2>2
<1>3. ASSUME NEW t \in Tasks
      PROVE  (\E j \in 1..Len(r) : r[j] = t)
               <=> (t # Head(s) /\ \E j \in 1..Len(s) : s[j] = t)
  <2>1. ASSUME NEW j \in 1..Len(r), r[j] = t
        PROVE  t # Head(s) /\ \E k \in 1..Len(s) : s[k] = t
    <3>1. j+1 \in 1..Len(s) /\ s[j+1] = t /\ j+1 # 1 /\ 1 \in 1..Len(s)
      BY <1>1, <2>1
    <3> QED
      BY <1>1, <3>1
  <2>2. ASSUME NEW k \in 1..Len(s), s[k] = t, t # Head(s)
        PROVE  \E j \in 1..Len(r) : r[j] = t
    <3>1. k # 1
      BY <1>1, <2>2
    <3>2. k-1 \in 1..Len(r) /\ r[k-1] = t
      BY <1>1, <2>2, <3>1
    <3> QED
      BY <3>2
  <2> QED
    BY <2>1, <2>2
<1> QED
  BY <1>1, <1>2, <1>3 DEF r

LEMMA InsideFinite == IsFiniteSet(Inside) /\ Cardinality(Inside) \in Nat
<1>1. IsFiniteSet(Tasks) /\ Inside \in SUBSET Tasks
  BY PoolAssumption DEF PoolAssumption, Inside
<1> QED
  BY <1>1, FS_Subset, FS_CardinalityType

-----------------------------------------------------------------------------
(* release(): the permit is given back or handed to one waiting task, and  *)
(* nobody else moves.                                                      *)
LEMMA LeaveLine ==
  ASSUME LineOK, NEW t \in Inside, Leave(t), UNCHANGED setup
  PROVE  /\ LineOK'
         /\ pc'[t] = "out"
         /\ \A u \in Tasks : u # t => (pc'[u] = "using" <=> pc[u] = "using")
         /\ Using' = Using \ {t}
<1> USE DEF LineOK
<1>1. t \in Tasks /\ pc[t] \notin {"out", "waiting"}
  BY DEF Inside
<1>2. /\ IsFiniteSet(Inside) /\ Cardinality(Inside) \in Nat
      /\ IsFiniteSet(Inside \ {t})
      /\ Cardinality(Inside \ {t}) = Cardinality(Inside) - 1
  BY InsideFinite, FS_RemoveElement
<1>3. CASE waiters = <<>>
  <2>1. /\ permits' = permits + 1
        /\ pc' = [pc EXCEPT ![t] = "out"]
        /\ waiters' = waiters
    BY <1>3 DEF Leave
  <2>2. pc' \in [Tasks -> {"out", "waiting", "granted", "getting", "using"}]
    BY <2>1
  <2>3. Inside' = Inside \ {t}
    BY <1>1, <2>1 DEF Inside
  <2>4. PermitsConserved'
    BY <1>2, <2>1, <2>3, PoolAssumption DEF PermitsConserved, PoolAssumption
  <2>5. WaitersAreWaiting'
    BY <1>1, <2>1 DEF WaitersAreWaiting
  <2>6. NoIdlePermit'
    BY <1>3, <2>1 DEF NoIdlePermit
  <2> QED
    BY <1>1, <2>1, <2>2, <2>4, <2>5, <2>6 DEF Using
<1>4. CASE waiters # <<>>
  <2> DEFINE h == Head(waiters)
  <2>1. /\ permits' = permits
        /\ pc' = [pc EXCEPT ![t] = "out", ![h] = "granted"]
        /\ waiters' = Tail(waiters)
    BY <1>4 DEF Leave
  <2>2. \A j, k \in 1..Len(waiters) : waiters[j] = waiters[k] => j = k
    BY DEF WaitersAreWaiting
  <2>3. /\ h \in Tasks /\ waiters[1] = h /\ 1 \in 1..Len(waiters)
        /\ Tail(waiters) \in Seq(Tasks)
        /\ \A j, k \in 1..Len(Tail(waiters)) : Tail(waiters)[j] = Tail(waiters)[k] => j = k
        /\ \A u \in Tasks :
             (\E j \in 1..Len(Tail(waiters)) : Tail(waiters)[j] = u)
               <=> (u # h /\ \E j \in 1..Len(waiters) : waiters[j] = u)
    BY <1>4, <2>2, TailLine
  <2>4. pc[h] = "waiting" /\ h # t
    BY <1>1, <2>3 DEF WaitersAreWaiting
  <2> HIDE DEF h
  <2>5. \A u \in Tasks : pc'[u] = IF u = t THEN "out" ELSE IF u = h THEN "granted" ELSE pc[u]
    BY <1>1, <2>1, <2>3, <2>4
  <2>6. pc' \in [Tasks -> {"out", "waiting", "granted", "getting", "using"}]
    BY <2>1
  <2>7. Inside' = (Inside \ {t}) \union {h} /\ h \notin Inside
    BY <1>1, <2>3, <2>4, <2>5 DEF Inside
  <2>8. Cardinality(Inside') = Cardinality(Inside)
    <3>1. /\ h \notin Inside \ {t}
          /\ IsFiniteSet(Inside \ {t})
          /\ Cardinality(Inside \ {t}) = Cardinality(Inside) - 1
          /\ Cardinality(Inside) \in Nat
      BY <1>2, <2>7
    <3>2. Cardinality((Inside \ {t}) \union {h}) = Cardinality(Inside \ {t}) + 1
      BY <3>1, FS_AddElement
    <3> QED
      BY <2>7, <3>1, <3>2
  <2>9. PermitsConserved'
    BY <2>1, <2>8 DEF PermitsConserved
  <2>10. WaitersAreWaiting'
    <3>1. \A u \in Tasks : pc'[u] = "waiting" <=> (u # h /\ pc[u] = "waiting")
      BY <1>1, <2>5
    <3>2. \A u \in Tasks : pc[u] = "waiting" <=> \E j \in 1..Len(waiters) : waiters[j] = u
      BY DEF WaitersAreWaiting
    <3>3. \A u \in Tasks :
            pc'[u] = "waiting" <=> \E j \in 1..Len(waiters') : waiters'[j] = u
      BY <2>1, <2>3, <3>1, <3>2
    <3>4. \A j, k \in 1..Len(waiters') : waiters'[j] = waiters'[k] => j = k
      BY <2>1, <2>3
    <3> QED
      BY <3>3, <3>4 DEF WaitersAreWaiting
  <2>11. NoIdlePermit'
    BY <1>4, <2>1 DEF NoIdlePermit
  <2>12. Using' = Using \ {t}
    BY <2>4, <2>5 DEF Using
  <2> QED
    BY <1>1, <2>1, <2>3, <2>4, <2>5, <2>6, <2>9, <2>10, <2>11, <2>12
<1> QED
  BY <1>3, <1>4

(* A task that moves among granted, getting and using keeps its permit.    *)
LEMMA StayLine ==
  ASSUME LineOK, NEW t \in Inside, NEW p \in {"getting", "using"},
         pc' = [pc EXCEPT ![t] = p], UNCHANGED <<permits, waiters, setup>>
  PROVE  LineOK'
<1> USE DEF LineOK
<1>1. t \in Tasks /\ pc[t] \notin {"out", "waiting"}
  BY DEF Inside
<1>2. Inside' = Inside
  BY <1>1 DEF Inside
<1>3. PermitsConserved' /\ NoIdlePermit'
  BY <1>2 DEF PermitsConserved, NoIdlePermit
<1>4. WaitersAreWaiting'
  BY <1>1 DEF WaitersAreWaiting
<1> QED
  BY <1>3, <1>4

-----------------------------------------------------------------------------
LEMMA InitIInv == Init => IInv
<1> SUFFICES ASSUME Init
             PROVE  IInv
  OBVIOUS
<1> USE DEF Init
<1>1. waiters \in Seq(Tasks) /\ Len(waiters) = 0
  BY EmptySeq
<1>2. PermitsConserved /\ NoIdlePermit /\ WaitersAreWaiting
  BY <1>1 DEF PermitsConserved, NoIdlePermit, WaitersAreWaiting
<1>3. Ownership /\ OnlyCreated /\ ClosedIsEmpty /\ KnownClientsAreOwned
  BY DEF Ownership, OnlyCreated, ClosedIsEmpty, KnownClientsAreOwned
<1>4. LineOK
  BY <1>1, <1>2 DEF LineOK
<1>5. ClientsOK
  BY <1>3 DEF ClientsOK
<1> QED
  BY <1>4, <1>5 DEF IInv

LEMMA NextIInv == IInv /\ [Next]_vars => IInv'
<1> SUFFICES ASSUME LineOK, ClientsOK, [Next]_vars
             PROVE  LineOK' /\ ClientsOK'
  BY DEF IInv
<1>0. NoClient \notin Clients /\ PoolSize \in Nat \ {0}
  BY PoolAssumption DEF PoolAssumption
<1>1. CASE Initialize
  <2>1. PICK new \in SUBSET Fresh :
          /\ setup' \in {"partial", "ready"}
          /\ created' = created \union new
          /\ alive' = alive \union new
          /\ all' = all \union new
          /\ idle' = [c \in Clients |-> idle[c] + IF c \in new THEN 1 ELSE 0]
    BY <1>1 DEF Initialize
  <2>2. /\ \A t \in Tasks : pc[t] = "out"
        /\ ~closed
        /\ permits' = PoolSize
        /\ UNCHANGED <<waiters, closed, pc, holds>>
    BY <1>1 DEF Initialize
  <2>3. Inside' = {} /\ Cardinality(Inside') = 0
    BY <2>2, FS_EmptySet DEF Inside
  <2>4. waiters = <<>>
    <3>1. SUFFICES ASSUME waiters # <<>>
                   PROVE  FALSE
      OBVIOUS
    <3>2. 1 \in 1..Len(waiters) /\ waiters[1] \in Tasks
      BY <3>1 DEF LineOK
    <3> QED
      BY <2>2, <3>2 DEF LineOK, WaitersAreWaiting
  <2>5. LineOK'
    BY <1>0, <2>2, <2>3, <2>4 DEF LineOK, PermitsConserved, WaitersAreWaiting, NoIdlePermit
  <2>6. ClientsOK'
    <3> USE <2>1, <2>2 DEF ClientsOK
    <3>1. new \subseteq Clients /\ new \intersect created = {}
      BY DEF Fresh
    <3>2. \A c \in Clients : c \in new => idle[c] = 0 /\ \A t \in Tasks : holds[t] # c
      BY <1>0, <3>1 DEF OnlyCreated, Ownership
    <3>3. Ownership'
      BY <1>0, <3>2 DEF Ownership
    <3>4. OnlyCreated' /\ ClosedIsEmpty'
      BY <3>1 DEF OnlyCreated, ClosedIsEmpty
    <3>5. KnownClientsAreOwned'
      BY <3>1, <3>2 DEF KnownClientsAreOwned, Ownership
    <3> QED
      BY <3>1, <3>3, <3>4, <3>5
  <2> QED
    BY <2>5, <2>6
<1>2. ASSUME NEW t \in Tasks, Enter(t)
      PROVE  LineOK' /\ ClientsOK'
  <2> USE <1>2 DEF Enter
  <2>1. pc' \in [Tasks -> {"out", "waiting", "granted", "getting", "using"}]
    BY DEF LineOK
  <2>2. CASE permits > 0 /\ waiters = <<>>
    <3>1. Inside' = Inside \union {t} /\ t \notin Inside
      BY <2>2 DEF Inside, LineOK
    <3>2. Cardinality(Inside') = Cardinality(Inside) + 1
      BY <3>1, InsideFinite, FS_AddElement
    <3>3. PermitsConserved' /\ NoIdlePermit'
      BY <2>2, <3>2, InsideFinite, <1>0 DEF PermitsConserved, NoIdlePermit, LineOK
    <3>4. WaitersAreWaiting'
      BY <2>2 DEF WaitersAreWaiting, LineOK
    <3> QED
      BY <2>1, <2>2, <3>3, <3>4 DEF LineOK, ClientsOK, Ownership, OnlyCreated, ClosedIsEmpty,
                                   KnownClientsAreOwned
  <2>3. CASE ~(permits > 0 /\ waiters = <<>>)
    <3>1. Inside' = Inside
      BY <2>3 DEF Inside, LineOK
    <3>2. PermitsConserved' /\ NoIdlePermit'
      BY <2>3, <3>1 DEF PermitsConserved, NoIdlePermit, LineOK
    <3>3. /\ waiters' \in Seq(Tasks) /\ Len(waiters') = Len(waiters) + 1
          /\ \A j \in 1..Len(waiters) : waiters'[j] = waiters[j]
          /\ waiters'[Len(waiters) + 1] = t
          /\ Len(waiters) \in Nat
      BY <2>3, AppendProperties DEF LineOK
    <3>4. \A j \in 1..Len(waiters) : waiters[j] # t
      BY DEF LineOK, WaitersAreWaiting
    <3>5. \A j, k \in 1..Len(waiters') : waiters'[j] = waiters'[k] => j = k
      <4>1. \A j \in 1..Len(waiters') : j \in 1..Len(waiters) \/ j = Len(waiters) + 1
        BY <3>3
      <4> QED
        BY <3>3, <3>4, <4>1 DEF LineOK, WaitersAreWaiting
    <3>6. \A u \in Tasks : pc'[u] = "waiting" <=> \E j \in 1..Len(waiters') : waiters'[j] = u
      <4>1. \A u \in Tasks : pc'[u] = "waiting" <=> (u = t \/ pc[u] = "waiting")
        BY <2>3 DEF LineOK
      <4>2. \A u \in Tasks : (\E j \in 1..Len(waiters') : waiters'[j] = u)
                                <=> (u = t \/ \E j \in 1..Len(waiters) : waiters[j] = u)
        <5>1. 1..Len(waiters') = (1..Len(waiters)) \union {Len(waiters) + 1}
          BY <3>3
        <5> QED
          BY <3>3, <5>1
      <4> QED
        BY <4>1, <4>2 DEF LineOK, WaitersAreWaiting
    <3>7. ClientsOK'
      BY <2>3 DEF LineOK, ClientsOK, Ownership, OnlyCreated, ClosedIsEmpty,
                  KnownClientsAreOwned
    <3>8. LineOK'
      BY <2>1, <2>3, <3>2, <3>3, <3>5, <3>6 DEF LineOK, WaitersAreWaiting
    <3> QED
      BY <3>7, <3>8
  <2> QED
    BY <2>2, <2>3
<1>3. ASSUME NEW t \in Tasks, Block(t)
      PROVE  LineOK' /\ ClientsOK'
  <2>1. t \in Inside
    BY <1>3 DEF Block, Inside
  <2>2. LineOK'
    BY <1>3, <2>1, StayLine DEF Block
  <2>3. ClientsOK'
    BY <1>3 DEF Block, LineOK, ClientsOK, Ownership, OnlyCreated, ClosedIsEmpty,
                KnownClientsAreOwned
  <2> QED
    BY <2>2, <2>3
<1>4. ASSUME NEW t \in Tasks, NEW c \in Clients, Checkout(t, c)
      PROVE  LineOK' /\ ClientsOK'
  <2> USE <1>4 DEF Checkout, CanGet
  <2>1. t \in Inside
    BY DEF Inside
  <2>2. LineOK'
    BY <2>1, StayLine
  <2>3. ClientsOK'
    <3> USE DEF ClientsOK
    <3>1. idle[c] = 1 /\ holds[t] = NoClient /\ \A u \in Tasks : holds[u] # c
      BY DEF Ownership
    <3>2. Ownership'
      BY <1>0, <3>1 DEF Ownership, LineOK
    <3>3. OnlyCreated' /\ ClosedIsEmpty'
      BY <3>1 DEF OnlyCreated, ClosedIsEmpty
    <3>4. KnownClientsAreOwned'
      BY <3>1, <1>0 DEF KnownClientsAreOwned
    <3>5. /\ idle' \in [Clients -> Nat]
          /\ holds' \in [Tasks -> Clients \union {NoClient}]
      BY <3>1
    <3> QED
      BY <3>2, <3>3, <3>4, <3>5
  <2> QED
    BY <2>2, <2>3
<1>5. ASSUME NEW t \in Tasks, NEW c \in Clients, CheckoutReplaced(t, c)
      PROVE  LineOK' /\ ClientsOK'
  <2> USE DEF CanGet
  <2>1. t \in Inside
    BY <1>5 DEF CheckoutReplaced, Inside
  <2>2. LineOK'
    BY <1>5, <2>1, StayLine DEF CheckoutReplaced
  <2>3. PICK new \in Fresh :
          /\ created' = created \union {new}
          /\ alive' = alive \union {new}
          /\ all' = (all \ {c}) \union {new}
          /\ holds' = [holds EXCEPT ![t] = new]
    BY <1>5 DEF CheckoutReplaced
  <2>4. /\ idle[c] > 0 /\ pc[t] # "using"
        /\ idle' = [idle EXCEPT ![c] = @ - 1]
        /\ pc' = [pc EXCEPT ![t] = "using"]
        /\ UNCHANGED <<closed, setup>>
    BY <1>5 DEF CheckoutReplaced
  <2>5. ClientsOK'
    <3> USE <2>3, <2>4 DEF ClientsOK
    <3>1. /\ idle[c] = 1 /\ holds[t] = NoClient /\ \A u \in Tasks : holds[u] # c
          /\ ~closed
      BY DEF Ownership, ClosedIsEmpty
    <3>2. new \in Clients /\ new # c /\ idle[new] = 0 /\ \A u \in Tasks : holds[u] # new
      BY <1>0, <3>1 DEF Fresh, OnlyCreated, Ownership
    <3>3. Ownership'
      BY <1>0, <3>1, <3>2 DEF Ownership, LineOK
    <3>4. OnlyCreated' /\ ClosedIsEmpty'
      BY <3>1, <3>2 DEF OnlyCreated, ClosedIsEmpty
    <3>5. KnownClientsAreOwned'
      BY <3>1, <3>2, <1>0 DEF KnownClientsAreOwned
    <3>6. /\ idle' \in [Clients -> Nat]
          /\ holds' \in [Tasks -> Clients \union {NoClient}]
          /\ all' \in SUBSET Clients /\ alive' \in SUBSET Clients /\ created' \in SUBSET Clients
      BY <3>1, <3>2
    <3> QED
      BY <3>3, <3>4, <3>5, <3>6
  <2> QED
    BY <2>2, <2>5
<1>6. ASSUME NEW t \in Tasks, NEW c \in Clients, CheckoutFails(t, c)
      PROVE  LineOK' /\ ClientsOK'
  <2> USE <1>6 DEF CheckoutFails, CanGet
  <2>1. t \in Inside /\ pc[t] # "using"
    BY DEF Inside
  <2>2. /\ LineOK'
        /\ pc'[t] = "out"
        /\ \A u \in Tasks : u # t => (pc'[u] = "using" <=> pc[u] = "using")
    BY <2>1, LeaveLine
  <2>3. ClientsOK'
    <3> USE DEF ClientsOK
    <3>1. ~closed /\ idle' = idle
      BY DEF ClosedIsEmpty
    <3>2. Ownership'
      BY <2>1, <2>2, <3>1 DEF Ownership
    <3>3. OnlyCreated' /\ ClosedIsEmpty' /\ KnownClientsAreOwned'
      BY <3>1 DEF OnlyCreated, ClosedIsEmpty, KnownClientsAreOwned
    <3> QED
      BY <3>1, <3>2, <3>3
  <2> QED
    BY <2>2, <2>3
<1>7. ASSUME NEW t \in Tasks, Release(t)
      PROVE  LineOK' /\ ClientsOK'
  <2> USE <1>7 DEF Release
  <2>1. t \in Inside
    BY DEF Inside
  <2>2. /\ LineOK'
        /\ pc'[t] = "out"
        /\ \A u \in Tasks : u # t => (pc'[u] = "using" <=> pc[u] = "using")
    BY <2>1, LeaveLine
  <2>3. ClientsOK'
    <3> USE DEF ClientsOK
    <3>1. holds[t] \in Clients /\ idle[holds[t]] = 0 /\ holds[t] \in created
      BY <1>0 DEF Ownership, OnlyCreated
    <3>2. \A u \in Tasks : u # t => holds[u] # holds[t]
      BY <1>0, <3>1 DEF Ownership
    <3>3. /\ idle' \in [Clients -> Nat]
          /\ holds' \in [Tasks -> Clients \union {NoClient}]
          /\ \A d \in Clients : idle'[d] = IF d = holds[t] /\ ~closed THEN 1 ELSE idle[d]
          /\ \A u \in Tasks : holds'[u] = IF u = t THEN NoClient ELSE holds[u]
      BY <3>1
    <3>4. Ownership'
      BY <1>0, <2>2, <3>1, <3>2, <3>3 DEF Ownership
    <3>5. OnlyCreated' /\ ClosedIsEmpty'
      BY <3>1, <3>3 DEF OnlyCreated, ClosedIsEmpty
    <3>6. KnownClientsAreOwned'
      BY <3>1, <3>3 DEF KnownClientsAreOwned, ClosedIsEmpty
    <3> QED
      BY <3>3, <3>4, <3>5, <3>6
  <2> QED
    BY <2>2, <2>3
<1>8. ASSUME NEW t \in Tasks, CancelWaiting(t)
      PROVE  LineOK' /\ ClientsOK'
  <2> USE <1>8 DEF CancelWaiting
  <2>1. PICK i \in 1..Len(waiters) : waiters[i] = t /\ waiters' = RemoveAt(waiters, i)
    OBVIOUS
  <2>2. \A u \in Tasks : pc'[u] = IF u = t THEN "out" ELSE pc[u]
    BY DEF LineOK
  <2>3. /\ waiters' \in Seq(Tasks)
        /\ \A j, k \in 1..Len(waiters') : waiters'[j] = waiters'[k] => j = k
        /\ \A u \in Tasks : (\E j \in 1..Len(waiters') : waiters'[j] = u)
                              <=> (u # t /\ \E j \in 1..Len(waiters) : waiters[j] = u)
    <3>1. waiters \in Seq(Tasks)
      BY DEF LineOK
    <3>2. \A j, k \in 1..Len(waiters) : waiters[j] = waiters[k] => j = k
      BY DEF LineOK, WaitersAreWaiting
    <3>3. /\ RemoveAt(waiters, i) \in Seq(Tasks)
          /\ \A j, k \in 1..Len(RemoveAt(waiters, i)) :
               RemoveAt(waiters, i)[j] = RemoveAt(waiters, i)[k] => j = k
          /\ \A u \in Tasks :
               (\E j \in 1..Len(RemoveAt(waiters, i)) : RemoveAt(waiters, i)[j] = u)
                 <=> (u # waiters[i] /\ \E j \in 1..Len(waiters) : waiters[j] = u)
      BY <3>1, <3>2, RemoveAtLine
    <3> QED
      BY <2>1, <3>3
  <2>4. Inside' = Inside
    BY <2>2 DEF Inside
  <2>5. PermitsConserved' /\ NoIdlePermit'
    BY <2>1, <2>4 DEF PermitsConserved, NoIdlePermit, LineOK
  <2>6. WaitersAreWaiting'
    <3>1. \A u \in Tasks : pc'[u] = "waiting" <=> (u # t /\ pc[u] = "waiting")
      BY <2>2
    <3>2. \A u \in Tasks : pc'[u] = "waiting" <=> \E j \in 1..Len(waiters') : waiters'[j] = u
      BY <2>3, <3>1 DEF LineOK, WaitersAreWaiting
    <3> QED
      BY <2>3, <3>2 DEF WaitersAreWaiting
  <2>7. LineOK'
    BY <2>3, <2>5, <2>6 DEF LineOK
  <2>8. ClientsOK'
    BY <2>2 DEF ClientsOK, Ownership, OnlyCreated, ClosedIsEmpty, KnownClientsAreOwned
  <2> QED
    BY <2>7, <2>8
<1>9. ASSUME NEW t \in Tasks, CancelGranted(t)
      PROVE  LineOK' /\ ClientsOK'
  <2> USE <1>9 DEF CancelGranted
  <2>1. t \in Inside /\ pc[t] # "using"
    BY DEF Inside
  <2>2. /\ LineOK'
        /\ pc'[t] = "out"
        /\ \A u \in Tasks : u # t => (pc'[u] = "using" <=> pc[u] = "using")
    BY <2>1, LeaveLine
  <2>3. ClientsOK'
    BY <2>1, <2>2 DEF ClientsOK, Ownership, OnlyCreated, ClosedIsEmpty, KnownClientsAreOwned
  <2> QED
    BY <2>2, <2>3
<1>10. CASE Close
  <2> USE <1>10 DEF Close
  <2>1. LineOK'
    BY DEF LineOK, PermitsConserved, WaitersAreWaiting, NoIdlePermit, Inside
  <2>2. ClientsOK'
    BY DEF ClientsOK, Ownership, OnlyCreated, ClosedIsEmpty, KnownClientsAreOwned
  <2> QED
    BY <2>1, <2>2
<1>11. CASE UNCHANGED vars \/ \E c \in Clients : ConnectionDies(c)
  <2>1. /\ UNCHANGED <<permits, waiters, idle, all, closed, pc, holds, created, setup>>
        /\ alive' \subseteq alive
    BY <1>11 DEF vars, ConnectionDies
  <2>2. LineOK'
    BY <2>1 DEF LineOK, PermitsConserved, WaitersAreWaiting, NoIdlePermit, Inside
  <2>3. ClientsOK'
    BY <2>1 DEF ClientsOK, Ownership, OnlyCreated, ClosedIsEmpty, KnownClientsAreOwned
  <2> QED
    BY <2>2, <2>3
<1> QED
  BY <1>1, <1>2, <1>3, <1>4, <1>5, <1>6, <1>7, <1>8, <1>9, <1>10, <1>11 DEF Next, Get

THEOREM Invariance == Spec => []IInv
<1>1. Init => IInv
  BY InitIInv
<1>2. IInv /\ [Next]_vars => IInv'
  BY NextIInv
<1> QED
  BY <1>1, <1>2, PTL DEF Spec

-----------------------------------------------------------------------------
THEOREM TypeCorrect == Spec => []TypeOK
<1>1. IInv => TypeOK
  BY DEF IInv, LineOK, ClientsOK, TypeOK
<1> QED
  BY <1>1, Invariance, PTL

(* acquire() never gives one client to two tasks, nor leaves in the queue  *)
(* one that a task still uses.                                             *)
THEOREM ClientsHaveOneOwner == Spec => []OneOwner
<1>1. IInv => OneOwner
  <2> SUFFICES ASSUME IInv, NEW c \in Clients
               PROVE  idle[c] + Cardinality({t \in Tasks : holds[t] = c}) <= 1
    BY DEF OneOwner
  <2> DEFINE H == {t \in Tasks : holds[t] = c}
  <2>1. c # NoClient /\ idle[c] \in {0, 1}
    BY PoolAssumption DEF PoolAssumption, IInv, ClientsOK, Ownership
  <2>2. CASE H = {}
    BY <2>1, <2>2, FS_EmptySet
  <2>3. CASE H # {}
    <3>1. PICK t \in Tasks : holds[t] = c
      BY <2>3
    <3>2. H = {t} /\ idle[c] = 0
      BY <2>1, <3>1 DEF IInv, ClientsOK, Ownership
    <3>3. Cardinality(H) = 1
      BY <3>2, FS_Singleton
    <3> QED
      BY <3>2, <3>3
  <2> QED
    BY <2>2, <2>3
<1> QED
  BY <1>1, Invariance, PTL

(* The semaphore never leaks a permit nor mints one.                       *)
THEOREM PermitsAreConserved == Spec => []PermitsConserved
<1>1. IInv => PermitsConserved
  BY DEF IInv, LineOK
<1> QED
  BY <1>1, Invariance, PTL

(* Both together: cancellations, replacements and close() neither share a  *)
(* client nor lose or mint a permit (connection_pool.py 88-141).           *)
THEOREM PoolIsWhole == Spec => []PoolStaysWhole
<1>1. OneOwner /\ PermitsConserved => PoolStaysWhole
  BY DEF PoolStaysWhole
<1> QED
  BY <1>1, ClientsHaveOneOwner, PermitsAreConserved, PTL

(* A cancelled waiter leaves the line and nobody else does.                *)
THEOREM LineIsExact == Spec => []WaitersAreWaiting
<1>1. IInv => WaitersAreWaiting
  BY DEF IInv, LineOK
<1> QED
  BY <1>1, Invariance, PTL

(* No task waits for a permit while one is free.                           *)
THEOREM NoPermitIdles == Spec => []NoIdlePermit
<1>1. IInv => NoIdlePermit
  BY DEF IInv, LineOK
<1> QED
  BY <1>1, Invariance, PTL

(* Every client close() will close is in the queue or with a task.         *)
THEOREM KnownClientsHaveOwners == Spec => []KnownClientsAreOwned
<1>1. IInv => KnownClientsAreOwned
  BY DEF IInv, ClientsOK
<1> QED
  BY <1>1, Invariance, PTL

(* After close() no task starts to use a client and none is put back.      *)
LEMMA ClosedStep ==
  ASSUME IInv, Next, closed
  PROVE  (\A c \in Clients : idle'[c] = 0) /\ Using' \subseteq Using
<1> USE DEF IInv
<1>0. \A c \in Clients : idle[c] = 0
  BY DEF ClientsOK, ClosedIsEmpty
<1>1. ASSUME NEW t \in Inside, Leave(t), UNCHANGED <<idle, setup>>
      PROVE  (\A c \in Clients : idle'[c] = 0) /\ Using' \subseteq Using
  BY <1>0, <1>1, LeaveLine
<1>2. ASSUME NEW t \in Tasks, Release(t) \/ CancelGranted(t)
      PROVE  (\A c \in Clients : idle'[c] = 0) /\ Using' \subseteq Using
  <2>1. t \in Inside /\ Leave(t) /\ UNCHANGED <<idle, setup>>
    BY <1>2 DEF Release, CancelGranted, Inside
  <2> QED
    BY <2>1, <1>1
<1>3. ASSUME NEW t \in Tasks, Enter(t) \/ Block(t) \/ CancelWaiting(t)
      PROVE  (\A c \in Clients : idle'[c] = 0) /\ Using' \subseteq Using
  <2>1. /\ UNCHANGED idle
        /\ pc' = [pc EXCEPT ![t] = "out"] \/ pc' = [pc EXCEPT ![t] = "getting"]
    BY <1>3 DEF Enter, Block, CancelWaiting
  <2>2. Using' \subseteq Using
    BY <2>1 DEF Using, LineOK
  <2> QED
    BY <1>0, <2>1, <2>2
<1>4. ASSUME NEW t \in Tasks, NEW c \in Clients
      PROVE  ~Checkout(t, c) /\ ~CheckoutReplaced(t, c) /\ ~CheckoutFails(t, c)
  <2>1. ~CanGet(t, c)
    BY <1>0 DEF CanGet
  <2> QED
    BY <2>1 DEF Checkout, CheckoutReplaced, CheckoutFails
<1>5. ~Initialize /\ ~Close
  BY DEF Initialize, Close
<1>6. ASSUME NEW c \in Clients, ConnectionDies(c)
      PROVE  (\A d \in Clients : idle'[d] = 0) /\ Using' \subseteq Using
  BY <1>0, <1>6 DEF ConnectionDies, Using
<1> QED
  BY <1>2, <1>3, <1>4, <1>5, <1>6 DEF Next, Get

THEOREM ClosedIsClosed == Spec => ClosedHandsOutNothing
<1>1. IInv /\ [Next]_vars =>
        [closed => /\ \A c \in Clients : idle'[c] = 0
                   /\ Using' \subseteq Using]_vars
  BY ClosedStep
<1> QED
  BY <1>1, Invariance, PTL DEF Spec, ClosedHandsOutNothing

-----------------------------------------------------------------------------
(* The clients in the queue.  Together with the ones in use they are at    *)
(* least as many as the permits ever were: checking out moves a client     *)
(* from one side to the other, replacing one that died exchanges it, and a *)
(* failed replacement puts the dead client back.                           *)
IdleClients == {c \in Clients : idle[c] > 0}

PlayIInv ==
  /\ IsFiniteSet(created)
  /\ (setup = "ready" /\ ~closed) =>
       Cardinality(IdleClients) + Cardinality(Using) >= PoolSize

LEMMA UsingFinite ==
  /\ IsFiniteSet(Using) /\ Cardinality(Using) \in Nat
  /\ Cardinality(Inside \ Using) = Cardinality(Inside) - Cardinality(Using)
<1>1. Using \in SUBSET Inside /\ IsFiniteSet(Inside)
  BY InsideFinite DEF Using, Inside
<1>2. Inside \cap Using = Using
  BY <1>1
<1>3. IsFiniteSet(Using)
  BY <1>1, FS_Subset
<1>4. Cardinality(Inside \ Using) = Cardinality(Inside) - Cardinality(Inside \cap Using)
  BY <1>1, FS_Difference
<1>5. Cardinality(Using) \in Nat
  BY <1>3, FS_CardinalityType
<1> QED BY <1>2, <1>3, <1>4, <1>5

LEMMA IdleFinite ==
  ASSUME IInv, IsFiniteSet(created)
  PROVE  IsFiniteSet(IdleClients) /\ Cardinality(IdleClients) \in Nat
<1>1. IdleClients \in SUBSET created
  BY DEF IdleClients, IInv, ClientsOK, OnlyCreated
<1> QED BY <1>1, FS_Subset, FS_CardinalityType

LEMMA InitPlay == Init => PlayIInv
BY FS_EmptySet DEF Init, PlayIInv

(* A step that leaves the queue and the tasks that use a client alone.     *)
LEMMA PlayStays ==
  ASSUME PlayIInv, IInv, UNCHANGED <<idle, created, setup>>, closed' = closed, Using' = Using
  PROVE  PlayIInv'
<1>1. IdleClients' = IdleClients
  BY DEF IdleClients
<1> QED BY <1>1 DEF PlayIInv

LEMMA PlayCheckout ==
  ASSUME PlayIInv, IInv, NEW t \in Tasks, NEW c \in Clients, CanGet(t, c),
         idle' = [idle EXCEPT ![c] = @ - 1], pc' = [pc EXCEPT ![t] = "using"],
         closed' = closed, setup' = setup, IsFiniteSet(created')
  PROVE  PlayIInv'
<1>1. idle \in [Clients -> Nat] /\ idle[c] = 1 /\ t \notin Using
  BY DEF CanGet, IInv, ClientsOK, Ownership, Using
<1>2. IdleClients' = IdleClients \ {c} /\ c \in IdleClients
  BY <1>1 DEF IdleClients
<1>3. Using' = Using \union {t}
  BY DEF Using, IInv, LineOK
<1>4. IsFiniteSet(IdleClients) /\ Cardinality(IdleClients) \in Nat
  BY IdleFinite DEF PlayIInv
<1>5. Cardinality(IdleClients') = Cardinality(IdleClients) - 1
  BY <1>2, <1>4, FS_RemoveElement
<1>6. Cardinality(Using') = Cardinality(Using) + 1
  BY <1>1, <1>3, UsingFinite, FS_AddElement
<1>7. Cardinality(IdleClients') + Cardinality(Using') = Cardinality(IdleClients) + Cardinality(Using)
  BY <1>4, <1>5, <1>6, UsingFinite
<1> QED BY <1>7 DEF PlayIInv

LEMMA NextPlay ==
  ASSUME IInv, PlayIInv, [Next]_vars
  PROVE  PlayIInv'
<1>0. /\ LineOK /\ ClientsOK
      /\ idle \in [Clients -> Nat]
      /\ pc \in [Tasks -> {"out", "waiting", "granted", "getting", "using"}]
      /\ PoolSize \in Nat
  BY PoolAssumption DEF IInv, LineOK, ClientsOK, PoolAssumption
<1>1. CASE Initialize
  <2>1. PICK new \in SUBSET Fresh :
          /\ IsFiniteSet(new) /\ Cardinality(new) <= PoolSize
          /\ setup' = IF Cardinality(new) = PoolSize THEN "ready" ELSE "partial"
          /\ created' = created \union new
          /\ idle' = [c \in Clients |-> idle[c] + IF c \in new THEN 1 ELSE 0]
    BY <1>1 DEF Initialize
  <2>2. IsFiniteSet(created')
    BY <2>1, FS_Union DEF PlayIInv
  <2>3. new \subseteq Clients /\ Using' = {}
    BY <1>1 DEF Fresh, Initialize, Using
  <2>4. IdleClients' = IdleClients \union new
    BY <1>0, <2>1, <2>3 DEF IdleClients
  <2>5. IsFiniteSet(IdleClients)
    BY IdleFinite DEF PlayIInv
  <2>6. IsFiniteSet(IdleClients') /\ new \in SUBSET IdleClients'
    BY <2>1, <2>4, <2>5, FS_Union
  <2>7. Cardinality(new) <= Cardinality(IdleClients')
    BY <2>6, FS_Subset
  <2>8. Cardinality(new) \in Nat /\ Cardinality(IdleClients') \in Nat
    BY <2>1, <2>6, FS_CardinalityType
  <2> QED BY <1>0, <2>1, <2>2, <2>3, <2>7, <2>8, FS_EmptySet DEF PlayIInv
<1>2. ASSUME NEW t \in Tasks, Enter(t) \/ Block(t) \/ CancelWaiting(t)
      PROVE  PlayIInv'
  <2>1. /\ UNCHANGED <<idle, closed, created, setup>>
        /\ pc[t] \in {"out", "granted", "waiting"}
        /\ \E p \in {"granted", "waiting", "getting", "out"} : pc' = [pc EXCEPT ![t] = p]
    BY <1>2 DEF Enter, Block, CancelWaiting
  <2>2. Using' = Using
    BY <1>0, <2>1 DEF Using
  <2> QED BY <2>1, <2>2, PlayStays
<1>3. ASSUME NEW t \in Tasks, CancelGranted(t)
      PROVE  PlayIInv'
  <2>1. t \in Inside /\ t \notin Using /\ Leave(t) /\ UNCHANGED <<idle, closed, created, setup>>
    BY <1>3 DEF CancelGranted, Inside, Using
  <2>2. Using' = Using
    BY <1>0, <2>1, LeaveLine
  <2> QED BY <2>1, <2>2, PlayStays
<1>4. ASSUME NEW t \in Tasks, Release(t)
      PROVE  PlayIInv'
  <2>1. /\ t \in Inside /\ t \in Using /\ Leave(t) /\ UNCHANGED <<closed, created, setup>>
        /\ idle' = IF closed THEN idle ELSE [idle EXCEPT ![holds[t]] = @ + 1]
    BY <1>4 DEF Release, Inside, Using
  <2>2. Using' = Using \ {t}
    BY <1>0, <2>1, LeaveLine
  <2>3. CASE closed
    BY <2>1, <2>3 DEF PlayIInv
  <2>4. CASE ~closed
    <3>1. holds[t] \in Clients /\ idle[holds[t]] = 0
      BY <1>0, <2>1 DEF ClientsOK, Ownership, Using
    <3>2. IdleClients' = IdleClients \union {holds[t]} /\ holds[t] \notin IdleClients
      BY <1>0, <2>1, <2>4, <3>1 DEF IdleClients
    <3>3. IsFiniteSet(IdleClients) /\ Cardinality(IdleClients) \in Nat
      BY IdleFinite DEF PlayIInv
    <3>4. Cardinality(IdleClients') = Cardinality(IdleClients) + 1
      BY <3>2, <3>3, FS_AddElement
    <3>5. Cardinality(Using') = Cardinality(Using) - 1
      BY <2>1, <2>2, UsingFinite, FS_RemoveElement
    <3>6. Cardinality(IdleClients') + Cardinality(Using')
            = Cardinality(IdleClients) + Cardinality(Using)
      BY <3>3, <3>4, <3>5, UsingFinite
    <3> QED BY <2>1, <3>6 DEF PlayIInv
  <2> QED BY <2>3, <2>4
<1>5. ASSUME NEW t \in Tasks, NEW c \in Clients, Checkout(t, c) \/ CheckoutReplaced(t, c)
      PROVE  PlayIInv'
  <2>1. /\ CanGet(t, c) /\ idle' = [idle EXCEPT ![c] = @ - 1]
        /\ pc' = [pc EXCEPT ![t] = "using"] /\ UNCHANGED <<closed, setup>>
        /\ created' = created \/ \E new \in Fresh : created' = created \union {new}
    BY <1>5 DEF Checkout, CheckoutReplaced
  <2>2. IsFiniteSet(created')
    BY <2>1, FS_AddElement DEF PlayIInv
  <2> QED BY <2>1, <2>2, PlayCheckout
<1>6. ASSUME NEW t \in Tasks, NEW c \in Clients, CheckoutFails(t, c)
      PROVE  PlayIInv'
  <2>1. /\ t \in Inside /\ t \notin Using /\ Leave(t) /\ UNCHANGED <<closed, created, setup>>
        /\ idle' = [idle EXCEPT ![c] = IF closed THEN @ - 1 ELSE @]
    BY <1>6 DEF CheckoutFails, CanGet, Inside, Using
  <2>2. Using' = Using
    BY <1>0, <2>1, LeaveLine
  <2>3. CASE closed
    BY <2>1, <2>3 DEF PlayIInv
  <2>4. CASE ~closed
    <3>1. idle' = idle
      BY <1>0, <2>1, <2>4
    <3> QED BY <2>1, <2>2, <3>1, PlayStays
  <2> QED BY <2>3, <2>4
<1>7. CASE Close
  BY <1>7 DEF Close, PlayIInv
<1>8. CASE UNCHANGED vars \/ \E c \in Clients : ConnectionDies(c)
  <2>1. UNCHANGED <<idle, closed, created, setup, pc>>
    BY <1>8 DEF vars, ConnectionDies
  <2>2. Using' = Using
    BY <2>1 DEF Using
  <2> QED BY <2>1, <2>2, PlayStays
<1> QED
  BY <1>1, <1>2, <1>3, <1>4, <1>5, <1>6, <1>7, <1>8 DEF Next, Get

(* Every copy in the queue is a client of its own.                         *)
LEMMA QueuedAreIdle ==
  ASSUME IInv, IsFiniteSet(created)
  PROVE  Cardinality(Queued) = Cardinality(IdleClients)
<1>1. \A c \in Clients : idle[c] \in {0, 1}
  BY DEF IInv, ClientsOK, Ownership
<1>2. 1..0 = {} /\ 1..1 = {1}
  OBVIOUS
<1>3. Queued = IdleClients \X {1}
  <2>1. ASSUME NEW p PROVE p \in Queued <=> p \in IdleClients \X {1}
    <3>1. p \in Queued <=> \E c \in Clients : p \in {c} \X (1..idle[c])
      BY DEF Queued
    <3>2. \A c \in Clients : p \in {c} \X (1..idle[c]) <=> idle[c] = 1 /\ p \in {c} \X {1}
      BY <1>1, <1>2
    <3> QED BY <1>1, <3>1, <3>2 DEF IdleClients
  <2> QED BY <2>1
<1>4. IsFiniteSet({1}) /\ Cardinality({1}) = 1
  BY FS_Singleton
<1>5. Cardinality(IdleClients \X {1}) = Cardinality(IdleClients) * 1
  BY <1>4, IdleFinite, FS_Product
<1> QED BY <1>3, <1>5, IdleFinite

(* Whoever holds a permit of an initialized, open pool finds a client in   *)
(* the queue (acquire(), connection_pool.py 95-140), for any pool size and *)
(* whatever died or could not be replaced: the semaphore's count is never  *)
(* ahead of the queue's.                                                   *)
THEOREM PermitsAreBacked == Spec => []PermitMeansClient
<1>1. Init => PlayIInv
  BY InitPlay
<1>2. IInv /\ PlayIInv /\ [Next]_vars => PlayIInv'
  BY NextPlay
<1>3. IInv /\ PlayIInv => PermitMeansClient
  <2> SUFFICES ASSUME IInv, PlayIInv, setup = "ready", ~closed
               PROVE  Cardinality(Queued) >= permits + Cardinality(Inside \ Using)
    BY DEF PermitMeansClient
  <2>1. permits + Cardinality(Inside) = PoolSize /\ permits \in Nat /\ PoolSize \in Nat
    BY PoolAssumption DEF IInv, LineOK, PermitsConserved, PoolAssumption
  <2>2. Cardinality(Queued) + Cardinality(Using) >= PoolSize /\ Cardinality(Queued) \in Nat
    BY QueuedAreIdle, IdleFinite DEF PlayIInv
  <2> QED BY <2>1, <2>2, UsingFinite, InsideFinite
<1> QED
  BY <1>1, <1>2, <1>3, Invariance, PTL DEF Spec

-----------------------------------------------------------------------------
(***************************************************************************)
(* What the query cache guarantees for any requests and questions, any     *)
(* time to live of a SETEX and any number of outages.  Answers are fresh   *)
(* because an entry expires by the time of the read that made it, whoever  *)
(* is served from it; they do not go backwards because, while no two       *)
(* requests for a key overlap and Redis is there, a request stores an      *)
(* answer only when no other is live.                                      *)
(***************************************************************************)

(* The types these proofs need; an asked question is one of Questions.     *)
Typed ==
  /\ time \in Nat
  /\ redisUp \in BOOLEAN
  /\ cache \in [Keys -> [readAt : Int, expires : Int]]
  /\ stage \in [Requests -> {"idle", "lookup", "execute", "store", "done"}]
  /\ question \in [Requests -> Questions \union {NoQuestion}]
  /\ read \in [Requests -> Int]
  /\ response \in [Requests -> {"none", "rows", "hit", "empty", "error",
                                "400", "429", "500"}]
  /\ \A r \in Requests : /\ Asked(r) => question[r] \in Questions
                         /\ Answered(r) <=> stage[r] = "done"

(* An entry expires by the time its rows were read, and a SETEX is sent no *)
(* later than MaxLag after the read.                                       *)
BoundedAge ==
  /\ \A k \in Keys : cache[k].expires <= cache[k].readAt + TimeToLive(k) + MaxLag
  /\ \A r \in Requests : stage[r] = "store" => time <= read[r] + MaxLag

(* Nothing was read in the future.                                         *)
Past ==
  /\ \A r \in Requests : read[r] <= time
  /\ \A k \in Keys : cache[k].readAt <= time

(* A key is calm while it is not raced: Redis is there, or it neither      *)
(* holds the key nor is anybody asking for it.                             *)
CalmWhenDown ==
  \A k \in Keys \ raced :
    redisUp \/ (~Live(k) /\ \A r \in Requests : Open(r) => Key(r) # k)

(* One request at a time asks for a calm key, and when it has missed there *)
(* is no entry until it stores one.                                        *)
OneAsker ==
  /\ \A r, s \in Requests :
       (Open(r) /\ Open(s) /\ Key(r) = Key(s) /\ Key(r) \notin raced) => r = s
  /\ \A r \in Requests :
       (stage[r] \in {"execute", "store"} /\ Key(r) \notin raced) => ~Live(Key(r))

(* What was answered is no newer than what a hit, or the request that is   *)
(* about to store, will answer.                                            *)
Ordered ==
  \A s \in Requests : (Rows(s) /\ Key(s) \notin raced) =>
    /\ Live(Key(s)) => read[s] <= cache[Key(s)].readAt
    /\ \A r \in Requests :
         (stage[r] = "store" /\ Key(r) = Key(s)) => read[s] <= read[r]

QueryInv == Typed /\ BoundedAge /\ Past /\ CalmWhenDown /\ OneAsker /\ Ordered

-----------------------------------------------------------------------------
LEMMA Constants == /\ MaxLag \in Nat
                   /\ \A k \in Keys : TimeToLive(k) \in {1, 2}
                   /\ \A q \in Questions : KeyOf(q) \in Keys
BY QueryAssumption DEF QueryAssumption, TimeToLive, Keys

LEMMA InitQueryInv == QueryInit => QueryInv
<1> SUFFICES ASSUME QueryInit PROVE QueryInv
  OBVIOUS
<1>1. Typed
  BY DEF QueryInit, Typed, Asked, Answered, NoEntry
<1>2. BoundedAge
  BY Constants DEF QueryInit, BoundedAge, NoEntry
<1>3. Past /\ CalmWhenDown /\ OneAsker /\ Ordered
  BY DEF QueryInit, Past, CalmWhenDown, OneAsker, Ordered, Open, Asked, Live, Rows, NoEntry
<1> QED BY <1>1, <1>2, <1>3 DEF QueryInv

(* What Ask does, whatever the limiter decides: nothing is answered with   *)
(* rows, and the key is raced if somebody else is asking for it.           *)
LEMMA AskEffect ==
  ASSUME NEW r \in Requests, QueryInv, Ask(r)
  PROVE  \E q \in Questions :
           /\ stage[r] = "idle"
           /\ question' = [question EXCEPT ![r] = q]
           /\ raced \subseteq raced'
           /\ KeyOf(q) \in raced' \/ (redisUp /\ \A s \in Requests : Open(s) => Key(s) # KeyOf(q))
           /\ \/ stage' = [stage EXCEPT ![r] = "lookup"] /\ response' = response
              \/ /\ stage' = [stage EXCEPT ![r] = "done"]
                 /\ response' = [response EXCEPT ![r] = "429"]
           /\ UNCHANGED <<time, redisUp, outages, cache, read>>
<1>1. PICK q \in Questions :
        /\ question' = [question EXCEPT ![r] = q]
        /\ raced' = IF ~redisUp \/ \E s \in Requests : Open(s) /\ Key(s) = KeyOf(q)
                    THEN raced \union {KeyOf(q)} ELSE raced
  BY DEF Ask
<1>2. \/ stage' = [stage EXCEPT ![r] = "lookup"] /\ response' = response
      \/ /\ stage' = [stage EXCEPT ![r] = "done"]
         /\ response' = [response EXCEPT ![r] = "429"]
  BY DEF Ask, RateLimit
<1>3. stage[r] = "idle" /\ UNCHANGED <<time, redisUp, outages, cache, read>>
  BY DEF Ask
<1> QED BY <1>1, <1>2, <1>3

LEMMA AskKeeps ==
  ASSUME NEW r \in Requests, QueryInv, Ask(r)
  PROVE  QueryInv'
<1> USE DEF QueryInv
<1>1. PICK q \in Questions :
           /\ stage[r] = "idle"
           /\ question' = [question EXCEPT ![r] = q]
           /\ raced \subseteq raced'
           /\ KeyOf(q) \in raced' \/ (redisUp /\ \A s \in Requests : Open(s) => Key(s) # KeyOf(q))
           /\ \/ stage' = [stage EXCEPT ![r] = "lookup"] /\ response' = response
              \/ /\ stage' = [stage EXCEPT ![r] = "done"]
                 /\ response' = [response EXCEPT ![r] = "429"]
           /\ UNCHANGED <<time, redisUp, outages, cache, read>>
  BY AskEffect
<1>2. Typed'
  BY <1>1 DEF Typed, Asked, Answered
<1>3. /\ Key(r)' = KeyOf(q)
      /\ \A s \in Requests \ {r} : /\ Key(s)' = Key(s) /\ Rows(s)' = Rows(s)
                                   /\ Open(s)' = Open(s) /\ stage'[s] = stage[s]
      /\ \A k \in Keys : Live(k)' = Live(k)
      /\ ~Rows(r)' /\ ~Open(r) /\ stage'[r] \in {"lookup", "done"}
  BY <1>1 DEF Typed, Key, Rows, Open, Asked, Answered, Live
<1>4. BoundedAge' /\ Past'
  BY <1>1 DEF BoundedAge, Past, Typed
<1>5. CalmWhenDown'
  <2> SUFFICES ASSUME NEW k \in Keys, k \notin raced', ~redisUp'
               PROVE  (~Live(k) /\ \A s \in Requests : Open(s) => Key(s) # k)'
    BY DEF CalmWhenDown
  <2> QED BY <1>1, <1>3 DEF CalmWhenDown
<1>6. OneAsker'
  <2>1. ASSUME NEW s \in Requests, NEW t \in Requests,
               (Open(s) /\ Open(t) /\ Key(s) = Key(t) /\ Key(s) \notin raced)'
        PROVE  s = t
    BY <1>1, <1>3, <2>1 DEF OneAsker
  <2>2. ASSUME NEW s \in Requests,
               (stage[s] \in {"execute", "store"} /\ Key(s) \notin raced)'
        PROVE  ~Live(Key(s))'
    BY <1>1, <1>3, <2>2 DEF OneAsker, Live
  <2> QED BY <2>1, <2>2 DEF OneAsker
<1>7. Ordered'
  <2> SUFFICES ASSUME NEW s \in Requests, Rows(s)', Key(s)' \notin raced'
               PROVE  (/\ Live(Key(s)) => read[s] <= cache[Key(s)].readAt
                       /\ \A t \in Requests :
                            (stage[t] = "store" /\ Key(t) = Key(s)) => read[s] <= read[t])'
    BY DEF Ordered
  <2>1. s # r /\ Rows(s) /\ Key(s)' = Key(s) /\ Key(s) \notin raced
    BY <1>1, <1>3
  <2> QED BY <1>1, <1>3, <2>1 DEF Ordered, Live
<1> QED BY <1>2, <1>4, <1>5, <1>6, <1>7

(* A request that goes on keeps its key, and so does everybody else.       *)
LEMMA ServeFrame ==
  ASSUME NEW r \in Requests, QueryInv, Serve(r)
  PROVE  /\ UNCHANGED <<time, redisUp, raced, question>>
         /\ \A s \in Requests : Key(s)' = Key(s)
         /\ Open(r)
         /\ \A s \in Requests \ {r} : /\ stage'[s] = stage[s] /\ Rows(s)' = Rows(s)
                                      /\ Open(s)' = Open(s) /\ read'[s] = read[s]
         /\ Key(r) \in Keys
<1> USE DEF QueryInv, Typed, Key, Open, Asked
<1>1. CASE Lookup(r)
  BY <1>1, Constants DEF Lookup, Answer, Rows, Answered
<1>2. CASE Execute(r)
  BY <1>2, Constants DEF Execute, Answer, Rows, Answered
<1>3. CASE Store(r)
  BY <1>3, Constants DEF Store, Rows, Answered
<1> QED BY <1>1, <1>2, <1>3 DEF Serve

(* What a step of r owes to the invariant: only its own entry changes, it  *)
(* has missed only if there was none, and of the answers to its question   *)
(* none is newer than what it is about to store or what its entry tells.   *)
LEMMA StepOfOne ==
  ASSUME NEW r \in Requests, QueryInv, Serve(r), Typed',
         \A k \in Keys \ {Key(r)} : cache'[k] = cache[k],
         ~redisUp => cache' = cache,
         Key(r) \notin raced =>
           /\ stage'[r] \in {"execute", "store"} => ~Live(Key(r))'
           /\ \A s \in Requests : (Rows(s)' /\ Key(s) = Key(r)) =>
                /\ Live(Key(r))' => read'[s] <= cache'[Key(r)].readAt
                /\ stage'[r] = "store" => read'[s] <= read'[r]
  PROVE  CalmWhenDown' /\ OneAsker' /\ Ordered'
<1> USE DEF QueryInv
<1>1. \A k \in Keys : k # Key(r) \/ ~redisUp => Live(k)' = Live(k)
  BY ServeFrame DEF Live
<1>2. \A s \in Requests : /\ Open(s)' => Open(s)
                          /\ Key(s)' = Key(s)
                          /\ stage[s] = "store" \/ stage[s] = "execute" => Open(s) /\ Key(s) \in Keys
                          /\ Rows(s)' => Key(s) \in Keys
  BY ServeFrame, Constants DEF Typed, Open, Key, Asked, Answered, Rows
<1>3. UNCHANGED <<redisUp, raced>>
  BY ServeFrame
<1>4. CalmWhenDown'
  BY <1>1, <1>2, <1>3 DEF CalmWhenDown
<1>5. \A s \in Requests : (Open(s) /\ Key(s) = Key(r) /\ Key(r) \notin raced) => s = r
  BY ServeFrame DEF OneAsker
<1>6. OneAsker'
  <2>1. \A s, t \in Requests :
          (Open(s) /\ Open(t) /\ Key(s) = Key(t) /\ Key(s) \notin raced)' => s = t
    BY <1>2, <1>3 DEF OneAsker
  <2>2. ASSUME NEW s \in Requests, stage'[s] \in {"execute", "store"}, Key(s) \notin raced
        PROVE  ~Live(Key(s))'
    <3>1. CASE s = r
      BY <2>2, <3>1
    <3>2. CASE s # r
      <4>1. stage[s] \in {"execute", "store"}
        BY <2>2, <3>2, ServeFrame
      <4>2. Key(s) # Key(r) /\ Key(s) \in Keys
        BY <4>1, <3>2, <2>2, <1>2, <1>5
      <4> QED BY <4>1, <4>2, <2>2, <1>1, <1>2 DEF OneAsker, Live
    <3> QED BY <3>1, <3>2
  <2> QED BY <2>1, <2>2, <1>2, <1>3 DEF OneAsker, Live
<1>7. Ordered'
  <2>1. ASSUME NEW s \in Requests, Rows(s)', Key(s) \notin raced
        PROVE  /\ Live(Key(s))' => read'[s] <= cache'[Key(s)].readAt
               /\ \A t \in Requests :
                    (stage'[t] = "store" /\ Key(t) = Key(s)) => read'[s] <= read'[t]
    <3>1. CASE Key(s) = Key(r)
      <4>1. ASSUME NEW t \in Requests, stage'[t] = "store", Key(t) = Key(s)
            PROVE  read'[s] <= read'[t]
        <5>1. t = r
          BY <4>1, <3>1, <2>1, <1>2, <1>5, ServeFrame
        <5> QED BY <5>1, <4>1, <3>1, <2>1
      <4>2. Live(Key(s))' = Live(Key(r))'
        BY <3>1, <1>2
      <4> QED BY <4>1, <4>2, <3>1, <2>1
    <3>2. CASE Key(s) # Key(r)
      <4>1. /\ s # r /\ Rows(s) /\ read'[s] = read[s] /\ Key(s) \in Keys
            /\ cache'[Key(s)] = cache[Key(s)] /\ Live(Key(s))' = Live(Key(s))
        BY <3>2, <2>1, <1>1, <1>2, ServeFrame
      <4>2. \A t \in Requests : Key(t) = Key(s) =>
              stage'[t] = stage[t] /\ read'[t] = read[t]
        BY <3>2, ServeFrame
      <4> QED BY <4>1, <4>2, <2>1 DEF Ordered
    <3> QED BY <3>1, <3>2
  <2> QED BY <2>1, <1>2, <1>3 DEF Ordered, Live
<1> QED BY <1>4, <1>6, <1>7

LEMMA LookupKeeps ==
  ASSUME NEW r \in Requests, QueryInv, Lookup(r)
  PROVE  QueryInv'
<1> USE DEF QueryInv
<1>0. Serve(r) /\ stage[r] = "lookup" /\ cache' = cache /\ UNCHANGED <<time, redisUp, raced>>
  BY DEF Serve, Lookup, Answer
<1>1. Typed'
  BY <1>0, ServeFrame DEF Typed, Lookup, Answer, Asked, Answered
<1>2. \A k \in Keys : Live(k)' = Live(k)
  BY <1>0 DEF Live
<1>3. Key(r) \in Keys /\ Open(r) /\ Key(r)' = Key(r) /\ \A s \in Requests \ {r} : Rows(s)' = Rows(s)
  BY <1>0, ServeFrame
<1>4. CASE redisUp /\ Live(Key(r))
  <2>1. /\ read' = [read EXCEPT ![r] = cache[Key(r)].readAt]
        /\ stage' = [stage EXCEPT ![r] = "done"]
    BY <1>4 DEF Lookup, Answer
  <2>2. BoundedAge' /\ Past'
    BY <1>0, <1>3, <2>1 DEF BoundedAge, Past, Typed
  <2>3. stage'[r] \notin {"execute", "store"}
    BY <2>1 DEF Typed
  <2>4. \A s \in Requests : (Rows(s)' /\ Key(s) = Key(r) /\ Key(r) \notin raced) =>
          read'[s] <= cache'[Key(r)].readAt
    BY <1>0, <1>3, <1>4, <2>1 DEF Ordered, Typed
  <2>5. CalmWhenDown' /\ OneAsker' /\ Ordered'
    BY <1>0, <1>1, <2>3, <2>4, StepOfOne
  <2> QED BY <1>1, <2>2, <2>5
<1>5. CASE ~(redisUp /\ Live(Key(r)))
  <2>1. /\ read' = read /\ response' = response
        /\ stage' = [stage EXCEPT ![r] = "execute"]
    BY <1>5 DEF Lookup
  <2>2. BoundedAge' /\ Past'
    BY <1>0, <2>1 DEF BoundedAge, Past, Typed
  <2>3. Key(r) \notin raced => ~Live(Key(r))'
    BY <1>0, <1>2, <1>3, <1>5 DEF CalmWhenDown, Live
  <2>4. stage'[r] = "execute"
    BY <2>1 DEF Typed
  <2>5. CalmWhenDown' /\ OneAsker' /\ Ordered'
    BY <1>0, <1>1, <2>3, <2>4, StepOfOne
  <2> QED BY <1>1, <2>2, <2>5
<1> QED BY <1>4, <1>5

LEMMA ExecuteKeeps ==
  ASSUME NEW r \in Requests, QueryInv, Execute(r)
  PROVE  QueryInv'
<1> USE DEF QueryInv
<1>0. /\ Serve(r) /\ stage[r] = "execute" /\ cache' = cache /\ UNCHANGED <<time, redisUp, raced>>
      /\ Key(r) \notin raced => ~Live(Key(r))
  BY DEF Serve, Execute, Answer, OneAsker
<1>1. \/ /\ read' = [read EXCEPT ![r] = time]
         /\ stage' = [stage EXCEPT ![r] = "store"] /\ response' = response
      \/ /\ read' = read
         /\ stage' = [stage EXCEPT ![r] = "done"]
         /\ \E status \in {"400", "500", "error", "empty"} :
              response' = [response EXCEPT ![r] = status]
  BY QueryAssumption, ServeFrame, <1>0
     DEF Execute, Answer, StatusOfFailure, Typed, QueryAssumption, Asked
<1>2. Typed'
  BY <1>0, <1>1, ServeFrame DEF Typed, Asked, Answered
<1>3. BoundedAge' /\ Past'
  BY <1>0, <1>1, Constants DEF BoundedAge, Past, Typed
<1>4. Key(r) \notin raced => ~Live(Key(r))'
  BY <1>0, ServeFrame DEF Live
<1>5. \A s \in Requests : (Rows(s)' /\ stage'[r] = "store") => read'[s] <= read'[r]
  BY <1>0, <1>1 DEF Past, Typed
<1> QED BY <1>0, <1>2, <1>3, <1>4, <1>5, StepOfOne

LEMMA StoreKeeps ==
  ASSUME NEW r \in Requests, QueryInv, Store(r)
  PROVE  QueryInv'
<1> USE DEF QueryInv
<1>0. /\ Serve(r) /\ stage[r] = "store" /\ UNCHANGED <<time, redisUp, raced, read, question>>
      /\ stage' = [stage EXCEPT ![r] = "done"] /\ response' = [response EXCEPT ![r] = "rows"]
      /\ Key(r) \in Keys /\ Open(r)
  BY ServeFrame DEF Serve, Store
<1>1. cache' = cache \/ (redisUp /\ cache' = [cache EXCEPT ![Key(r)] =
                           [readAt |-> read[r], expires |-> time + TimeToLive(Key(r))]])
  BY DEF Store
<1>2. Typed'
  BY <1>0, <1>1, Constants DEF Typed, Asked, Answered
<1>3. BoundedAge' /\ Past'
  BY <1>0, <1>1, Constants DEF BoundedAge, Past, Typed
<1>4. stage'[r] \notin {"execute", "store"}
  BY <1>0 DEF Typed
<1>5. \A s \in Requests : (Rows(s)' /\ Key(s) = Key(r) /\ Key(r) \notin raced) =>
        /\ read'[s] <= read[r]
        /\ Live(Key(r)) /\ s # r => read[s] <= cache[Key(r)].readAt
  BY <1>0 DEF Ordered, Rows, Typed
<1>6. \A s \in Requests :
        (Rows(s)' /\ Key(s) = Key(r) /\ Key(r) \notin raced /\ Live(Key(r))') =>
          read'[s] <= cache'[Key(r)].readAt
  <2>1. CASE redisUp
    <3>1. cache'[Key(r)].readAt = read[r]
      BY <2>1, <1>0 DEF Store, Typed
    <3> QED BY <3>1, <1>5
  <2>2. CASE ~redisUp
    <3>1. Key(r) \notin raced => ~Live(Key(r))'
      BY <2>2, <1>0, <1>1 DEF CalmWhenDown, Live
    <3> QED BY <3>1
  <2> QED BY <2>1, <2>2 DEF Typed
<1>7. \A k \in Keys \ {Key(r)} : cache'[k] = cache[k]
  BY <1>1 DEF Typed
<1> QED BY <1>0, <1>1, <1>2, <1>3, <1>4, <1>6, <1>7, StepOfOne

LEMMA TickKeeps ==
  ASSUME QueryInv, Tick
  PROVE  QueryInv'
<1> USE DEF QueryInv
<1>1. /\ time' = time + 1
      /\ \A r \in Requests : stage[r] = "store" => time < read[r] + MaxLag
      /\ UNCHANGED <<redisUp, cache, stage, question, read, response, raced>>
  BY DEF Tick
<1>2. Typed'
  BY <1>1 DEF Typed, Asked, Answered
<1>3. BoundedAge' /\ Past'
  BY <1>1, Constants DEF BoundedAge, Past, Typed
<1>4. \A k \in Keys : Live(k)' => Live(k)
  BY <1>1 DEF Live, Typed
<1>5. \A r \in Requests : /\ Key(r)' = Key(r) /\ Open(r)' = Open(r) /\ Rows(r)' = Rows(r)
                          /\ Asked(r) => Key(r) \in Keys
  BY <1>1, Constants DEF Key, Open, Asked, Answered, Rows, Typed
<1>6. CalmWhenDown'
  BY <1>1, <1>4, <1>5 DEF CalmWhenDown
<1>7. OneAsker'
  BY <1>1, <1>4, <1>5 DEF OneAsker, Asked, Live
<1>8. Ordered'
  BY <1>1, <1>4, <1>5 DEF Ordered, Asked, Live, Rows, Typed, Answered
<1> QED BY <1>2, <1>3, <1>6, <1>7, <1>8

LEMMA RedisFailsKeeps ==
  ASSUME QueryInv, RedisFails
  PROVE  QueryInv'
<1> USE DEF QueryInv
<1>1. /\ redisUp' = FALSE
      /\ raced' = raced \union {k \in Keys : Live(k)}
                        \union {Key(r) : r \in {r \in Requests : Open(r)}}
      /\ UNCHANGED <<time, cache, stage, question, read, response>>
  BY DEF RedisFails
<1>2. Typed' /\ BoundedAge' /\ Past'
  BY <1>1 DEF Typed, BoundedAge, Past, Asked, Answered
<1>3. /\ \A k \in Keys : Live(k)' = Live(k)
      /\ \A r \in Requests : Key(r)' = Key(r) /\ Open(r)' = Open(r) /\ Rows(r)' = Rows(r)
  BY <1>1 DEF Live, Key, Open, Asked, Answered, Rows
<1>4. CalmWhenDown'
  BY <1>1, <1>3 DEF CalmWhenDown
<1>5. OneAsker'
  BY <1>1, <1>3 DEF OneAsker, Live
<1>6. Ordered'
  BY <1>1, <1>3 DEF Ordered, Live
<1> QED BY <1>2, <1>4, <1>5, <1>6

LEMMA RedisRecoversKeeps ==
  ASSUME QueryInv, RedisRecovers
  PROVE  QueryInv'
<1> USE DEF QueryInv
<1>1. /\ redisUp' = TRUE
      /\ cache' = cache \/ cache' = [k \in Keys |-> NoEntry]
      /\ UNCHANGED <<time, stage, question, read, response, raced>>
  BY DEF RedisRecovers
<1>2. Typed'
  BY <1>1 DEF Typed, NoEntry, Asked, Answered
<1>3. BoundedAge' /\ Past'
  BY <1>1, Constants DEF BoundedAge, Past, NoEntry, Typed
<1>4. /\ \A k \in Keys : Live(k)' => Live(k) /\ cache'[k] = cache[k]
      /\ \A r \in Requests : /\ Key(r)' = Key(r) /\ Open(r)' = Open(r) /\ Rows(r)' = Rows(r)
                             /\ Asked(r) => Key(r) \in Keys
  BY <1>1, Constants DEF Live, NoEntry, Key, Open, Asked, Answered, Rows, Typed
<1>5. CalmWhenDown'
  BY <1>1 DEF CalmWhenDown
<1>6. OneAsker'
  BY <1>1, <1>4 DEF OneAsker, Live, Asked
<1>7. Ordered'
  BY <1>1, <1>4 DEF Ordered, Live, Asked, Rows, Typed, Answered
<1> QED BY <1>2, <1>3, <1>5, <1>6, <1>7

LEMMA NextKeeps == QueryInv /\ [QueryNext]_queryVars => QueryInv'
<1> SUFFICES ASSUME QueryInv, [QueryNext]_queryVars PROVE QueryInv'
  OBVIOUS
<1>1. ASSUME NEW r \in Requests, Ask(r) PROVE QueryInv'
  BY <1>1, AskKeeps
<1>2. ASSUME NEW r \in Requests, Serve(r) PROVE QueryInv'
  BY <1>2, LookupKeeps, ExecuteKeeps, StoreKeeps DEF Serve
<1>3. CASE Tick
  BY <1>3, TickKeeps
<1>4. CASE RedisFails
  BY <1>4, RedisFailsKeeps
<1>5. CASE RedisRecovers
  BY <1>5, RedisRecoversKeeps
<1>6. CASE UNCHANGED queryVars
  BY <1>6 DEF queryVars, QueryInv, Typed, BoundedAge, Past, CalmWhenDown, OneAsker, Ordered,
              Asked, Answered, Open, Key, Live, Rows
<1> QED BY <1>1, <1>2, <1>3, <1>4, <1>5, <1>6 DEF QueryNext

(* QueryInv is inductive: entries and pending stores are as old as their   *)
(* times to live allow, and a key that was never raced has one asker and   *)
(* answers in the order they were read.                                    *)
THEOREM QueryInvariant == QuerySpec => []QueryInv
<1>1. QueryInit => QueryInv
  BY InitQueryInv
<1>2. QueryInv /\ [QueryNext]_queryVars => QueryInv'
  BY NextKeeps
<1> QED BY <1>1, <1>2, PTL DEF QuerySpec

(* Only a hit and a store answer with rows.                                *)
LEMMA OnlyTwoAnswer ==
  ASSUME QueryInv, [QueryNext]_queryVars, NEW r \in Requests, Answering(r)
  PROVE  \/ Lookup(r) /\ Live(Key(r)) /\ read' = [read EXCEPT ![r] = cache[Key(r)].readAt]
         \/ Store(r)
<1> USE DEF Answering, QueryInv
<1>1. ASSUME NEW s \in Requests, Ask(s) PROVE FALSE
  BY <1>1, AskEffect DEF Typed, Rows, Answered
<1>2. ASSUME NEW s \in Requests, Serve(s) PROVE s = r
  BY <1>2, ServeFrame DEF Open, Rows, Answered, Typed
<1>3. ~(Tick \/ RedisFails \/ RedisRecovers \/ UNCHANGED queryVars)
  BY DEF Tick, RedisFails, RedisRecovers, queryVars, Answered
<1>4. Serve(r)
  BY <1>1, <1>2, <1>3 DEF QueryNext
<1>5. ~Execute(r)
  BY QueryAssumption DEF Execute, Answer, StatusOfFailure, Typed, QueryAssumption, Asked,
                         Answered, Rows
<1>6. Lookup(r) => Live(Key(r)) /\ read' = [read EXCEPT ![r] = cache[Key(r)].readAt]
  BY DEF Lookup, Answered
<1> QED BY <1>4, <1>5, <1>6 DEF Serve

(* AnswersAreFresh, for every number of requests, keys and outages: what   *)
(* QueryEngine answers from its cache is never older than the time to live *)
(* of the key and the delay of one SETEX allow (engine.py 60-96).          *)
THEOREM AnswersStayFresh == QuerySpec => AnswersAreFresh
<1>1. QueryInv /\ [QueryNext]_queryVars =>
        \A r \in Requests : Answering(r) => time < read'[r] + TimeToLive(Key(r)) + MaxLag
  <2> SUFFICES ASSUME QueryInv, [QueryNext]_queryVars, NEW r \in Requests, Answering(r)
               PROVE  time < read'[r] + TimeToLive(Key(r)) + MaxLag
    OBVIOUS
  <2>1. Serve(r) /\ Key(r) \in Keys
    BY OnlyTwoAnswer, ServeFrame DEF Serve
  <2>2. CASE Live(Key(r)) /\ read' = [read EXCEPT ![r] = cache[Key(r)].readAt]
    BY <2>1, <2>2, Constants DEF QueryInv, BoundedAge, Live, Typed
  <2>3. CASE Store(r)
    BY <2>1, <2>3, Constants DEF QueryInv, BoundedAge, Store, Typed
  <2> QED BY <2>2, <2>3, OnlyTwoAnswer
<1> QED BY <1>1, QueryInvariant, PTL DEF QuerySpec, AnswersAreFresh

(* NeverBackwards, for every interleaving of the lookups and stores of any *)
(* number of requests: with no overlap and no outage the cache never       *)
(* answers a question with rows older than it answered before.             *)
THEOREM AnswersStayMonotone == QuerySpec => NeverBackwards
<1>1. QueryInv /\ [QueryNext]_queryVars =>
        \A r, s \in Requests :
          (/\ Answering(r) /\ Answered(s) /\ Rows(s)
           /\ Key(r) = Key(s) /\ Key(r) \notin raced)
          => read'[r] >= read[s]
  <2> SUFFICES ASSUME QueryInv, [QueryNext]_queryVars, NEW r \in Requests, NEW s \in Requests,
                      Answering(r), Rows(s), Key(r) = Key(s), Key(r) \notin raced
               PROVE  read'[r] >= read[s]
    OBVIOUS
  <2>1. Key(r) \in Keys
    BY OnlyTwoAnswer, ServeFrame DEF Serve
  <2>2. CASE Live(Key(r)) /\ read' = [read EXCEPT ![r] = cache[Key(r)].readAt]
    BY <2>1, <2>2 DEF QueryInv, Ordered, Typed
  <2>3. CASE Store(r)
    BY <2>3 DEF QueryInv, Ordered, Store, Typed
  <2> QED BY <2>2, <2>3, OnlyTwoAnswer
<1> QED BY <1>1, QueryInvariant, PTL DEF QuerySpec, NeverBackwards

-----------------------------------------------------------------------------
(* The types with their bounds: the limiter counts a request once.         *)
AskedOnes == {r \in Requests : Asked(r)}

QueryBounds ==
  /\ time \in 0..MaxTime /\ outages \in 0..MaxOutages
  /\ cache \in [Keys -> [readAt : 0..MaxTime, expires : 0..(MaxTime + 2)]]
  /\ counted \in 0..Cardinality(AskedOnes)
  /\ read \in [Requests -> 0..MaxTime]
  /\ raced \in SUBSET Keys

LEMMA AskedFinite == IsFiniteSet(AskedOnes) /\ Cardinality(AskedOnes) \in Nat
<1>1. AskedOnes \subseteq Requests /\ IsFiniteSet(Requests)
  BY QueryAssumption DEF AskedOnes, QueryAssumption
<1>2. IsFiniteSet(AskedOnes)
  BY <1>1, FS_Subset
<1> QED BY <1>2, FS_CardinalityType

LEMMA AskBounds ==
  ASSUME NEW r \in Requests, QueryInv, QueryBounds, Ask(r)
  PROVE  QueryBounds'
<1>1. PICK q \in Questions :
           /\ stage[r] = "idle"
           /\ question' = [question EXCEPT ![r] = q]
           /\ raced \subseteq raced'
           /\ KeyOf(q) \in raced' \/ (redisUp /\ \A s \in Requests : Open(s) => Key(s) # KeyOf(q))
           /\ \/ stage' = [stage EXCEPT ![r] = "lookup"] /\ response' = response
              \/ /\ stage' = [stage EXCEPT ![r] = "done"]
                 /\ response' = [response EXCEPT ![r] = "429"]
           /\ UNCHANGED <<time, redisUp, outages, cache, read>>
  BY AskEffect
<1>2. raced' \in SUBSET Keys
  BY Constants DEF Ask, QueryBounds
<1>3. counted' = counted \/ counted' = counted + 1
  BY DEF Ask, RateLimit
<1>4. AskedOnes' = AskedOnes \union {r} /\ r \notin AskedOnes
  BY <1>1 DEF AskedOnes, Asked, QueryInv, Typed
<1>5. Cardinality(AskedOnes') = Cardinality(AskedOnes) + 1
  BY <1>4, AskedFinite, FS_AddElement
<1> DEFINE n == Cardinality(AskedOnes)
<1>6. n \in Nat /\ counted \in 0..n /\ Cardinality(AskedOnes') = n + 1
  BY <1>5, AskedFinite DEF QueryBounds
<1> HIDE DEF n
<1>7. counted' \in 0..Cardinality(AskedOnes')
  BY <1>3, <1>6
<1> QED BY <1>1, <1>2, <1>7 DEF QueryBounds

LEMMA OtherBounds ==
  ASSUME QueryInv, QueryBounds,
         \/ \E r \in Requests : Serve(r)
         \/ Tick \/ RedisFails \/ RedisRecovers \/ UNCHANGED queryVars
  PROVE  QueryBounds'
<1> USE DEF QueryBounds
<1>1. AskedOnes' = AskedOnes
  <2>1. ASSUME NEW r \in Requests, Serve(r)
        PROVE  AskedOnes' = AskedOnes
    <3>1. stage[r] # "idle" /\ stage'[r] # "idle" /\ \A s \in Requests \ {r} : stage'[s] = stage[s]
      <4>1. CASE Lookup(r)
        BY <4>1 DEF Lookup, Answer, QueryInv, Typed
      <4>2. CASE Execute(r)
        BY <4>2 DEF Execute, Answer, QueryInv, Typed
      <4>3. CASE Store(r)
        BY <4>3 DEF Store, QueryInv, Typed
      <4> QED BY <2>1, <4>1, <4>2, <4>3 DEF Serve
    <3> QED BY <3>1 DEF AskedOnes, Asked
  <2>2. CASE Tick \/ RedisFails \/ RedisRecovers \/ UNCHANGED queryVars
    BY <2>2 DEF Tick, RedisFails, RedisRecovers, queryVars, AskedOnes, Asked
  <2> QED BY <2>1, <2>2
<1>2. counted' = counted \/ counted' = 0
  BY DEF Serve, Lookup, Execute, Store, Tick, RedisFails, RedisRecovers, queryVars
<1>3. counted' \in 0..Cardinality(AskedOnes')
  <2> DEFINE n == Cardinality(AskedOnes)
  <2>1. n \in Nat /\ counted \in 0..n /\ Cardinality(AskedOnes') = n
    BY <1>1, AskedFinite
  <2> HIDE DEF n
  <2> QED BY <1>2, <2>1
<1>4. ASSUME NEW r \in Requests, Serve(r)
      PROVE  /\ UNCHANGED <<time, outages, raced>>
             /\ cache' \in [Keys -> [readAt : 0..MaxTime, expires : 0..(MaxTime + 2)]]
             /\ read' \in [Requests -> 0..MaxTime]
  <2>1. Key(r) \in Keys /\ TimeToLive(Key(r)) \in {1, 2}
    BY <1>4, ServeFrame, Constants
  <2>2. CASE Lookup(r)
    BY <2>1, <2>2 DEF Lookup, Answer
  <2>3. CASE Execute(r)
    BY <2>1, <2>3 DEF Execute, Answer
  <2>4. CASE Store(r)
    <3>1. time + TimeToLive(Key(r)) \in 0..(MaxTime + 2)
      BY <2>1, QueryAssumption DEF QueryAssumption
    <3>2. [readAt |-> read[r], expires |-> time + TimeToLive(Key(r))]
            \in [readAt : 0..MaxTime, expires : 0..(MaxTime + 2)]
      BY <3>1
    <3> QED BY <2>1, <2>4, <3>2 DEF Store
  <2> QED BY <1>4, <2>2, <2>3, <2>4 DEF Serve
<1>5. CASE Tick
  BY <1>3, <1>5, QueryAssumption DEF Tick, QueryAssumption
<1>6. CASE RedisFails
  <2>1. outages' \in 0..MaxOutages
    BY <1>6, QueryAssumption DEF RedisFails, QueryAssumption
  <2>2. \A r \in Requests : Open(r) => Key(r) \in Keys
    BY Constants DEF Open, Key, QueryInv, Typed
  <2>3. raced' \in SUBSET Keys
    BY <1>6, <2>2 DEF RedisFails
  <2> QED BY <1>3, <1>6, <2>1, <2>3 DEF RedisFails
<1>7. CASE RedisRecovers
  <2>1. NoEntry \in [readAt : 0..MaxTime, expires : 0..(MaxTime + 2)]
    BY QueryAssumption DEF NoEntry, QueryAssumption
  <2> QED BY <1>3, <1>7, <2>1 DEF RedisRecovers
<1>8. CASE UNCHANGED queryVars
  BY <1>3, <1>8 DEF queryVars
<1> QED BY <1>3, <1>4, <1>5, <1>6, <1>7, <1>8

LEMMA QueryTypes == QuerySpec => []QueryTypeOK
<1>1. QueryInit => QueryBounds
  <2> SUFFICES ASSUME QueryInit
               PROVE  QueryBounds
    OBVIOUS
  <2>1. NoEntry \in [readAt : 0..MaxTime, expires : 0..(MaxTime + 2)] /\ 0 \in 0..MaxTime
        /\ 0 \in 0..MaxOutages
    BY QueryAssumption DEF NoEntry, QueryAssumption
  <2>2. 0 \in 0..Cardinality(AskedOnes)
    <3> DEFINE n == Cardinality(AskedOnes)
    <3>1. n \in Nat
      BY AskedFinite
    <3> HIDE DEF n
    <3> QED BY <3>1 DEF n
  <2> QED BY <2>1, <2>2 DEF QueryInit, QueryBounds
<1>2. QueryInv /\ QueryBounds /\ [QueryNext]_queryVars => QueryBounds'
  BY AskBounds, OtherBounds DEF QueryNext
<1>3. QueryInv /\ QueryBounds => QueryTypeOK
  <2> SUFFICES ASSUME QueryInv, QueryBounds
               PROVE  QueryTypeOK
    OBVIOUS
  <2>1. AskedOnes \subseteq Requests /\ IsFiniteSet(Requests)
    BY QueryAssumption DEF AskedOnes, QueryAssumption
  <2> DEFINE n == Cardinality(AskedOnes)
             k == Cardinality(Requests)
  <2>2. n <= k /\ n \in Nat
    BY <2>1, FS_Subset, AskedFinite
  <2>3. k \in Nat
    BY <2>1, FS_CardinalityType
  <2>4. counted \in 0..n
    BY DEF QueryBounds
  <2> HIDE DEF n, k
  <2>5. counted \in 0..k
    BY <2>2, <2>3, <2>4
  <2> QED BY <2>5 DEF QueryInv, Typed, QueryBounds, QueryTypeOK, k
<1> QED BY <1>1, <1>2, <1>3, QueryInvariant, PTL DEF QuerySpec

-----------------------------------------------------------------------------
(***************************************************************************)
(* The tail is honest for any number of lines, any filter and any rate.    *)
(* The lines with the client, yielded and queued are one sequence, Got,    *)
(* which only grows at its end: what moves a line along leaves it alone.   *)
(* Lines that are not yet taken are later than all of it.                  *)
(***************************************************************************)

Increasing(s) == \A i, j \in DOMAIN s : i < j => s[i] < s[j]
Precede(s, t) == \A i \in DOMAIN s : \A j \in DOMAIN t : s[i] < t[j]
UpTo(s, n) == \A i \in DOMAIN s : s[i] <= n

Shapes ==
  /\ tailSent \in Seq(Matching) /\ event \in Seq(Matching) /\ queue \in Seq(Matching)
  /\ inbox \in Seq(Lines)
  /\ matched \in Nat /\ dropped \in Nat /\ redelivered \in Nat
  /\ published \in 0..MaxLines
  /\ unacked \subseteq Lines

(* A line is out of the queue only while the route is to send it.          *)
OneInHand ==
  /\ generator # "yielded" => event = <<>>
  /\ handler = "accepted" => generator = "new"
  /\ handler \in {"leaving", "left"} => event = <<>> /\ generator # "waiting"

Counted == client => Len(Got) + dropped = matched

InOrder ==
  client /\ redelivered = 0 =>
    /\ Increasing(Got) /\ Increasing(inbox) /\ Precede(Got, inbox)
    /\ UpTo(Got, published) /\ UpTo(inbox, published)

TailIInv == Shapes /\ OneInHand /\ Counted /\ InOrder

-----------------------------------------------------------------------------
(* What the end of a sequence of numbers does to its order.                *)
LEMMA AppendOrder ==
  ASSUME NEW s \in Seq(Int), NEW n \in Int
  PROVE  /\ Append(s, n) \in Seq(Int)
         /\ Len(Append(s, n)) = Len(s) + 1
         /\ Increasing(s) /\ (\A i \in DOMAIN s : s[i] < n) => Increasing(Append(s, n))
         /\ \A m \in Int : UpTo(s, m) /\ n <= m => UpTo(Append(s, n), m)
         /\ \A t \in Seq(Int) : /\ Precede(s, t) /\ (\A j \in DOMAIN t : n < t[j])
                                   => Precede(Append(s, n), t)
                                /\ Precede(t, s) /\ (\A j \in DOMAIN t : t[j] < n)
                                   => Precede(t, Append(s, n))
<1>1. /\ Append(s, n) \in Seq(Int)
      /\ Len(s) \in Nat
      /\ DOMAIN s = 1..Len(s)
      /\ DOMAIN Append(s, n) = 1..Len(s)+1
      /\ Len(Append(s, n)) = Len(s) + 1
      /\ Append(s, n)[Len(s)+1] = n
      /\ \A i \in 1..Len(s) : Append(s, n)[i] = s[i] /\ s[i] \in Int
  OBVIOUS
<1>2. \A i \in DOMAIN Append(s, n) : i \in DOMAIN s \/ i = Len(s) + 1
  BY <1>1
<1>3. Increasing(s) /\ (\A i \in DOMAIN s : s[i] < n) => Increasing(Append(s, n))
  BY <1>1, <1>2 DEF Increasing
<1>4. \A m \in Int : UpTo(s, m) /\ n <= m => UpTo(Append(s, n), m)
  BY <1>1, <1>2 DEF UpTo
<1>5. \A t \in Seq(Int) : /\ Precede(s, t) /\ (\A j \in DOMAIN t : n < t[j])
                             => Precede(Append(s, n), t)
                          /\ Precede(t, s) /\ (\A j \in DOMAIN t : t[j] < n)
                             => Precede(t, Append(s, n))
  BY <1>1, <1>2 DEF Precede
<1> QED BY <1>1, <1>3, <1>4, <1>5

LEMMA TailOrder ==
  ASSUME NEW s \in Seq(Int), s # <<>>
  PROVE  /\ Tail(s) \in Seq(Int)
         /\ Head(s) \in Int
         /\ Increasing(s) => /\ Increasing(Tail(s))
                             /\ \A j \in DOMAIN Tail(s) : Head(s) < Tail(s)[j]
         /\ \A m \in Int : UpTo(s, m) => UpTo(Tail(s), m) /\ Head(s) <= m
         /\ \A t \in Seq(Int) : Precede(t, s) => /\ Precede(t, Tail(s))
                                                 /\ \A j \in DOMAIN t : t[j] < Head(s)
<1>1. Len(s) \in Nat \ {0}
  BY EmptySeq
<1>2. /\ Tail(s) \in Seq(Int)
      /\ DOMAIN s = 1..Len(s)
      /\ DOMAIN Tail(s) = 1..Len(s)-1
      /\ Head(s) = s[1]
      /\ \A i \in 1..Len(s)-1 : Tail(s)[i] = s[i+1]
      /\ \A i \in 1..Len(s) : s[i] \in Int
  BY <1>1, HeadTailProperties
<1>3. 1 \in DOMAIN s /\ \A i \in DOMAIN Tail(s) : i + 1 \in DOMAIN s /\ 1 < i + 1 /\ i \in Int
  BY <1>1, <1>2
<1>4. Increasing(s) => /\ Increasing(Tail(s))
                       /\ \A j \in DOMAIN Tail(s) : Head(s) < Tail(s)[j]
  BY <1>2, <1>3 DEF Increasing
<1>5. \A m \in Int : UpTo(s, m) => UpTo(Tail(s), m) /\ Head(s) <= m
  BY <1>2, <1>3 DEF UpTo
<1>6. \A t \in Seq(Int) : Precede(t, s) => /\ Precede(t, Tail(s))
                                           /\ \A j \in DOMAIN t : t[j] < Head(s)
  BY <1>2, <1>3 DEF Precede
<1> QED BY <1>2, <1>3, <1>4, <1>5, <1>6

-----------------------------------------------------------------------------
LEMMA GotTyped ==
  ASSUME Shapes
  PROVE  /\ Got \in Seq(Matching) /\ Got \in Seq(Int)
         /\ inbox \in Seq(Int)
         /\ published \in Int
<1>1. Matching \subseteq Int /\ Lines \subseteq Int
  BY TailAssumption DEF TailAssumption, Lines
<1>2. Got \in Seq(Matching)
  BY ConcatProperties DEF Shapes, Got
<1>3. inbox \in Seq(Lines)
  BY DEF Shapes
<1>4. published \in Int
  BY TailAssumption DEF Shapes, TailAssumption
<1> QED BY <1>1, <1>2, <1>3, <1>4, SeqMonotonic

(* A line that matched joins the end of Got, or is counted as dropped.     *)
LEMMA EnqueueEffect ==
  ASSUME Shapes, NEW line \in Matching, Enqueue(line), UNCHANGED <<tailSent, event>>
  PROVE  /\ queue' \in Seq(Matching) /\ dropped' \in Nat
         /\ \/ Got' = Append(Got, line) /\ dropped' = dropped
            \/ Got' = Got /\ dropped' = dropped + 1
<1>1. CASE queue' = Append(queue, line) /\ dropped' = dropped
  <2>1. tailSent \o event \in Seq(Matching) /\ queue \in Seq(Matching)
    BY ConcatProperties DEF Shapes
  <2>2. (tailSent \o event) \o Append(queue, line) = Append((tailSent \o event) \o queue, line)
    <3>1. /\ Append(queue, line) = queue \o <<line>>
          /\ <<line>> \in Seq(Matching)
      BY <2>1, AppendIsConcat
    <3>2. ((tailSent \o event) \o queue) \o <<line>> = (tailSent \o event) \o (queue \o <<line>>)
      BY <2>1, <3>1, ConcatAssociative
    <3>3. (tailSent \o event) \o queue \in Seq(Matching)
      BY <2>1, ConcatProperties
    <3> QED BY <3>1, <3>2, <3>3, AppendIsConcat
  <2> QED BY <1>1, <2>1, <2>2, AppendProperties DEF Got, Shapes
<1>2. CASE queue' = queue /\ dropped' = dropped + 1
  BY <1>2 DEF Got, Shapes
<1> QED BY <1>1, <1>2 DEF Enqueue

LEMMA InitTail == TailInit => TailIInv
<1> SUFFICES ASSUME TailInit PROVE TailIInv
  OBVIOUS
<1>1. Shapes
  BY TailAssumption, EmptySeq DEF TailInit, TailAssumption, Shapes
<1>2. Got = <<>> /\ Len(Got) = 0
  BY DEF TailInit, Got
<1> QED BY <1>1, <1>2 DEF TailInit, TailIInv, OneInHand, Counted, InOrder, Increasing, Precede, UpTo

(* Of what no step but its own changes.                                    *)
LEMMA Moves ==
  ASSUME TailIInv, Shapes', OneInHand', Got' = Got, client' => client,
         UNCHANGED <<inbox, matched, dropped, published, redelivered>>
  PROVE  TailIInv'
BY DEF TailIInv, Counted, InOrder, Increasing, Precede, UpTo

LEMMA YieldLineKeeps == ASSUME TailIInv, YieldLine PROVE TailIInv'
<1>1. /\ event = <<>> /\ queue # <<>> /\ queue \in Seq(Matching) /\ tailSent \in Seq(Matching)
      /\ event' = <<Head(queue)>> /\ queue' = Tail(queue) /\ generator' = "yielded"
      /\ UNCHANGED <<handler, client, tailSent, inbox, matched, dropped, published, redelivered>>
      /\ UNCHANGED unacked
  BY DEF YieldLine, TailIInv, Shapes, OneInHand, server, tailStats
<1>2. /\ Head(queue) \in Matching /\ Tail(queue) \in Seq(Matching)
      /\ <<Head(queue)>> \in Seq(Matching)
      /\ <<Head(queue)>> \o Tail(queue) = queue
  BY <1>1, HeadTailProperties
<1>3. Got' = Got
  <2>1. (tailSent \o <<Head(queue)>>) \o Tail(queue) = tailSent \o queue
    BY <1>1, <1>2, ConcatAssociative
  <2>2. tailSent \o <<>> = tailSent
    BY <1>1, ConcatEmptySeq
  <2> QED BY <1>1, <2>1, <2>2 DEF Got
<1>4. Shapes'
  BY <1>1, <1>2 DEF TailIInv, Shapes
<1>5. OneInHand'
  BY <1>1 DEF YieldLine, TailIInv, OneInHand
<1> QED BY <1>1, <1>3, <1>4, <1>5, Moves

LEMMA SendKeeps == ASSUME TailIInv, Send PROVE TailIInv'
<1>1. /\ event' = <<>> /\ event \in Seq(Matching) /\ tailSent \in Seq(Matching)
      /\ queue \in Seq(Matching)
      /\ UNCHANGED <<client, queue, inbox, matched, dropped, published, redelivered, unacked>>
  BY DEF Send, TailIInv, Shapes, server, tailStats
<1>2. CASE client
  <2>1. tailSent' = tailSent \o event /\ generator' = "waiting" /\ handler' = "streaming"
    BY <1>2 DEF Send
  <2>2. tailSent \o event \in Seq(Matching) /\ (tailSent \o event) \o <<>> = tailSent \o event
    BY <1>1, ConcatProperties, ConcatEmptySeq
  <2>3. Got' = Got
    BY <1>1, <2>1, <2>2 DEF Got
  <2>4. Shapes' /\ OneInHand'
    BY <1>1, <2>1, <2>2, EmptySeq DEF TailIInv, Shapes, OneInHand
  <2> QED BY <1>1, <2>3, <2>4, Moves
<1>3. CASE ~client
  <2>1. Shapes' /\ OneInHand'
    BY <1>1, <1>3, EmptySeq DEF Send, TailIInv, Shapes, OneInHand
  <2> QED BY <1>1, <1>3, <2>1 DEF TailIInv, Counted, InOrder
<1> QED BY <1>2, <1>3

(* A line is taken: it is later than all of Got, earlier than what is left.*)
LEMMA HandleKeeps == ASSUME TailIInv, Handle PROVE TailIInv'
<1> DEFINE line == Head(inbox)
<1>1. /\ inbox # <<>> /\ inbox \in Seq(Lines) /\ inbox' = Tail(inbox)
      /\ UNCHANGED <<handler, event, client, generator, published, tailSent, redelivered, unacked>>
      /\ Shapes /\ OneInHand
  BY DEF Handle, TailIInv, Shapes
<1>2. line \in Lines /\ Tail(inbox) \in Seq(Lines) /\ line \in Int
  <2>1. line \in Lines /\ Tail(inbox) \in Seq(Lines)
    BY <1>1, HeadTailProperties
  <2>2. Lines \subseteq Int
    BY DEF Lines
  <2> QED BY <2>1, <2>2
<1>3. /\ Got \in Seq(Int) /\ inbox \in Seq(Int) /\ published \in Int
      /\ Len(Got) \in Nat /\ matched \in Nat /\ dropped \in Nat
  BY <1>1, GotTyped DEF Shapes
<1>4. client /\ redelivered = 0 =>
        /\ Increasing(Tail(inbox)) /\ UpTo(Tail(inbox), published) /\ line <= published
        /\ \A j \in DOMAIN Tail(inbox) : line < Tail(inbox)[j]
        /\ Precede(Got, Tail(inbox)) /\ \A i \in DOMAIN Got : Got[i] < line
  BY <1>1, <1>3, TailOrder DEF TailIInv, InOrder
<1>5. CASE line \in Matching
  <2>1. /\ matched' = matched + 1
        /\ queue' \in Seq(Matching) /\ dropped' \in Nat
        /\ \/ Got' = Append(Got, line) /\ dropped' = dropped
           \/ Got' = Got /\ dropped' = dropped + 1
    BY <1>1, <1>5, EnqueueEffect DEF Handle
  <2>2. Shapes' /\ OneInHand'
    BY <1>1, <1>2, <1>3, <2>1 DEF Shapes, OneInHand
  <2>3. Len(Append(Got, line)) = Len(Got) + 1
    BY <1>2, <1>3, AppendOrder
  <2>4. Counted'
    BY <1>1, <1>3, <2>1, <2>3 DEF TailIInv, Counted
  <2>5. CASE Got' = Append(Got, line)
    <3>1. client /\ redelivered = 0 =>
            /\ Increasing(Append(Got, line)) /\ UpTo(Append(Got, line), published)
            /\ Precede(Append(Got, line), Tail(inbox))
      <4>1. Tail(inbox) \in Seq(Int)
        BY <1>1, <1>3, TailOrder
      <4> HIDE DEF line
      <4> QED BY <1>2, <1>3, <1>4, <4>1, AppendOrder DEF TailIInv, InOrder
    <3> QED BY <1>1, <1>4, <2>2, <2>4, <2>5, <3>1 DEF TailIInv, InOrder
  <2>6. CASE Got' = Got
    BY <1>1, <1>4, <2>2, <2>4, <2>6 DEF TailIInv, InOrder
  <2> QED BY <2>1, <2>5, <2>6
<1>6. CASE line \notin Matching
  <2>1. UNCHANGED <<matched, dropped, queue>>
    BY <1>6 DEF Handle, tailStats
  <2>2. Got' = Got
    BY <1>1, <2>1 DEF Got
  <2>3. Shapes' /\ OneInHand'
    BY <1>1, <1>2, <2>1 DEF Shapes, OneInHand
  <2>4. Counted'
    BY <1>1, <2>1, <2>2 DEF TailIInv, Counted
  <2> QED BY <1>1, <1>4, <2>2, <2>3, <2>4 DEF TailIInv, InOrder
<1> QED BY <1>5, <1>6

LEMMA PublishKeeps == ASSUME TailIInv, Publish PROVE TailIInv'
<1>1. /\ published' = published + 1 /\ published < MaxLines
      /\ UNCHANGED <<handler, event, client, generator, queue, matched, dropped, tailSent, redelivered>>
      /\ inbox' = inbox \/ inbox' = Append(inbox, published + 1)
      /\ unacked' \subseteq unacked \union {published + 1}
      /\ Shapes /\ OneInHand
  BY DEF Publish, TailIInv, tailStats
<1>2. /\ Got \in Seq(Int) /\ inbox \in Seq(Int) /\ published \in Int /\ published + 1 \in Lines
  BY <1>1, GotTyped, TailAssumption DEF Shapes, Lines, TailAssumption
<1>3. Got' = Got
  BY <1>1 DEF Got
<1>4. Shapes' /\ OneInHand'
  <2>1. Append(inbox, published + 1) \in Seq(Lines)
    BY <1>1, <1>2, AppendProperties DEF Shapes
  <2>2. published + 1 \in 0..MaxLines
    BY <1>2, TailAssumption DEF Lines, TailAssumption
  <2>3. inbox' \in Seq(Lines)
    BY <1>1, <2>1 DEF Shapes
  <2>4. unacked' \subseteq Lines
    BY <1>1, <1>2 DEF Shapes
  <2> QED BY <1>1, <2>2, <2>3, <2>4 DEF Shapes, OneInHand
<1>5. Counted'
  BY <1>1, <1>3 DEF TailIInv, Counted
<1>6. ASSUME client, redelivered = 0
      PROVE  /\ Increasing(Got) /\ Increasing(inbox') /\ Precede(Got, inbox')
             /\ UpTo(Got, published + 1) /\ UpTo(inbox', published + 1)
  <2>1. /\ Increasing(Got) /\ Increasing(inbox) /\ Precede(Got, inbox)
        /\ UpTo(Got, published) /\ UpTo(inbox, published)
    BY <1>6 DEF TailIInv, InOrder
  <2>2. \A s \in Seq(Int) : UpTo(s, published) =>
          UpTo(s, published + 1) /\ \A i \in DOMAIN s : s[i] < published + 1
    BY <1>2 DEF UpTo
  <2>3. CASE inbox' = inbox
    BY <1>2, <2>1, <2>2, <2>3
  <2>4. CASE inbox' = Append(inbox, published + 1)
    <3> DEFINE n == published + 1
    <3>1. n \in Int /\ n <= n
      BY <1>2
    <3>2. /\ UpTo(Got, n) /\ UpTo(inbox, n)
          /\ \A i \in DOMAIN Got : Got[i] < n
          /\ \A i \in DOMAIN inbox : inbox[i] < n
      BY <1>2, <2>1, <2>2
    <3> HIDE DEF n
    <3>3. Increasing(Append(inbox, n)) /\ Precede(Got, Append(inbox, n)) /\ UpTo(Append(inbox, n), n)
      BY <1>2, <2>1, <3>1, <3>2, AppendOrder
    <3> QED BY <2>1, <2>4, <3>2, <3>3 DEF n
  <2> QED BY <1>1, <2>3, <2>4
<1> QED BY <1>1, <1>3, <1>4, <1>5, <1>6 DEF TailIInv, InOrder

LEMMA RedeliverKeeps == ASSUME TailIInv, Redeliver PROVE TailIInv'
<1>1. /\ redelivered' = redelivered + 1
      /\ \E m \in unacked : inbox' = Append(inbox, m)
      /\ UNCHANGED <<handler, event, client, generator, published, queue, matched, dropped, tailSent, unacked>>
  BY DEF Redeliver, tailStats
<1>2. inbox' \in Seq(Lines)
  BY <1>1, AppendProperties DEF TailIInv, Shapes
<1>3. redelivered' \in Nat /\ redelivered' # 0
  BY <1>1 DEF TailIInv, Shapes
<1>4. Got' = Got
  BY <1>1 DEF Got
<1> QED BY <1>1, <1>2, <1>3, <1>4 DEF TailIInv, Shapes, OneInHand, Counted, InOrder

(* The other steps leave Got alone.                                        *)
LEMMA OthersKeep ==
  ASSUME TailIInv,
         \/ Subscribe \/ SubscribeFails \/ Acknowledge \/ AcknowledgeRaises \/ Heartbeat
         \/ LeaveTail \/ CloseGenerator \/ Disconnect \/ UNCHANGED tailVars
  PROVE  TailIInv'
<1>1. /\ UNCHANGED <<tailSent, queue, inbox, matched, dropped, published, redelivered>>
      /\ unacked' \subseteq unacked
      /\ client' => client
  BY DEF Subscribe, SubscribeFails, Acknowledge, AcknowledgeRaises, Heartbeat, LeaveTail,
         CloseGenerator, Disconnect, tailVars, server, tailStats
<1>2. event' = event /\ OneInHand'
  BY EmptySeq
     DEF Subscribe, SubscribeFails, Acknowledge, AcknowledgeRaises, Heartbeat, LeaveTail,
         CloseGenerator, Disconnect, tailVars, server, tailStats, TailIInv, OneInHand
<1>3. Got' = Got /\ Shapes'
  BY <1>1, <1>2 DEF Got, TailIInv, Shapes
<1> QED BY <1>1, <1>2, <1>3, Moves

LEMMA TailInductive == TailSpec => []TailIInv
<1>1. TailIInv /\ [TailNext]_tailVars => TailIInv'
  BY YieldLineKeeps, SendKeeps, HandleKeeps, PublishKeeps, RedeliverKeeps, OthersKeep
     DEF TailNext
<1> QED BY <1>1, InitTail, PTL DEF TailSpec

(* The client of a live tail is told of every line that matched: it got    *)
(* it, it will get it, or `dropped` counts it; and, unless a message came  *)
(* twice, the lines come once and in order.                                *)
THEOREM Honest == TailSpec => []TailIsHonest
<1>1. TailIInv => TailIsHonest
  BY DEF TailIInv, Counted, InOrder, TailIsHonest, Increasing
<1> QED BY <1>1, TailInductive, PTL

-----------------------------------------------------------------------------
(***************************************************************************)
(* Whatever calls overlap: an instance is listed by the create that made   *)
(* it, whose id nobody else holds before, and by nothing else.             *)
(***************************************************************************)

CallsTyped ==
  /\ listed \subseteq givenOut
  /\ reply \in [Calls -> {"none", "ok", "failed", "400", "404", "500"}]
  /\ target \in [Calls -> Instances \union {NoInstance}]
  /\ doing \in [Calls -> Ops \union {"none", "done"}]

(* Two creates never make the same instance, and what one still makes was  *)
(* never listed, so nobody can have deleted it.                            *)
FreshIds ==
  \A c \in Calls : Holds(c, "create") =>
    /\ target[c] \in givenOut \ listed
    /\ \A d \in Calls : Holds(d, "create") /\ target[d] = target[c] => d = c

CallsInv == CallsTyped /\ FreshIds

-----------------------------------------------------------------------------
LEMMA InitCalls == IntegrationInit => CallsInv
BY DEF IntegrationInit, CallsInv, CallsTyped, FreshIds, Ops, Holds

LEMMA BeginCreateKeeps ==
  ASSUME CallsInv, NEW c \in Calls, BeginCreate(c)
  PROVE  CallsInv' /\ listed' = listed
<1>1. PICK i \in Instances \ givenOut :
        givenOut' = givenOut \union {i} /\ target' = [target EXCEPT ![c] = i]
  BY DEF BeginCreate
<1>2. doing' = [doing EXCEPT ![c] = "create"] /\ UNCHANGED <<listed, reply>>
  BY DEF BeginCreate
<1>3. CallsTyped'
  BY <1>1, <1>2 DEF CallsInv, CallsTyped, Ops
<1>4. FreshIds'
  BY <1>1, <1>2 DEF CallsInv, CallsTyped, FreshIds, Holds
<1> QED BY <1>2, <1>3, <1>4 DEF CallsInv

LEMMA EndCreateKeeps ==
  ASSUME CallsInv, NEW c \in Calls, EndCreate(c)
  PROVE  /\ CallsInv'
         /\ \A i \in listed' \ listed : doing[c] = "create" /\ target[c] = i /\ reply'[c] = "ok"
<1>1. /\ doing[c] = "create"
      /\ listed' = listed \union {target[c]}
      /\ doing' = [doing EXCEPT ![c] = "done"]
      /\ reply' = [reply EXCEPT ![c] = "ok"]
      /\ UNCHANGED <<givenOut, target>>
  BY DEF EndCreate, Holds, Reply
<1>2. CallsTyped'
  BY <1>1 DEF CallsInv, CallsTyped, FreshIds, Holds
<1>3. FreshIds'
  BY <1>1 DEF CallsInv, CallsTyped, FreshIds, Holds
<1> QED BY <1>1, <1>2, <1>3 DEF CallsInv, CallsTyped

(* What begins or ends without a create: nothing new is listed, and no     *)
(* call that creates is touched.                                           *)
LEMMA OthersList ==
  ASSUME CallsInv, NEW c \in Calls, doing[c] # "create",
         \/ \E i \in Instances : Begin(c, i) \/ Delete(c, i)
         \/ EndTest(c) \/ EndSync(c) \/ EndPut(c) \/ Attempt(c) \/ SendRefused(c) \/ GiveUp(c) \/ CreateRefused(c)
  PROVE  CallsInv' /\ listed' \subseteq listed
<1>1. /\ givenOut' = givenOut /\ listed' \subseteq listed
      /\ \E o \in (Ops \ {"create"}) \union {"done"} :
           doing' = doing \/ doing' = [doing EXCEPT ![c] = o]
      /\ \E a \in {"ok", "failed", "400", "404", "500"} :
           reply' = reply \/ reply' = [reply EXCEPT ![c] = a]
      /\ target' = target \/ \E i \in Instances : target' = [target EXCEPT ![c] = i]
  <2>1. CASE \E i \in Instances : Begin(c, i)
    BY <2>1 DEF Begin, Reply, objects, Ops
  <2>2. CASE \E i \in Instances : Delete(c, i)
    BY <2>2 DEF Delete, Reply, Ops
  <2>3. CASE EndTest(c)
    BY <2>3 DEF EndTest, Settle, Reply, Ops
  <2>4. CASE EndSync(c)
    BY <2>4 DEF EndSync, Settle, Reply, Ops
  <2>5. CASE EndPut(c)
    BY <2>5 DEF EndPut, Reply, Ops
  <2>6. CASE Attempt(c) \/ SendRefused(c) \/ GiveUp(c) \/ CreateRefused(c)
    BY <2>6 DEF Attempt, SendRefused, GiveUp, CreateRefused, Reply, objects, Ops
  <2> QED BY <2>1, <2>2, <2>3, <2>4, <2>5, <2>6
<1>2. CallsTyped'
  BY <1>1 DEF CallsInv, CallsTyped
<1>3. \A d \in Calls : doing'[d] = "create" => d # c /\ doing[d] = "create" /\ target'[d] = target[d]
  BY <1>1 DEF CallsInv, CallsTyped, Ops
<1>4. FreshIds'
  BY <1>1, <1>3 DEF CallsInv, FreshIds, Holds
<1> QED BY <1>1, <1>2, <1>4 DEF CallsInv

(* Of every step: the invariant, and who lists what.                       *)
LEMMA StepLists ==
  ASSUME CallsInv, [IntegrationNext]_integrationVars
  PROVE  /\ CallsInv'
         /\ \A i \in Instances : (i \in listed' \ listed) =>
              \E c \in Calls : doing[c] = "create" /\ target[c] = i /\ reply'[c] = "ok"
<1>1. CASE \E c \in Calls : BeginCreate(c)
  BY <1>1, BeginCreateKeeps
<1>2. CASE \E c \in Calls : EndCreate(c)
  BY <1>2, EndCreateKeeps
<1>3. ASSUME NEW c \in Calls,
             \/ \E i \in Instances : Begin(c, i) \/ Delete(c, i)
             \/ EndTest(c) \/ EndSync(c) \/ EndPut(c) \/ Attempt(c) \/ SendRefused(c) \/ GiveUp(c) \/ CreateRefused(c)
      PROVE  CallsInv' /\ listed' \subseteq listed
  <2>1. doing[c] # "create"
    BY <1>3 DEF Begin, Delete, EndTest, EndSync, EndPut, Attempt, SendRefused, GiveUp, CreateRefused, Holds
  <2> QED BY <1>3, <2>1, OthersList
<1>4. CASE UNCHANGED integrationVars
  BY <1>4 DEF integrationVars, CallsInv, CallsTyped, FreshIds, Holds
<1> QED BY <1>1, <1>2, <1>3, <1>4 DEF IntegrationNext

LEMMA CallsInductive == IntegrationSpec => []CallsInv
BY InitCalls, StepLists, PTL DEF IntegrationSpec

(* Two creates never make the same instance, and an instance in the making *)
(* was never in the list, whatever is deleted meanwhile.                   *)
THEOREM IdsAreFresh == IntegrationSpec => []FreshIds
<1>1. CallsInv => FreshIds
  BY DEF CallsInv
<1> QED BY <1>1, CallsInductive, PTL

(* No test, sync, update or send that was on its way brings a deleted      *)
(* instance back into the list.                                            *)
THEOREM StaysDeleted == IntegrationSpec => DeletedStaysDeleted
<1>1. CallsInv /\ [IntegrationNext]_integrationVars =>
        [\A i \in Instances : (i \in listed' \ listed) =>
           \E c \in Calls : doing[c] = "create" /\ target[c] = i /\ reply'[c] = "ok"]_integrationVars
  BY StepLists
<1> QED BY <1>1, CallsInductive, PTL DEF IntegrationSpec, DeletedStaysDeleted

-----------------------------------------------------------------------------
(***************************************************************************)
(* The scheduler, for any monitors, locations, loops and callers.  What    *)
(* matters is who may leave the registry and the flags apart: only a call  *)
(* under way, and only for the monitor it works on.  And while calls come  *)
(* one at a time, what a call has removed stays removed until it adds it,  *)
(* so every loop that is not cancelled is the registered one.              *)
(***************************************************************************)

(* What a caller awaits: nothing, a load, some loops, or the removal of    *)
(* one monitor.                                                            *)
MonitorOps == {"update", "add", "delete"}
CallRecords ==
  [op : {"idle", "start", "stop"}, waits : SUBSET Loops]
    \union [op : MonitorOps, monitor : Monitors, waits : SUBSET Loops]
CallsTypedToo == call \in [Callers -> CallRecords]

(* A loop runs for a monitor of the routes only while its flag is up.      *)
DisabledIsUnregistered == \A m \in Created : ~enabled[m] => tasks[m] = NoLoop

(* Until the first stop() only a call under way leaves an enabled monitor  *)
(* without a loop.                                                         *)
EnabledIsRegistered ==
  \A m \in Created :
    (stops = 0 /\ inRoutes[m] = "yes" /\ enabled[m] /\ tasks[m] = NoLoop) => InProgress(m)

StopsAreCounted == \A c \in Callers : call[c].op = "stop" => stops > 0

(* The routes know the monitors they update and delete.                    *)
RoutesKnow ==
  /\ \A m \in Created : inRoutes[m] = "new" => tasks[m] = NoLoop
  /\ \A m \in Loaded : inRoutes[m] = "new"
  /\ \A c \in Callers : call[c].op \in MonitorOps => inRoutes[call[c].monitor] # "new"

(* While calls come one at a time: only one is under way, what it removes  *)
(* stays removed, and loops of stored monitors run only when started.      *)
OneCall ==
  ~overlapped =>
    /\ \A c, d \in Callers : call[c] # Idle /\ call[d] # Idle => c = d
    /\ \A c \in Callers : call[c].op \in MonitorOps =>
         tasks[call[c].monitor] = NoLoop /\ inRoutes[call[c].monitor] = "yes"
    /\ \A c \in Callers : call[c].op = "start" => running
    /\ \A l \in Active : tasks[owner[l]] = l
    /\ \A l \in Active : owner[l] \in Loaded =>
         running /\ \A c \in Callers : call[c].op # "start"
    /\ \A c \in Callers : call[c].op = "stop" => Active = {}
    /\ \A m \in Created : inRoutes[m] = "deleted" => tasks[m] = NoLoop

SchedulerIInv ==
  /\ SchedulerTypeOK /\ CallsTypedToo
  /\ DisabledIsUnregistered /\ EnabledIsRegistered /\ StopsAreCounted
  /\ RoutesKnow /\ OneCall

-----------------------------------------------------------------------------
LEMMA CallFacts ==
  ASSUME CallsTypedToo, NEW c \in Callers
  PROVE  /\ call[c] \in CallRecords
         /\ call[c].op \in {"idle", "start", "stop"} \union MonitorOps
         /\ call[c].waits \subseteq Loops
         /\ call[c].op \in MonitorOps => call[c].monitor \in Monitors
         /\ call[c].op # "idle" => call[c] # Idle
         /\ Idle \in CallRecords /\ Idle.op = "idle"
BY DEF CallsTypedToo, CallRecords, MonitorOps, Idle

(* The typed part of _schedule_monitor for the monitors M, and which loops *)
(* are active after it.                                                    *)
LEMMA ScheduleEffect ==
  ASSUME SchedulerTypeOK, NEW M \in SUBSET Monitors,
         NEW registry \in [Monitors -> Loops \union {NoLoop}], Schedule(M, registry)
  PROVE  /\ tasks' \in [Monitors -> Loops \union {NoLoop}]
         /\ phase' \in [Loops -> {"new", "checking", "sleeping", "cancelled", "ended"}]
         /\ owner' \in [Loops -> Monitors]
         /\ check' = check
         /\ \A m \in M : tasks'[m] \in Loops
         /\ \A m \in Monitors \ M : tasks'[m] = registry[m]
         /\ \A l \in Active' :
              \/ l \in Active /\ owner'[l] = owner[l]
              \/ owner'[l] \in M /\ tasks'[owner'[l]] = l
<1>1. PICK new \in [M -> Forgotten] :
        /\ \A m, n \in M : new[m] = new[n] => m = n
        /\ tasks' = [m \in Monitors |-> IF m \in M THEN new[m] ELSE registry[m]]
        /\ phase' = [l \in Loops |-> IF l \in Range(new) THEN "new" ELSE phase[l]]
        /\ owner' = [l \in Loops |-> IF \E m \in M : new[m] = l
                                     THEN CHOOSE m \in M : new[m] = l
                                     ELSE owner[l]]
        /\ check' = check
  BY DEF Schedule
<1>2. Forgotten \subseteq Loops /\ \A l \in Range(new) : \E m \in M : new[m] = l
  BY DEF Forgotten, Range
<1>3. \A m \in M : new[m] \in Loops /\ phase[new[m]] = "ended" /\ tasks'[m] = new[m]
  BY <1>1 DEF Forgotten, Ended
<1>4. \A l \in Loops : (\E m \in M : new[m] = l) => owner'[l] \in M /\ new[owner'[l]] = l
  BY <1>1
<1>5. \A l \in Loops : ~(\E m \in M : new[m] = l) => owner'[l] = owner[l]
  BY <1>1
<1>6. owner' \in [Loops -> Monitors]
  <2>1. \A l \in Loops : owner'[l] \in Monitors
    BY <1>4, <1>5 DEF SchedulerTypeOK
  <2>2. owner' = [l \in Loops |-> owner'[l]]
    BY <1>1
  <2> QED BY <2>1, <2>2
<1>7. phase' \in [Loops -> {"new", "checking", "sleeping", "cancelled", "ended"}]
  BY <1>1 DEF SchedulerTypeOK
<1>8. tasks' \in [Monitors -> Loops \union {NoLoop}]
  BY <1>1, <1>3
<1>9. ASSUME NEW l \in Active'
      PROVE  \/ l \in Active /\ owner'[l] = owner[l]
             \/ owner'[l] \in M /\ tasks'[owner'[l]] = l
  <2>1. l \in Loops
    BY DEF Active
  <2>2. CASE \E m \in M : new[m] = l
    BY <2>1, <2>2, <1>3, <1>4
  <2>3. CASE ~(\E m \in M : new[m] = l)
    BY <2>1, <2>3, <1>1, <1>2, <1>5 DEF Active
  <2> QED BY <2>2, <2>3
<1> QED BY <1>1, <1>3, <1>6, <1>7, <1>8, <1>9

(* add_monitor: at most one loop is new, and it is the one registered.     *)
LEMMA AddNowEffect ==
  ASSUME SchedulerTypeOK, NEW m \in Monitors, NEW on \in BOOLEAN,
         NEW registry \in [Monitors -> Loops \union {NoLoop}], AddNow(m, on, registry)
  PROVE  /\ tasks' \in [Monitors -> Loops \union {NoLoop}]
         /\ phase' \in [Loops -> {"new", "checking", "sleeping", "cancelled", "ended"}]
         /\ owner' \in [Loops -> Monitors]
         /\ check' = check
         /\ on => tasks'[m] \in Loops
         /\ ~on => tasks' = registry
         /\ \A n \in Monitors \ {m} : tasks'[n] = registry[n]
         /\ \A l \in Active' :
              \/ l \in Active /\ owner'[l] = owner[l]
              \/ owner'[l] = m /\ tasks'[m] = l
<1>1. CASE on
  <2>1. Schedule({m}, registry)
    BY <1>1 DEF AddNow
  <2>2. {m} \in SUBSET Monitors
    OBVIOUS
  <2>3. /\ tasks' \in [Monitors -> Loops \union {NoLoop}]
        /\ phase' \in [Loops -> {"new", "checking", "sleeping", "cancelled", "ended"}]
        /\ owner' \in [Loops -> Monitors]
        /\ check' = check
        /\ \A n \in {m} : tasks'[n] \in Loops
        /\ \A n \in Monitors \ {m} : tasks'[n] = registry[n]
        /\ \A l \in Active' :
             \/ l \in Active /\ owner'[l] = owner[l]
             \/ owner'[l] \in {m} /\ tasks'[owner'[l]] = l
    BY <2>1, <2>2, ScheduleEffect
  <2> QED BY <1>1, <2>3
<1>2. CASE ~on
  <2>1. tasks' = registry /\ UNCHANGED <<phase, owner, check>>
    BY <1>2 DEF AddNow, loopVars
  <2>2. Active' = Active
    BY <2>1 DEF Active
  <2> QED BY <1>2, <2>1, <2>2 DEF SchedulerTypeOK
<1> QED BY <1>1, <1>2

LEMMA CancelEffect ==
  ASSUME SchedulerTypeOK, NEW L \in SUBSET Loops, Cancel(L)
  PROVE  /\ phase' \in [Loops -> {"new", "checking", "sleeping", "cancelled", "ended"}]
         /\ check' \in [Loops -> [Locations ->
                  [at : {"probing", "storing", "alerting", "done"},
                   status : CheckStatuses \union {Unknown}]]]
         /\ owner' = owner
         /\ Active' = Active \ L
<1>1. Rest \in [Locations -> [at : {"probing", "storing", "alerting", "done"},
                             status : CheckStatuses \union {Unknown}]]
  BY DEF Rest, At
<1> QED BY <1>1 DEF Cancel, SchedulerTypeOK, Active, Ended

(* remove_monitor up to its await.                                         *)
LEMMA AwaitRemovalEffect ==
  ASSUME SchedulerTypeOK, CallsTypedToo, NEW c \in Callers, NEW op \in MonitorOps,
         NEW m \in Monitors, AwaitRemoval(c, op, m)
  PROVE  /\ tasks' \in [Monitors -> Loops \union {NoLoop}]
         /\ tasks' = [tasks EXCEPT ![m] = NoLoop]
         /\ phase' \in [Loops -> {"new", "checking", "sleeping", "cancelled", "ended"}]
         /\ check' \in [Loops -> [Locations ->
                  [at : {"probing", "storing", "alerting", "done"},
                   status : CheckStatuses \union {Unknown}]]]
         /\ owner' = owner
         /\ tasks[m] \in Loops
         /\ Active' = Active \ {tasks[m]}
         /\ CallsTypedToo'
         /\ call'[c].op = op /\ call'[c].monitor = m
         /\ \A d \in Callers \ {c} : call'[d] = call[d]
<1>1. tasks[m] \in Loops
  BY DEF AwaitRemoval, MustAwait, SchedulerTypeOK
<1>2. tasks' = [tasks EXCEPT ![m] = NoLoop] /\ Cancel({tasks[m]})
      /\ call' = [call EXCEPT ![c] = [op |-> op, monitor |-> m, waits |-> {tasks[m]}]]
  BY DEF AwaitRemoval, Forget
<1>3. [op |-> op, monitor |-> m, waits |-> {tasks[m]}] \in CallRecords
  BY <1>1 DEF CallRecords
<1>4. CallsTypedToo'
  BY <1>2, <1>3 DEF CallsTypedToo
<1>5. call'[c].op = op /\ call'[c].monitor = m /\ \A d \in Callers \ {c} : call'[d] = call[d]
  BY <1>2 DEF CallsTypedToo
<1>6. /\ phase' \in [Loops -> {"new", "checking", "sleeping", "cancelled", "ended"}]
      /\ check' \in [Loops -> [Locations ->
                  [at : {"probing", "storing", "alerting", "done"},
                   status : CheckStatuses \union {Unknown}]]]
      /\ owner' = owner
      /\ Active' = Active \ {tasks[m]}
  BY <1>1, <1>2, CancelEffect
<1> QED BY <1>1, <1>2, <1>4, <1>5, <1>6 DEF SchedulerTypeOK

(* While calls come one at a time, one that begins is alone ...            *)
LEMMA BeginAlone ==
  ASSUME NEW c \in Callers, BeginCall(c), ~overlapped'
  PROVE  ~overlapped /\ \A d \in Callers : call[d] = Idle
BY DEF BeginCall

(* ... and one that is under way is the only one.                          *)
LEMMA Alone ==
  ASSUME SchedulerIInv, NEW c \in Callers, call[c].op # "idle", ~overlapped
  PROVE  \A d \in Callers \ {c} : call[d] = Idle
<1>1. call[c] # Idle
  BY DEF Idle
<1> QED BY <1>1 DEF SchedulerIInv, OneCall

LEMMA ReturnEffect ==
  ASSUME CallsTypedToo, NEW c \in Callers, Return(c)
  PROVE  /\ CallsTypedToo'
         /\ call'[c] = Idle
         /\ \A d \in Callers \ {c} : call'[d] = call[d]
<1>1. Idle \in CallRecords
  BY DEF Idle, CallRecords
<1> QED BY <1>1 DEF Return, CallsTypedToo

(* The types of the calls follow from what the records are.                *)
LEMMA CallsAreTyped ==
  ASSUME NEW f \in [Callers -> CallRecords]
  PROVE  \A c \in Callers :
           /\ f[c].op \in {"idle", "update", "add", "delete", "start", "stop"}
           /\ f[c].waits \subseteq Loops
BY DEF CallRecords, MonitorOps

(* Adding a monitor whose task has ended, or that has none, leaves no loop *)
(* out of the registry.                                                    *)
LEMMA AddKeepsActive ==
  ASSUME SchedulerIInv, ~overlapped, NEW m \in Monitors, NEW on \in BOOLEAN,
         NEW registry \in {tasks, Forget(m)}, AddNow(m, on, registry), ~MustAwait(m)
  PROVE  \A l \in Active' :
           /\ tasks'[owner'[l]] = l
           /\ owner'[l] = m \/ (l \in Active /\ owner'[l] = owner[l])
<1>1. SchedulerTypeOK /\ \A l \in Active : tasks[owner[l]] = l
  BY DEF SchedulerIInv, OneCall
<1>2. registry \in [Monitors -> Loops \union {NoLoop}] /\ \A n \in Monitors \ {m} : registry[n] = tasks[n]
  BY <1>1 DEF SchedulerTypeOK, Forget
<1>3. /\ \A n \in Monitors \ {m} : tasks'[n] = registry[n]
      /\ \A l \in Active' :
           \/ l \in Active /\ owner'[l] = owner[l]
           \/ owner'[l] = m /\ tasks'[m] = l
  BY <1>1, <1>2, AddNowEffect
<1>4. \A l \in Active : owner[l] \in Monitors \ {m}
  <2> SUFFICES ASSUME NEW l \in Active PROVE owner[l] \in Monitors \ {m}
    OBVIOUS
  <2>1. l \in Loops /\ phase[l] # "ended" /\ owner[l] \in Monitors /\ l # NoLoop
    BY <1>1, SchedulerAssumption DEF Active, SchedulerTypeOK, SchedulerAssumption
  <2> QED BY <2>1, <1>1 DEF MustAwait, Ended
<1> QED BY <1>1, <1>2, <1>3, <1>4

-----------------------------------------------------------------------------
(* A step that only ends loops, or moves them between checks, keeps all.   *)
LEMMA LoopsMove ==
  ASSUME SchedulerIInv, SchedulerTypeOK', Active' \subseteq Active,
         UNCHANGED <<running, tasks, owner, inRoutes, enabled, call, overlapped, stops>>
  PROVE  SchedulerIInv'
<1>1. CallsTypedToo' /\ DisabledIsUnregistered' /\ StopsAreCounted' /\ RoutesKnow'
  BY DEF SchedulerIInv, CallsTypedToo, DisabledIsUnregistered, StopsAreCounted, RoutesKnow
<1>2. EnabledIsRegistered'
  BY DEF SchedulerIInv, EnabledIsRegistered, InProgress
<1>3. OneCall'
  BY DEF SchedulerIInv, OneCall
<1> QED BY <1>1, <1>2, <1>3 DEF SchedulerIInv

LEMMA LoopStepKeeps ==
  ASSUME SchedulerIInv, NEW l \in Loops, LoopStep(l)
  PROVE  SchedulerIInv'
<1> USE DEF SchedulerIInv
<1> DEFINE Checks == [Locations -> [at : {"probing", "storing", "alerting", "done"},
                                    status : CheckStatuses \union {Unknown}]]
<1>1. /\ UNCHANGED <<running, tasks, owner, inRoutes, enabled, call, overlapped, stops>>
      /\ Active' \subseteq Active
      /\ phase' \in [Loops -> {"new", "checking", "sleeping", "cancelled", "ended"}]
      /\ check' \in [Loops -> Checks]
      /\ last' \in [Monitors -> CheckStatuses \union {Unknown}]
  <2>1. CASE Wake(l)
    <3>1. [x \in Locations |-> At("probing", Unknown)] \in Checks
      BY DEF At
    <3> QED BY <2>1, <3>1 DEF Wake, SchedulerTypeOK, Active, routeVars
  <2>2. CASE Sleep(l)
    BY <2>2 DEF Sleep, SchedulerTypeOK, Active, routeVars
  <2>3. CASE Unwind(l)
    BY <2>3 DEF Unwind, SchedulerTypeOK, Active, routeVars
  <2>4. ASSUME NEW x \in Locations, NEW from, NEW to, Step(l, x, from, to),
               to \in [at : {"probing", "storing", "alerting", "done"},
                       status : CheckStatuses \union {Unknown}]
        PROVE  check' \in [Loops -> Checks]
    BY <2>4 DEF Step, SchedulerTypeOK
  <2>5. CASE \E x \in Locations : Probe(l, x)
    <3>1. PICK x \in Locations, s \in CheckStatuses : Step(l, x, "probing", At("storing", s))
      BY <2>5 DEF Probe
    <3>2. check' \in [Loops -> Checks]
      BY <3>1, <2>4 DEF At
    <3> QED BY <2>5, <3>2 DEF Probe, SchedulerTypeOK, Active, routeVars
  <2>6. CASE \E x \in Locations : Record(l, x)
    <3>1. PICK x \in Locations : Record(l, x)
      BY <2>6
    <3>2. check[l][x].status \in CheckStatuses \union {Unknown} /\ owner[l] \in Monitors
      BY DEF SchedulerTypeOK
    <3>3. \E to \in [at : {"probing", "storing", "alerting", "done"},
                     status : CheckStatuses \union {Unknown}] : Step(l, x, "storing", to)
      BY <3>1, <3>2 DEF Record, At
    <3>4. check' \in [Loops -> Checks]
      BY <3>3, <2>4
    <3>5. last' \in [Monitors -> CheckStatuses \union {Unknown}]
      BY <3>1, <3>2 DEF Record, SchedulerTypeOK
    <3> QED BY <3>1, <3>4, <3>5 DEF Record, SchedulerTypeOK, Active, routeVars
  <2>7. CASE \E x \in Locations : Alert(l, x)
    <3>1. PICK x \in Locations : Step(l, x, "alerting", At("done", Unknown))
      BY <2>7 DEF Alert
    <3>2. check' \in [Loops -> Checks]
      BY <3>1, <2>4 DEF At
    <3> QED BY <2>7, <3>2 DEF Alert, SchedulerTypeOK, Active, routeVars
  <2> QED BY <2>1, <2>2, <2>3, <2>5, <2>6, <2>7 DEF LoopStep
<1>2. SchedulerTypeOK'
  BY <1>1 DEF SchedulerTypeOK
<1> QED BY <1>1, <1>2, LoopsMove

-----------------------------------------------------------------------------
(* Once no call is under way, three facts about the loops are left.        *)
LEMMA NobodyCalls ==
  ASSUME \A d \in Callers : call'[d] = Idle,
         \A l \in Active' : tasks'[owner'[l]] = l,
         \A l \in Active' : owner'[l] \in Loaded => running',
         \A m \in Created : inRoutes'[m] = "deleted" => tasks'[m] = NoLoop
  PROVE  OneCall'
<1>1. \A d \in Callers : call'[d].op = "idle" /\ call'[d].op \notin MonitorOps
  BY DEF Idle, MonitorOps
<1>2. \A d \in Callers : call'[d].op # "start" /\ call'[d].op # "stop"
  BY <1>1
<1> QED BY <1>1, <1>2 DEF OneCall

(* A new monitor: it had no task, and gets a loop if it is enabled.        *)
LEMMA CreateKeeps ==
  ASSUME SchedulerIInv, NEW c \in Callers, NEW m \in Monitors, Create(c, m)
  PROVE  SchedulerIInv'
<1> USE DEF SchedulerIInv
<1>1. PICK on \in BOOLEAN :
        /\ BeginCall(c) /\ m \in Created /\ inRoutes[m] = "new"
        /\ inRoutes' = [inRoutes EXCEPT ![m] = "yes"]
        /\ enabled' = [enabled EXCEPT ![m] = on]
        /\ AddNow(m, on, tasks)
        /\ UNCHANGED <<running, last, call, stops>>
  BY DEF Create
<1>2. tasks[m] = NoLoop /\ tasks \in [Monitors -> Loops \union {NoLoop}]
  BY <1>1 DEF RoutesKnow, SchedulerTypeOK
<1>3. /\ tasks' \in [Monitors -> Loops \union {NoLoop}]
      /\ phase' \in [Loops -> {"new", "checking", "sleeping", "cancelled", "ended"}]
      /\ owner' \in [Loops -> Monitors]
      /\ check' = check
      /\ on => tasks'[m] \in Loops
      /\ ~on => tasks' = tasks
      /\ \A n \in Monitors \ {m} : tasks'[n] = tasks[n]
  BY <1>1, <1>2, AddNowEffect
<1>4. /\ inRoutes'[m] = "yes" /\ enabled'[m] = on
      /\ \A n \in Monitors \ {m} : inRoutes'[n] = inRoutes[n] /\ enabled'[n] = enabled[n]
  BY <1>1 DEF SchedulerTypeOK
<1>5. SchedulerTypeOK' /\ CallsTypedToo'
  BY <1>1, <1>3 DEF SchedulerTypeOK, CallsTypedToo, BeginCall
<1>6. DisabledIsUnregistered'
  BY <1>2, <1>3, <1>4 DEF DisabledIsUnregistered, Created
<1>7. EnabledIsRegistered'
  <2> SUFFICES ASSUME NEW n \in Created, stops' = 0, inRoutes'[n] = "yes", enabled'[n],
                      tasks'[n] = NoLoop
               PROVE  InProgress(n)'
    BY DEF EnabledIsRegistered
  <2>1. n # m
    BY <1>3, <1>4, SchedulerAssumption DEF SchedulerAssumption
  <2>2. InProgress(n)
    BY <2>1, <1>1, <1>3, <1>4 DEF EnabledIsRegistered, Created
  <2> QED BY <2>2, <1>1 DEF InProgress
<1>8. StopsAreCounted'
  BY <1>1 DEF StopsAreCounted
<1>9. RoutesKnow'
  <2>1. \A d \in Callers : call[d].op \in MonitorOps => call[d].monitor \in Monitors
    BY CallFacts
  <2> QED BY <2>1, <1>1, <1>3, <1>4 DEF RoutesKnow, Created
<1>10. OneCall'
  <2> SUFFICES ASSUME ~overlapped'
               PROVE  OneCall'
    BY DEF OneCall
  <2>1. ~overlapped /\ \A d \in Callers : call'[d] = Idle
    BY <1>1, BeginAlone
  <2>2. \A l \in Active' :
          /\ tasks'[owner'[l]] = l
          /\ owner'[l] = m \/ (l \in Active /\ owner'[l] = owner[l])
    BY <1>1, <1>2, <2>1, AddKeepsActive DEF MustAwait
  <2>3. \A l \in Active' : owner'[l] \in Loaded => running'
    BY <2>1, <2>2, <1>1 DEF OneCall, Created
  <2>4. \A n \in Created : inRoutes'[n] = "deleted" => tasks'[n] = NoLoop
    BY <2>1, <1>3, <1>4 DEF OneCall, Created
  <2>5. \A l \in Active' : tasks'[owner'[l]] = l
    BY <2>2
  <2>6. \A d \in Callers : call'[d] = Idle
    BY <2>1
  <2> QED BY <2>3, <2>4, <2>5, <2>6, NobodyCalls
<1> QED BY <1>5, <1>6, <1>7, <1>8, <1>9, <1>10

(* A removal that has to await the loop of m.                              *)
LEMMA AwaitKeeps ==
  ASSUME SchedulerIInv, NEW c \in Callers, NEW op \in MonitorOps, NEW m \in Created,
         AwaitRemoval(c, op, m), inRoutes[m] # "new",
         call[c] = Idle \/ (call[c].op \in MonitorOps /\ call[c].monitor = m),
         enabled' \in [Monitors -> BOOLEAN],
         \A n \in Monitors \ {m} : enabled'[n] = enabled[n],
         last' \in [Monitors -> CheckStatuses \union {Unknown}],
         overlapped' \in BOOLEAN,
         ~overlapped' => /\ ~overlapped /\ inRoutes[m] = "yes"
                         /\ \A d \in Callers : call[d] = Idle,
         UNCHANGED <<running, inRoutes, stops>>
  PROVE  SchedulerIInv'
<1> USE DEF SchedulerIInv
<1>0. m \in Monitors
  BY DEF Created
<1>1. /\ tasks' \in [Monitors -> Loops \union {NoLoop}]
      /\ tasks' = [tasks EXCEPT ![m] = NoLoop]
      /\ phase' \in [Loops -> {"new", "checking", "sleeping", "cancelled", "ended"}]
      /\ check' \in [Loops -> [Locations ->
                 [at : {"probing", "storing", "alerting", "done"},
                  status : CheckStatuses \union {Unknown}]]]
      /\ owner' = owner
      /\ tasks[m] \in Loops
      /\ Active' = Active \ {tasks[m]}
      /\ CallsTypedToo'
      /\ call'[c].op = op /\ call'[c].monitor = m
      /\ \A d \in Callers \ {c} : call'[d] = call[d]
  BY <1>0, AwaitRemovalEffect
<1>2. tasks'[m] = NoLoop /\ \A n \in Monitors \ {m} : tasks'[n] = tasks[n]
  BY <1>0, <1>1 DEF SchedulerTypeOK
<1>3. SchedulerTypeOK'
  <2>1. \A d \in Callers :
           /\ call'[d].op \in {"idle", "update", "add", "delete", "start", "stop"}
           /\ call'[d].waits \subseteq Loops
    BY <1>1, CallsAreTyped DEF CallsTypedToo
  <2> QED BY <1>1, <2>1 DEF SchedulerTypeOK
<1>4. DisabledIsUnregistered'
  BY <1>2 DEF DisabledIsUnregistered, Created
<1>5. EnabledIsRegistered'
  <2> SUFFICES ASSUME NEW n \in Created, stops' = 0, inRoutes'[n] = "yes", enabled'[n],
                      tasks'[n] = NoLoop
               PROVE  InProgress(n)'
    BY DEF EnabledIsRegistered
  <2>1. CASE n = m
    BY <2>1, <1>1 DEF InProgress, MonitorOps
  <2>2. CASE n # m
    <3>1. InProgress(n)
      BY <2>2, <1>2 DEF EnabledIsRegistered, Created
    <3>2. PICK d \in Callers : call[d].op \in {"update", "add", "delete"} /\ call[d].monitor = n
      BY <3>1 DEF InProgress
    <3>3. d # c
      BY <2>2, <3>2 DEF Idle
    <3> QED BY <1>1, <3>2, <3>3 DEF InProgress
  <2> QED BY <2>1, <2>2
<1>6. StopsAreCounted'
  <2>1. call'[c].op # "stop"
    BY <1>1 DEF MonitorOps
  <2> QED BY <1>1, <2>1 DEF StopsAreCounted
<1>7. RoutesKnow'
  <2>1. \A n \in Created : inRoutes[n] = "new" => tasks'[n] = NoLoop
    BY <1>2 DEF RoutesKnow, Created
  <2>2. \A d \in Callers : call'[d].op \in MonitorOps => inRoutes[call'[d].monitor] # "new"
    BY <1>1 DEF RoutesKnow
  <2> QED BY <2>1, <2>2 DEF RoutesKnow
<1>8. OneCall'
  <2> SUFFICES ASSUME ~overlapped'
               PROVE  OneCall'
    BY DEF OneCall
  <2>1. ~overlapped /\ inRoutes[m] = "yes" /\ \A d \in Callers \ {c} : call'[d] = Idle
    BY <1>1
  <2>2. \A d \in Callers \ {c} : call'[d].op = "idle"
    BY <2>1 DEF Idle
  <2>3. op # "start" /\ op # "stop" /\ op # "idle" /\ "idle" \notin MonitorOps
    BY DEF MonitorOps
  <2>4. \A d \in Callers : call'[d].op # "start" /\ call'[d].op # "stop"
    BY <1>1, <2>2, <2>3
  <2>5. \A d \in Callers : call'[d].op \in MonitorOps =>
          tasks'[call'[d].monitor] = NoLoop /\ inRoutes'[call'[d].monitor] = "yes"
    BY <1>1, <1>2, <2>1, <2>2, <2>3
  <2>6. \A l \in Active' : owner[l] \in Monitors \ {m} /\ tasks'[owner'[l]] = l
    <3> SUFFICES ASSUME NEW l \in Active'
                 PROVE  owner[l] \in Monitors \ {m} /\ tasks'[owner'[l]] = l
      OBVIOUS
    <3>1. l \in Active /\ l # tasks[m] /\ owner[l] \in Monitors
      BY <1>1 DEF Active, SchedulerTypeOK
    <3>2. tasks[owner[l]] = l
      BY <2>1, <3>1 DEF OneCall
    <3> QED BY <1>1, <1>2, <3>1, <3>2
  <2>7. \A l \in Active' : owner'[l] \in Loaded => running'
    BY <2>1, <1>1 DEF OneCall
  <2>8. \A n \in Created : inRoutes'[n] = "deleted" => tasks'[n] = NoLoop
    BY <2>1, <1>2 DEF OneCall, Created
  <2>9. \A d, e \in Callers : call'[d] # Idle /\ call'[e] # Idle => d = e
    BY <2>1
  <2> QED BY <2>4, <2>5, <2>6, <2>7, <2>8, <2>9 DEF OneCall
<1> QED BY <1>1, <1>3, <1>4, <1>5, <1>6, <1>7, <1>8

(* add_monitor for a monitor of the routes, by a caller that then has      *)
(* returned.                                                               *)
LEMMA AddKeeps ==
  ASSUME SchedulerIInv, NEW c \in Callers, NEW m \in Created, NEW on \in BOOLEAN,
         NEW registry \in {tasks, Forget(m)}, AddNow(m, on, registry),
         ~on => registry[m] = NoLoop, inRoutes[m] # "new",
         call[c] = Idle \/ (call[c].op \in MonitorOps /\ call[c].monitor = m),
         CallsTypedToo', call'[c] = Idle,
         \A d \in Callers \ {c} : call'[d] = call[d],
         enabled' \in [Monitors -> BOOLEAN], enabled'[m] = on,
         \A n \in Monitors \ {m} : enabled'[n] = enabled[n],
         last' \in [Monitors -> CheckStatuses \union {Unknown}],
         overlapped' \in BOOLEAN,
         ~overlapped' => /\ ~overlapped /\ ~MustAwait(m) /\ inRoutes[m] = "yes"
                         /\ \A d \in Callers : call'[d] = Idle,
         UNCHANGED <<running, inRoutes, stops>>
  PROVE  SchedulerIInv'
<1> USE DEF SchedulerIInv
<1>0. m \in Monitors
  BY DEF Created
<1>1. /\ registry \in [Monitors -> Loops \union {NoLoop}]
      /\ \A n \in Monitors \ {m} : registry[n] = tasks[n]
  BY DEF SchedulerTypeOK, Forget
<1>2. /\ tasks' \in [Monitors -> Loops \union {NoLoop}]
      /\ phase' \in [Loops -> {"new", "checking", "sleeping", "cancelled", "ended"}]
      /\ owner' \in [Loops -> Monitors]
      /\ check' = check
      /\ on => tasks'[m] \in Loops
      /\ ~on => tasks' = registry
      /\ \A n \in Monitors \ {m} : tasks'[n] = registry[n]
  BY <1>0, <1>1, AddNowEffect
<1>3. SchedulerTypeOK'
  <2>1. \A d \in Callers :
           /\ call'[d].op \in {"idle", "update", "add", "delete", "start", "stop"}
           /\ call'[d].waits \subseteq Loops
    BY CallsAreTyped DEF CallsTypedToo
  <2> QED BY <1>2, <2>1 DEF SchedulerTypeOK
<1>4. DisabledIsUnregistered'
  BY <1>1, <1>2 DEF DisabledIsUnregistered, Created
<1>5. EnabledIsRegistered'
  <2> SUFFICES ASSUME NEW n \in Created, stops' = 0, inRoutes'[n] = "yes", enabled'[n],
                      tasks'[n] = NoLoop
               PROVE  InProgress(n)'
    BY DEF EnabledIsRegistered
  <2>1. n # m
    BY <1>2, SchedulerAssumption DEF SchedulerAssumption
  <2>2. InProgress(n)
    BY <2>1, <1>1, <1>2 DEF EnabledIsRegistered, Created
  <2>3. PICK d \in Callers : call[d].op \in {"update", "add", "delete"} /\ call[d].monitor = n
    BY <2>2 DEF InProgress
  <2>4. d # c
    BY <2>1, <2>3 DEF Idle
  <2> QED BY <2>3, <2>4 DEF InProgress
<1>6. StopsAreCounted'
  <2>1. call'[c].op # "stop"
    BY DEF Idle
  <2> QED BY <2>1 DEF StopsAreCounted
<1>7. RoutesKnow'
  <2>1. call'[c].op \notin MonitorOps
    BY DEF Idle, MonitorOps
  <2> QED BY <2>1, <1>1, <1>2 DEF RoutesKnow, Created
<1>8. OneCall'
  <2> SUFFICES ASSUME ~overlapped'
               PROVE  OneCall'
    BY DEF OneCall
  <2>1. ~overlapped /\ ~MustAwait(m) /\ inRoutes[m] = "yes"
    OBVIOUS
  <2>2. \A l \in Active' :
          /\ tasks'[owner'[l]] = l
          /\ owner'[l] = m \/ (l \in Active /\ owner'[l] = owner[l])
    BY <1>0, <2>1, AddKeepsActive
  <2>3. \A l \in Active' : owner'[l] \in Loaded => running'
    BY <2>1, <2>2 DEF OneCall, Created
  <2>4. \A n \in Created : inRoutes'[n] = "deleted" => tasks'[n] = NoLoop
    BY <2>1, <1>1, <1>2 DEF OneCall, Created
  <2>5. \A l \in Active' : tasks'[owner'[l]] = l
    BY <2>2
  <2>6. \A d \in Callers : call'[d] = Idle
    OBVIOUS
  <2> QED BY <2>3, <2>4, <2>5, <2>6, NobodyCalls
<1> QED BY <1>3, <1>4, <1>5, <1>6, <1>7, <1>8

LEMMA UpdateKeeps ==
  ASSUME SchedulerIInv, NEW c \in Callers, NEW m \in Monitors, Update(c, m)
  PROVE  SchedulerIInv'
<1> USE DEF SchedulerIInv
<1>1. PICK on \in BOOLEAN :
        /\ BeginCall(c) /\ inRoutes[m] = "yes"
        /\ enabled' = [enabled EXCEPT ![m] = on]
        /\ \/ AwaitRemoval(c, "update", m) /\ UNCHANGED last
           \/ /\ ~MustAwait(m)
              /\ last' = [last EXCEPT ![m] = Unknown]
              /\ AddNow(m, on, Forget(m))
              /\ UNCHANGED call
        /\ UNCHANGED <<running, inRoutes, stops>>
  BY DEF Update
<1>2. m \in Created
  BY <1>1 DEF RoutesKnow, Created
<1>3. /\ enabled' \in [Monitors -> BOOLEAN] /\ enabled'[m] = on
      /\ \A n \in Monitors \ {m} : enabled'[n] = enabled[n]
      /\ last' \in [Monitors -> CheckStatuses \union {Unknown}]
  BY <1>1 DEF SchedulerTypeOK
<1>4. call[c] = Idle /\ overlapped' \in BOOLEAN
  BY <1>1 DEF BeginCall
<1>5. ~overlapped' => ~overlapped /\ \A d \in Callers : call[d] = Idle
  BY <1>1, BeginAlone
<1>6. CASE AwaitRemoval(c, "update", m)
  <2>1. "update" \in MonitorOps
    BY DEF MonitorOps
  <2> HIDE DEF SchedulerIInv
  <2> QED BY <1>1, <1>2, <1>3, <1>4, <1>5, <1>6, <2>1, AwaitKeeps
<1>7. CASE ~MustAwait(m) /\ AddNow(m, on, Forget(m)) /\ UNCHANGED call
  <2>1. Forget(m)[m] = NoLoop
    BY DEF Forget, SchedulerTypeOK
  <2>2. CallsTypedToo' /\ call' = call
    BY <1>7 DEF CallsTypedToo
  <2> HIDE DEF SchedulerIInv
  <2> QED BY <1>1, <1>2, <1>3, <1>4, <1>5, <1>7, <2>1, <2>2, AddKeeps
<1> QED BY <1>1, <1>6, <1>7

LEMMA FinishUpdateKeeps ==
  ASSUME SchedulerIInv, NEW c \in Callers, FinishUpdate(c)
  PROVE  SchedulerIInv'
<1> USE DEF SchedulerIInv
<1> DEFINE m == call[c].monitor
<1>1. call[c].op = "update" /\ call[c].op \in MonitorOps
  BY DEF FinishUpdate, Awaits, MonitorOps
<1>2. m \in Created /\ inRoutes[m] # "new" /\ m \in Monitors
  BY <1>1, CallFacts DEF RoutesKnow, Created
<1>3. /\ last' = [last EXCEPT ![m] = Unknown]
      /\ \/ enabled[m] /\ AwaitRemoval(c, "add", m)
         \/ /\ enabled[m] => ~MustAwait(m)
            /\ AddNow(m, enabled[m], IF enabled[m] THEN Forget(m) ELSE tasks)
            /\ Return(c)
      /\ UNCHANGED <<running, inRoutes, enabled, overlapped, stops>>
  BY DEF FinishUpdate, routeVars
<1>4. /\ enabled' \in [Monitors -> BOOLEAN] /\ enabled' = enabled /\ enabled[m] \in BOOLEAN
      /\ last' \in [Monitors -> CheckStatuses \union {Unknown}]
      /\ overlapped' \in BOOLEAN /\ overlapped' = overlapped
  BY <1>2, <1>3 DEF SchedulerTypeOK
<1>5. ~overlapped => /\ \A d \in Callers \ {c} : call[d] = Idle
                     /\ tasks[m] = NoLoop /\ inRoutes[m] = "yes" /\ ~MustAwait(m)
  BY <1>1, Alone DEF OneCall, MustAwait
<1>6. CASE enabled[m] /\ AwaitRemoval(c, "add", m)
  <2>1. "add" \in MonitorOps
    BY DEF MonitorOps
  <2>2. overlapped'
    BY <1>4, <1>5, <1>6 DEF AwaitRemoval
  <2> HIDE DEF SchedulerIInv, m
  <2> QED BY <1>1, <1>2, <1>3, <1>4, <1>6, <2>1, <2>2, AwaitKeeps DEF m
<1>7. CASE /\ enabled[m] => ~MustAwait(m)
           /\ AddNow(m, enabled[m], IF enabled[m] THEN Forget(m) ELSE tasks)
           /\ Return(c)
  <2>1. Forget(m)[m] = NoLoop /\ (~enabled[m] => tasks[m] = NoLoop)
    BY <1>2 DEF Forget, SchedulerTypeOK, DisabledIsUnregistered
  <2>2. CallsTypedToo' /\ call'[c] = Idle /\ \A d \in Callers \ {c} : call'[d] = call[d]
    BY <1>7, ReturnEffect
  <2>3. ~overlapped' => \A d \in Callers : call'[d] = Idle
    BY <1>4, <1>5, <2>2
  <2>4. PICK registry \in {tasks, Forget(m)} :
          registry[m] = NoLoop /\ AddNow(m, enabled[m], registry)
    BY <1>3, <1>7, <2>1 DEF SchedulerTypeOK, MustAwait
  <2> HIDE DEF SchedulerIInv, m
  <2> QED BY <1>1, <1>2, <1>3, <1>4, <1>5, <2>2, <2>3, <2>4, AddKeeps DEF m
<1> QED BY <1>3, <1>6, <1>7

LEMMA FinishAddKeeps ==
  ASSUME SchedulerIInv, NEW c \in Callers, FinishAdd(c)
  PROVE  SchedulerIInv'
<1> USE DEF SchedulerIInv
<1> DEFINE m == call[c].monitor
<1>1. call[c].op = "add" /\ call[c].op \in MonitorOps
  BY DEF FinishAdd, Awaits, MonitorOps
<1>2. m \in Created /\ inRoutes[m] # "new" /\ m \in Monitors
  BY <1>1, CallFacts DEF RoutesKnow, Created
<1>3. /\ last' = [last EXCEPT ![m] = Unknown]
      /\ AddNow(m, enabled[m], tasks)
      /\ Return(c)
      /\ UNCHANGED <<running, inRoutes, enabled, overlapped, stops>>
  BY DEF FinishAdd, routeVars
<1>4. /\ enabled' \in [Monitors -> BOOLEAN] /\ enabled' = enabled /\ enabled[m] \in BOOLEAN
      /\ last' \in [Monitors -> CheckStatuses \union {Unknown}]
      /\ overlapped' \in BOOLEAN /\ overlapped' = overlapped
      /\ tasks \in {tasks, Forget(m)}
  BY <1>2, <1>3 DEF SchedulerTypeOK
<1>5. ~overlapped => /\ \A d \in Callers \ {c} : call[d] = Idle
                     /\ tasks[m] = NoLoop /\ inRoutes[m] = "yes" /\ ~MustAwait(m)
  BY <1>1, Alone DEF OneCall, MustAwait
<1>6. ~enabled[m] => tasks[m] = NoLoop
  BY <1>2 DEF DisabledIsUnregistered
<1>7. CallsTypedToo' /\ call'[c] = Idle /\ \A d \in Callers \ {c} : call'[d] = call[d]
  BY <1>3, ReturnEffect
<1>8. ~overlapped' => \A d \in Callers : call'[d] = Idle
  BY <1>4, <1>5, <1>7
<1> HIDE DEF SchedulerIInv, m
<1> QED BY <1>1, <1>2, <1>3, <1>4, <1>5, <1>6, <1>7, <1>8, AddKeeps DEF m

LEMMA DeleteKeeps ==
  ASSUME SchedulerIInv, NEW c \in Callers, NEW m \in Monitors, DeleteMonitor(c, m)
  PROVE  SchedulerIInv'
<1> USE DEF SchedulerIInv
<1>1. /\ BeginCall(c) /\ inRoutes[m] = "yes"
      /\ UNCHANGED <<running, enabled, stops>>
  BY DEF DeleteMonitor
<1>2. m \in Created
  BY <1>1 DEF RoutesKnow, Created
<1>3. call[c] = Idle /\ overlapped' \in BOOLEAN
  BY <1>1 DEF BeginCall
<1>4. ~overlapped' => ~overlapped /\ \A d \in Callers : call[d] = Idle
  BY <1>1, BeginAlone
<1>5. CASE AwaitRemoval(c, "delete", m) /\ UNCHANGED <<last, inRoutes>>
  <2>1. "delete" \in MonitorOps
    BY DEF MonitorOps
  <2>2. /\ enabled' \in [Monitors -> BOOLEAN]
        /\ \A n \in Monitors \ {m} : enabled'[n] = enabled[n]
        /\ last' \in [Monitors -> CheckStatuses \union {Unknown}]
    BY <1>1, <1>5 DEF SchedulerTypeOK
  <2> HIDE DEF SchedulerIInv
  <2> QED BY <1>1, <1>2, <1>3, <1>4, <1>5, <2>1, <2>2, AwaitKeeps
<1>6. CASE /\ ~MustAwait(m)
           /\ last' = [last EXCEPT ![m] = Unknown]
           /\ inRoutes' = [inRoutes EXCEPT ![m] = "deleted"]
           /\ tasks' = Forget(m)
           /\ UNCHANGED <<loopVars, call>>
  <2>1. /\ tasks'[m] = NoLoop /\ \A n \in Monitors \ {m} : tasks'[n] = tasks[n]
        /\ inRoutes'[m] = "deleted" /\ \A n \in Monitors \ {m} : inRoutes'[n] = inRoutes[n]
    BY <1>6 DEF Forget, SchedulerTypeOK
  <2>2. UNCHANGED <<phase, owner, check, call>>
    BY <1>6 DEF loopVars
  <2>3. SchedulerTypeOK' /\ CallsTypedToo'
    BY <1>1, <1>3, <1>6, <2>2 DEF SchedulerTypeOK, CallsTypedToo, Forget
  <2>4. DisabledIsUnregistered' /\ StopsAreCounted'
    BY <1>1, <2>1, <2>2 DEF DisabledIsUnregistered, StopsAreCounted, Created
  <2>5. EnabledIsRegistered'
    <3>1. \A n \in Created : inRoutes'[n] = "yes" => n # m
      BY <2>1
    <3> QED BY <1>1, <2>1, <2>2, <3>1 DEF EnabledIsRegistered, InProgress, Created
  <2>6. RoutesKnow'
    <3>1. \A n \in Monitors : inRoutes'[n] = "new" => inRoutes[n] = "new" /\ n # m
      BY <2>1
    <3>2. \A n \in Created : inRoutes'[n] = "new" => tasks'[n] = NoLoop
      BY <2>1, <3>1 DEF RoutesKnow, Created
    <3>3. \A n \in Loaded : inRoutes'[n] = "new"
      BY <1>2, <2>1, SchedulerAssumption DEF RoutesKnow, Created, SchedulerAssumption
    <3>4. \A d \in Callers : call[d].op \in MonitorOps => inRoutes'[call[d].monitor] # "new"
      BY <3>1, CallFacts DEF RoutesKnow
    <3> QED BY <2>2, <3>2, <3>3, <3>4 DEF RoutesKnow
  <2>7. OneCall'
    <3> SUFFICES ASSUME ~overlapped'
                 PROVE  OneCall'
      BY DEF OneCall
    <3>1. ~overlapped /\ \A d \in Callers : call'[d] = Idle
      BY <1>4, <2>2
    <3>2. \A d \in Callers : call'[d] = Idle
      BY <3>1
    <3>3. Active' = Active
      BY <2>2 DEF Active
    <3>4. \A l \in Active' : tasks'[owner'[l]] = l
      <4> SUFFICES ASSUME NEW l \in Active
                   PROVE  tasks'[owner[l]] = l
        BY <2>2, <3>3
      <4>1. l \in Loops /\ ~Ended(l) /\ owner[l] \in Monitors /\ l # NoLoop
        BY SchedulerAssumption DEF Active, Ended, SchedulerTypeOK, SchedulerAssumption
      <4>2. tasks[owner[l]] = l
        BY <3>1 DEF OneCall
      <4>3. owner[l] # m
        BY <1>6, <4>1, <4>2 DEF MustAwait
      <4> QED BY <2>1, <4>1, <4>2, <4>3
    <3>5. \A l \in Active' : owner'[l] \in Loaded => running'
      BY <1>1, <2>2, <3>1, <3>3 DEF OneCall
    <3>6. \A n \in Created : inRoutes'[n] = "deleted" => tasks'[n] = NoLoop
      BY <2>1, <3>1 DEF OneCall, Created
    <3> QED BY <3>2, <3>4, <3>5, <3>6, NobodyCalls
  <2> QED BY <2>3, <2>4, <2>5, <2>6, <2>7
<1> QED BY <1>5, <1>6 DEF DeleteMonitor

LEMMA FinishDeleteKeeps ==
  ASSUME SchedulerIInv, NEW c \in Callers, FinishDelete(c)
  PROVE  SchedulerIInv'
<1> USE DEF SchedulerIInv
<1> DEFINE m == call[c].monitor
<1>1. call[c].op = "delete" /\ call[c].op \in MonitorOps
  BY DEF FinishDelete, Awaits, MonitorOps
<1>2. m \in Created /\ inRoutes[m] # "new" /\ m \in Monitors
  BY <1>1, CallFacts DEF RoutesKnow, Created
<1>3. /\ last' = [last EXCEPT ![m] = Unknown]
      /\ inRoutes' = [inRoutes EXCEPT ![m] = "deleted"]
      /\ Return(c)
      /\ UNCHANGED <<running, tasks, phase, owner, check, enabled, overlapped, stops>>
  BY DEF FinishDelete, loopVars
<1>4. inRoutes'[m] = "deleted" /\ \A n \in Monitors \ {m} : inRoutes'[n] = inRoutes[n]
  BY <1>2, <1>3 DEF SchedulerTypeOK
<1>5. CallsTypedToo' /\ call'[c] = Idle /\ \A d \in Callers \ {c} : call'[d] = call[d]
  BY <1>3, ReturnEffect
<1>6. SchedulerTypeOK'
  <2>1. \A d \in Callers :
           /\ call'[d].op \in {"idle", "update", "add", "delete", "start", "stop"}
           /\ call'[d].waits \subseteq Loops
    BY <1>5, CallsAreTyped DEF CallsTypedToo
  <2> QED BY <1>2, <1>3, <2>1 DEF SchedulerTypeOK
<1>7. DisabledIsUnregistered'
  BY <1>3 DEF DisabledIsUnregistered
<1>8. StopsAreCounted'
  BY <1>3, <1>5 DEF StopsAreCounted, Idle
<1>9. EnabledIsRegistered'
  <2> SUFFICES ASSUME NEW n \in Created, stops' = 0, inRoutes'[n] = "yes", enabled'[n],
                      tasks'[n] = NoLoop
               PROVE  InProgress(n)'
    BY DEF EnabledIsRegistered
  <2>1. n # m
    BY <1>4
  <2>2. InProgress(n)
    BY <2>1, <1>3, <1>4 DEF EnabledIsRegistered, Created
  <2>3. PICK d \in Callers : call[d].op \in {"update", "add", "delete"} /\ call[d].monitor = n
    BY <2>2 DEF InProgress
  <2>4. d # c
    BY <2>1, <2>3
  <2> QED BY <1>5, <2>3, <2>4 DEF InProgress
<1>10. RoutesKnow'
  <2>1. \A n \in Monitors : inRoutes'[n] = "new" => inRoutes[n] = "new" /\ n # m
    BY <1>2, <1>4
  <2>2. \A n \in Created : inRoutes'[n] = "new" => tasks'[n] = NoLoop
    BY <1>3, <2>1 DEF RoutesKnow, Created
  <2>3. \A n \in Loaded : inRoutes'[n] = "new"
    BY <1>2, <1>4, SchedulerAssumption DEF RoutesKnow, Created, SchedulerAssumption
  <2>4. call'[c].op \notin MonitorOps
    BY <1>5 DEF Idle, MonitorOps
  <2>5. \A d \in Callers : call'[d].op \in MonitorOps => inRoutes'[call'[d].monitor] # "new"
    BY <1>5, <2>1, <2>4, CallFacts DEF RoutesKnow
  <2> QED BY <2>2, <2>3, <2>5 DEF RoutesKnow
<1>11. OneCall'
  <2> SUFFICES ASSUME ~overlapped'
               PROVE  OneCall'
    BY DEF OneCall
  <2>1. ~overlapped /\ \A d \in Callers \ {c} : call[d] = Idle
    BY <1>1, <1>3, Alone
  <2>2. \A d \in Callers : call'[d] = Idle
    BY <1>5, <2>1
  <2>3. Active' = Active
    BY <1>3 DEF Active
  <2>4. \A l \in Active' : tasks'[owner'[l]] = l
    BY <1>3, <2>1, <2>3 DEF OneCall
  <2>5. \A l \in Active' : owner'[l] \in Loaded => running'
    BY <1>3, <2>1, <2>3 DEF OneCall
  <2>6. \A n \in Created : inRoutes'[n] = "deleted" => tasks'[n] = NoLoop
    BY <1>1, <1>3, <1>4, <2>1 DEF OneCall, Created
  <2> QED BY <2>2, <2>4, <2>5, <2>6, NobodyCalls
<1> QED BY <1>5, <1>6, <1>7, <1>8, <1>9, <1>10, <1>11

(* Start, which cannot find a loop of a stored monitor: those of an earlier*)
(* start were cancelled by the stop in between.                            *)
LEMMA StartKeeps ==
  ASSUME SchedulerIInv, NEW c \in Callers, Start(c)
  PROVE  SchedulerIInv'
<1> USE DEF SchedulerIInv
<1>1. /\ BeginCall(c) /\ ~running /\ running' = TRUE
      /\ call' = [call EXCEPT ![c] = [op |-> "start", waits |-> {}]]
      /\ UNCHANGED <<tasks, last, phase, owner, check, inRoutes, enabled, stops>>
  BY DEF Start, loopVars, routeVars
<1>2. [op |-> "start", waits |-> {}] \in CallRecords
  BY DEF CallRecords
<1>3. /\ CallsTypedToo' /\ call'[c].op = "start"
      /\ \A d \in Callers \ {c} : call'[d] = call[d]
  BY <1>1, <1>2 DEF CallsTypedToo
<1>4. call[c] = Idle /\ overlapped' \in BOOLEAN
  BY <1>1 DEF BeginCall
<1>5. SchedulerTypeOK'
  <2>1. \A d \in Callers :
           /\ call'[d].op \in {"idle", "update", "add", "delete", "start", "stop"}
           /\ call'[d].waits \subseteq Loops
    BY <1>3, CallsAreTyped DEF CallsTypedToo
  <2> QED BY <1>1, <1>4, <2>1 DEF SchedulerTypeOK
<1>6. DisabledIsUnregistered' /\ StopsAreCounted'
  BY <1>1, <1>3 DEF DisabledIsUnregistered, StopsAreCounted
<1>7. EnabledIsRegistered'
  <2> SUFFICES ASSUME NEW n \in Created, stops' = 0, inRoutes'[n] = "yes", enabled'[n],
                      tasks'[n] = NoLoop
               PROVE  InProgress(n)'
    BY DEF EnabledIsRegistered
  <2>1. InProgress(n)
    BY <1>1 DEF EnabledIsRegistered
  <2>2. PICK d \in Callers : call[d].op \in {"update", "add", "delete"} /\ call[d].monitor = n
    BY <2>1 DEF InProgress
  <2>3. d # c
    BY <1>4, <2>2 DEF Idle
  <2> QED BY <1>3, <2>2, <2>3 DEF InProgress
<1>8. RoutesKnow'
  <2>1. call'[c].op \notin MonitorOps
    BY <1>3 DEF MonitorOps
  <2> QED BY <1>1, <1>3, <2>1 DEF RoutesKnow
<1>9. OneCall'
  <2> SUFFICES ASSUME ~overlapped'
               PROVE  OneCall'
    BY DEF OneCall
  <2>1. ~overlapped /\ \A d \in Callers : call[d] = Idle
    BY <1>1, BeginAlone
  <2>2. \A d \in Callers \ {c} : call'[d] = Idle /\ call'[d].op = "idle"
    BY <1>3, <2>1 DEF Idle
  <2>3. \A d \in Callers : call'[d].op # "stop" /\ call'[d].op \notin MonitorOps
    BY <1>3, <2>2 DEF MonitorOps
  <2>4. Active' = Active /\ \A l \in Active : owner[l] \notin Loaded
    BY <1>1, <2>1 DEF Active, OneCall
  <2>5. \A l \in Active' : tasks'[owner'[l]] = l /\ owner'[l] \notin Loaded
    BY <1>1, <2>1, <2>4 DEF OneCall
  <2>6. \A n \in Created : inRoutes'[n] = "deleted" => tasks'[n] = NoLoop
    BY <1>1, <2>1 DEF OneCall
  <2> QED BY <1>1, <2>2, <2>3, <2>5, <2>6 DEF OneCall
<1> QED BY <1>3, <1>5, <1>6, <1>7, <1>8, <1>9

(* The loops of the stored monitors start.                                 *)
LEMMA FinishStartKeeps ==
  ASSUME SchedulerIInv, NEW c \in Callers, FinishStart(c)
  PROVE  SchedulerIInv'
<1> USE DEF SchedulerIInv
<1>1. PICK M \in {Loaded, {}} :
        /\ call[c].op = "start" /\ Schedule(M, tasks) /\ Return(c)
        /\ UNCHANGED <<running, last, inRoutes, enabled, overlapped, stops>>
  BY DEF FinishStart, Awaits, routeVars
<1>2. M \in SUBSET Monitors /\ M \subseteq Loaded
      /\ tasks \in [Monitors -> Loops \union {NoLoop}]
  BY SchedulerAssumption DEF SchedulerTypeOK, SchedulerAssumption
<1>3. /\ tasks' \in [Monitors -> Loops \union {NoLoop}]
      /\ phase' \in [Loops -> {"new", "checking", "sleeping", "cancelled", "ended"}]
      /\ owner' \in [Loops -> Monitors]
      /\ check' = check
      /\ \A n \in Monitors \ M : tasks'[n] = tasks[n]
      /\ \A l \in Active' :
           \/ l \in Active /\ owner'[l] = owner[l]
           \/ owner'[l] \in M /\ tasks'[owner'[l]] = l
  BY <1>1, <1>2, ScheduleEffect
<1>4. \A n \in Created : n \in Monitors \ M /\ tasks'[n] = tasks[n]
  BY <1>2, <1>3 DEF Created
<1>5. CallsTypedToo' /\ call'[c] = Idle /\ \A d \in Callers \ {c} : call'[d] = call[d]
  BY <1>1, ReturnEffect
<1>6. SchedulerTypeOK'
  <2>1. \A d \in Callers :
           /\ call'[d].op \in {"idle", "update", "add", "delete", "start", "stop"}
           /\ call'[d].waits \subseteq Loops
    BY <1>5, CallsAreTyped DEF CallsTypedToo
  <2> QED BY <1>1, <1>3, <2>1 DEF SchedulerTypeOK
<1>7. DisabledIsUnregistered' /\ StopsAreCounted'
  BY <1>1, <1>4, <1>5 DEF DisabledIsUnregistered, StopsAreCounted, Idle
<1>8. EnabledIsRegistered'
  <2> SUFFICES ASSUME NEW n \in Created, stops' = 0, inRoutes'[n] = "yes", enabled'[n],
                      tasks'[n] = NoLoop
               PROVE  InProgress(n)'
    BY DEF EnabledIsRegistered
  <2>1. InProgress(n)
    BY <1>1, <1>4 DEF EnabledIsRegistered
  <2>2. PICK d \in Callers : call[d].op \in {"update", "add", "delete"} /\ call[d].monitor = n
    BY <2>1 DEF InProgress
  <2>3. d # c
    BY <1>1, <2>2
  <2> QED BY <1>5, <2>2, <2>3 DEF InProgress
<1>9. RoutesKnow'
  <2>1. call'[c].op \notin MonitorOps
    BY <1>5 DEF Idle, MonitorOps
  <2> QED BY <1>1, <1>4, <1>5, <2>1 DEF RoutesKnow
<1>10. OneCall'
  <2> SUFFICES ASSUME ~overlapped'
               PROVE  OneCall'
    BY DEF OneCall
  <2>1. ~overlapped /\ \A d \in Callers \ {c} : call[d] = Idle
    BY <1>1, Alone
  <2>2. \A d \in Callers : call'[d] = Idle
    BY <1>5, <2>1
  <2>3. running /\ \A l \in Active : owner[l] \in Created
    BY <1>1, <2>1 DEF OneCall, Active, Created, SchedulerTypeOK
  <2>4. \A l \in Active' : tasks'[owner'[l]] = l
    BY <1>3, <1>4, <2>1, <2>3 DEF OneCall
  <2>5. \A l \in Active' : owner'[l] \in Loaded => running'
    BY <1>1, <2>3
  <2>6. \A n \in Created : inRoutes'[n] = "deleted" => tasks'[n] = NoLoop
    BY <1>1, <1>4, <2>1 DEF OneCall
  <2> QED BY <2>2, <2>4, <2>5, <2>6, NobodyCalls
<1> QED BY <1>5, <1>6, <1>7, <1>8, <1>9, <1>10

(* Stop cancels what is registered: while calls come one at a time, all.   *)
LEMMA StopKeeps ==
  ASSUME SchedulerIInv, NEW c \in Callers, Stop(c)
  PROVE  SchedulerIInv'
<1> USE DEF SchedulerIInv
<1>1. /\ BeginCall(c) /\ stops < MaxStops /\ stops' = stops + 1 /\ running' = FALSE
      /\ Cancel(Registered)
      /\ UNCHANGED <<tasks, last, inRoutes, enabled>>
  BY DEF Stop, routeVars
<1>2. stops' \in 0..MaxStops /\ stops' > 0
  BY <1>1, SchedulerAssumption DEF SchedulerTypeOK, SchedulerAssumption
<1>3. Registered \in SUBSET Loops
  BY DEF Registered
<1>4. [op |-> "stop", waits |-> Registered] \in CallRecords
  BY <1>3 DEF CallRecords
<1>5. /\ CallsTypedToo' /\ (call'[c].op = "stop" \/ call'[c] = Idle)
      /\ \A d \in Callers \ {c} : call'[d] = call[d]
  <2>1. CASE Registered = {}
    BY <1>1, <2>1 DEF Stop, BeginCall, CallsTypedToo
  <2>2. CASE Registered # {}
    BY <1>4, <2>2 DEF Stop, CallsTypedToo
  <2> QED BY <2>1, <2>2
<1>6. overlapped' \in BOOLEAN
  BY <1>1 DEF BeginCall
<1>7. /\ phase' \in [Loops -> {"new", "checking", "sleeping", "cancelled", "ended"}]
      /\ check' \in [Loops -> [Locations ->
                [at : {"probing", "storing", "alerting", "done"},
                 status : CheckStatuses \union {Unknown}]]]
      /\ owner' = owner
      /\ Active' = Active \ Registered
  BY <1>1, <1>3, CancelEffect
<1>8. SchedulerTypeOK'
  <2>1. \A d \in Callers :
           /\ call'[d].op \in {"idle", "update", "add", "delete", "start", "stop"}
           /\ call'[d].waits \subseteq Loops
    BY <1>5, CallsAreTyped DEF CallsTypedToo
  <2> QED BY <1>1, <1>2, <1>6, <1>7, <2>1 DEF SchedulerTypeOK
<1>9. DisabledIsUnregistered' /\ StopsAreCounted' /\ EnabledIsRegistered'
  BY <1>1, <1>2 DEF DisabledIsUnregistered, StopsAreCounted, EnabledIsRegistered
<1>10. RoutesKnow'
  <2>1. call'[c].op \notin MonitorOps
    BY <1>5 DEF Idle, MonitorOps
  <2> QED BY <1>1, <1>5, <2>1 DEF RoutesKnow
<1>11. OneCall'
  <2> SUFFICES ASSUME ~overlapped'
               PROVE  OneCall'
    BY DEF OneCall
  <2>1. ~overlapped /\ \A d \in Callers : call[d] = Idle
    BY <1>1, BeginAlone
  <2>2. \A d \in Callers \ {c} : call'[d] = Idle
    BY <1>5, <2>1
  <2>3. \A d \in Callers : call'[d].op # "start" /\ call'[d].op \notin MonitorOps
    BY <1>5, <2>2 DEF Idle, MonitorOps
  <2>4. \A l \in Active : l \in Registered
    <3> SUFFICES ASSUME NEW l \in Active
                 PROVE  l \in Registered
      OBVIOUS
    <3>1. l \in Loops /\ owner[l] \in Monitors /\ tasks[owner[l]] = l
      BY <2>1 DEF Active, SchedulerTypeOK, OneCall
    <3>2. DOMAIN tasks = Monitors
      BY DEF SchedulerTypeOK
    <3> QED BY <3>1, <3>2 DEF Registered, Range
  <2>5. Active' = {}
    BY <1>7, <2>4
  <2>6. \A n \in Created : inRoutes'[n] = "deleted" => tasks'[n] = NoLoop
    BY <1>1, <2>1 DEF OneCall
  <2> QED BY <2>2, <2>3, <2>5, <2>6 DEF OneCall
<1> QED BY <1>5, <1>8, <1>9, <1>10, <1>11

LEMMA FinishStopKeeps ==
  ASSUME SchedulerIInv, NEW c \in Callers, FinishStop(c)
  PROVE  SchedulerIInv'
<1> USE DEF SchedulerIInv
<1>1. /\ call[c].op = "stop"
      /\ tasks' = [m \in Monitors |-> NoLoop]
      /\ Return(c)
      /\ UNCHANGED <<running, last, phase, owner, check, inRoutes, enabled, overlapped, stops>>
  BY DEF FinishStop, Awaits, routeVars, loopVars
<1>2. stops > 0 /\ \A m \in Monitors : tasks'[m] = NoLoop
  BY <1>1 DEF StopsAreCounted
<1>3. CallsTypedToo' /\ call'[c] = Idle /\ \A d \in Callers \ {c} : call'[d] = call[d]
  BY <1>1, ReturnEffect
<1>4. SchedulerTypeOK'
  <2>1. \A d \in Callers :
           /\ call'[d].op \in {"idle", "update", "add", "delete", "start", "stop"}
           /\ call'[d].waits \subseteq Loops
    BY <1>3, CallsAreTyped DEF CallsTypedToo
  <2> QED BY <1>1, <2>1 DEF SchedulerTypeOK
<1>5. DisabledIsUnregistered' /\ StopsAreCounted' /\ EnabledIsRegistered'
  BY <1>1, <1>2 DEF DisabledIsUnregistered, StopsAreCounted, EnabledIsRegistered, Created
<1>6. RoutesKnow'
  <2>1. call'[c].op \notin MonitorOps
    BY <1>3 DEF Idle, MonitorOps
  <2> QED BY <1>1, <1>2, <1>3, <2>1 DEF RoutesKnow, Created
<1>7. OneCall'
  <2> SUFFICES ASSUME ~overlapped'
               PROVE  OneCall'
    BY DEF OneCall
  <2>1. ~overlapped /\ \A d \in Callers \ {c} : call[d] = Idle
    BY <1>1, Alone
  <2>2. \A d \in Callers : call'[d] = Idle
    BY <1>3, <2>1
  <2>3. Active' = {}
    BY <1>1, <2>1 DEF OneCall, Active
  <2> QED BY <1>2, <2>2, <2>3, NobodyCalls DEF Created
<1> QED BY <1>3, <1>4, <1>5, <1>6, <1>7

LEMMA SchedulerInitially == SchedulerInit => SchedulerIInv
<1> SUFFICES ASSUME SchedulerInit
             PROVE  SchedulerIInv
  OBVIOUS
<1>1. Idle \in CallRecords /\ Rest \in [Locations ->
                  [at : {"probing", "storing", "alerting", "done"},
                   status : CheckStatuses \union {Unknown}]]
  BY DEF Idle, CallRecords, Rest, At
<1>2. CallsTypedToo
  BY <1>1 DEF SchedulerInit, CallsTypedToo
<1>3. SchedulerTypeOK
  <2>1. \A d \in Callers :
           /\ call[d].op \in {"idle", "update", "add", "delete", "start", "stop"}
           /\ call[d].waits \subseteq Loops
    BY <1>2, CallsAreTyped DEF CallsTypedToo
  <2>2. owner \in [Loops -> Monitors]
    <3>1. (CHOOSE m \in Monitors : TRUE) \in Monitors
      BY SchedulerAssumption DEF SchedulerAssumption
    <3> QED BY <3>1 DEF SchedulerInit
  <2>3. stops \in 0..MaxStops
    BY SchedulerAssumption DEF SchedulerInit, SchedulerAssumption
  <2>4. check \in [Loops -> [Locations ->
                  [at : {"probing", "storing", "alerting", "done"},
                   status : CheckStatuses \union {Unknown}]]]
    BY <1>1 DEF SchedulerInit
  <2>5. /\ running \in BOOLEAN /\ overlapped \in BOOLEAN
        /\ tasks \in [Monitors -> Loops \union {NoLoop}]
        /\ last \in [Monitors -> CheckStatuses \union {Unknown}]
        /\ phase \in [Loops -> {"new", "checking", "sleeping", "cancelled", "ended"}]
        /\ inRoutes \in [Monitors -> {"new", "yes", "deleted"}]
        /\ enabled \in [Monitors -> BOOLEAN]
    BY DEF SchedulerInit
  <2> QED BY <2>1, <2>2, <2>3, <2>4, <2>5 DEF SchedulerTypeOK
<1>4. \A d \in Callers : call[d] = Idle /\ call[d].op = "idle" /\ call[d].op \notin MonitorOps
  BY DEF SchedulerInit, Idle, MonitorOps
<1>5. DisabledIsUnregistered /\ StopsAreCounted /\ RoutesKnow
  BY <1>4, SchedulerAssumption
  DEF SchedulerInit, DisabledIsUnregistered, StopsAreCounted, RoutesKnow, Created, SchedulerAssumption
<1>6. EnabledIsRegistered
  BY DEF SchedulerInit, EnabledIsRegistered, Created
<1>7. Active = {}
  BY DEF SchedulerInit, Active
<1>8. OneCall
  BY <1>4, <1>7 DEF OneCall, SchedulerInit, Created
<1> QED BY <1>2, <1>3, <1>5, <1>6, <1>8 DEF SchedulerIInv

LEMMA SchedulerStep == SchedulerIInv /\ [SchedulerNext]_schedulerVars => SchedulerIInv'
<1> SUFFICES ASSUME SchedulerIInv, [SchedulerNext]_schedulerVars
             PROVE  SchedulerIInv'
  OBVIOUS
<1>1. CASE UNCHANGED schedulerVars
  <2>1. UNCHANGED <<running, tasks, last, phase, owner, check, inRoutes, enabled, call,
                    overlapped, stops>>
    BY <1>1 DEF schedulerVars, loopVars, routeVars
  <2>2. SchedulerTypeOK' /\ Active' \subseteq Active
    BY <2>1 DEF SchedulerIInv, SchedulerTypeOK, Active
  <2> QED BY <2>1, <2>2, LoopsMove
<1>2. ASSUME NEW l \in Loops, LoopStep(l)
      PROVE  SchedulerIInv'
  BY <1>2, LoopStepKeeps
<1>3. ASSUME NEW c \in Callers, Resume(c) \/ Start(c) \/ Stop(c)
      PROVE  SchedulerIInv'
  BY <1>3, FinishDeleteKeeps, FinishUpdateKeeps, FinishAddKeeps, FinishStartKeeps,
     FinishStopKeeps, StartKeeps, StopKeeps DEF Resume
<1>4. ASSUME NEW c \in Callers, NEW m \in Monitors,
             Create(c, m) \/ Update(c, m) \/ DeleteMonitor(c, m)
      PROVE  SchedulerIInv'
  BY <1>4, CreateKeeps, UpdateKeeps, DeleteKeeps
<1> QED BY <1>1, <1>2, <1>3, <1>4 DEF SchedulerNext

(* The flag and the registry agree, and one call at a time leaves no loop  *)
(* behind: the part of the invariant that the runs check.                  *)
LEMMA SchedulerImplied == SchedulerIInv => SchedulerInv
<1> SUFFICES ASSUME SchedulerIInv
             PROVE  SchedulerInv
  OBVIOUS
<1> USE DEF SchedulerIInv
<1>1. RegistryFollowsFlag
  BY DEF RegistryFollowsFlag, DisabledIsUnregistered, EnabledIsRegistered
<1>2. OneAtATimeIsExact
  <2> SUFFICES ASSUME ~overlapped
               PROVE  /\ \A l \in Active : tasks[owner[l]] = l
                      /\ \A m \in Created : (inRoutes[m] = "deleted" \/ ~enabled[m]) =>
                           \A l \in Active : owner[l] # m
    BY DEF OneAtATimeIsExact
  <2>1. \A l \in Active : tasks[owner[l]] = l /\ l # NoLoop
    BY SchedulerAssumption DEF OneCall, Active, SchedulerAssumption
  <2>2. \A m \in Created : (inRoutes[m] = "deleted" \/ ~enabled[m]) => tasks[m] = NoLoop
    BY DEF OneCall, DisabledIsUnregistered
  <2> QED BY <2>1, <2>2
<1> QED BY <1>1, <1>2 DEF SchedulerInv

(* The scheduler's registry follows the enabled flags of the routes until  *)
(* the first stop, however updates race; and while calls come one at a     *)
(* time every loop that is not cancelled is registered, and a deleted or   *)
(* disabled monitor has none (services/synthetics/scheduler.py).           *)
THEOREM RegistryIsExact == SchedulerSpec => []SchedulerInv
<1>1. SchedulerSpec => []SchedulerIInv
  BY SchedulerInitially, SchedulerStep, PTL DEF SchedulerSpec
<1> QED BY <1>1, SchedulerImplied, PTL

-----------------------------------------------------------------------------
(* The types of the tail and of the integrations, with their bounds.       *)
TailBounds ==
  /\ handler \in {"accepted", "streaming", "leaving", "left"}
  /\ client \in BOOLEAN
  /\ subscription \in {"none", "active", "gone"}
  /\ generator \in {"new", "waiting", "yielded", "closed"}
  /\ consumer \in {"none", "waiting", "acking", "ended"}
  /\ handling \in Lines \union {0}
  /\ Len(event) <= 1 /\ Len(queue) <= QueueSize
  /\ dropped <= matched
  /\ faults \in 0..MaxFaults /\ redelivered <= faults

LEMMA HandleBounds ==
  ASSUME TailIInv, TailBounds, Handle
  PROVE  TailBounds'
<1> USE DEF TailBounds
<1>1. /\ inbox # <<>> /\ handling' = Head(inbox) /\ consumer' = "acking"
      /\ UNCHANGED <<handler, event, client, subscription, generator, redelivered, faults>>
      /\ Shapes
  BY DEF Handle, TailIInv
<1>2. Head(inbox) \in Lines
  BY <1>1, HeadTailProperties DEF Shapes
<1>3. QueueSize \in Nat /\ Len(queue) \in Nat /\ matched \in Nat /\ dropped \in Nat
  BY <1>1, TailAssumption DEF QueueSize, TailAssumption, Shapes
<1>4. CASE Head(inbox) \in Matching
  <2>1. matched' = matched + 1 /\ Enqueue(Head(inbox))
    BY <1>4 DEF Handle
  <2>2. CASE Len(queue) < QueueSize
    <3>1. Len(queue') = Len(queue) + 1 /\ dropped' = dropped
      BY <1>1, <1>4, <2>1, <2>2, AppendProperties DEF Enqueue, Shapes
    <3> QED BY <1>1, <1>2, <1>3, <2>1, <2>2, <3>1 DEF QueueSize
  <2>3. CASE ~(Len(queue) < QueueSize)
    BY <1>1, <1>2, <1>3, <2>1, <2>3 DEF Enqueue, QueueSize
  <2> QED BY <2>2, <2>3
<1>5. CASE Head(inbox) \notin Matching
  BY <1>1, <1>2, <1>5 DEF Handle, tailStats, QueueSize
<1> QED BY <1>4, <1>5

LEMMA OtherTailBounds ==
  ASSUME TailIInv, TailBounds, [TailNext]_tailVars, ~Handle
  PROVE  TailBounds'
<1> USE DEF TailBounds, QueueSize
<1>1. CASE YieldLine
  <2>1. Len(Tail(queue)) <= Len(queue) /\ Len(queue) \in Nat /\ Len(Tail(queue)) \in Nat
        /\ QueueSize \in Nat
    BY <1>1, HeadTailProperties, TailAssumption DEF YieldLine, TailIInv, Shapes, TailAssumption
  <2>2. Len(queue') <= QueueSize
    BY <1>1, <2>1 DEF YieldLine
  <2> QED BY <1>1, <2>2 DEF YieldLine, server, tailStats
<1>2. CASE Redeliver
  <2>1. faults' \in 0..MaxFaults /\ redelivered' <= faults'
    BY <1>2, TailAssumption DEF Redeliver, TailIInv, Shapes, TailAssumption
  <2> QED BY <1>2, <2>1 DEF Redeliver, tailStats
<1>3. CASE AcknowledgeRaises
  <2>1. faults' \in 0..MaxFaults /\ redelivered' <= faults'
    BY <1>3, TailAssumption DEF AcknowledgeRaises, TailIInv, Shapes, TailAssumption
  <2> QED BY <1>3, <2>1 DEF AcknowledgeRaises, tailStats
<1>4. CASE Subscribe \/ SubscribeFails \/ Acknowledge \/ Heartbeat \/ LeaveTail
           \/ CloseGenerator \/ Publish \/ Disconnect \/ UNCHANGED tailVars
  <2>1. UNCHANGED <<queue, matched, dropped, redelivered, faults>>
    BY <1>4 DEF Subscribe, SubscribeFails, Acknowledge, Heartbeat, LeaveTail,
                CloseGenerator, Publish, Disconnect, tailVars, server, tailStats
  <2>2. event' = event \/ event' = <<>>
    BY <1>4 DEF Subscribe, SubscribeFails, Acknowledge, Heartbeat, LeaveTail,
                CloseGenerator, Publish, Disconnect, tailVars
  <2>3. Len(event') <= 1
    BY <2>2
  <2>4. handling' \in Lines \union {0} /\ client' \in BOOLEAN
    BY <1>4 DEF Subscribe, SubscribeFails, Acknowledge, Heartbeat, LeaveTail,
                CloseGenerator, Publish, Disconnect, tailVars
  <2>5. /\ handler' \in {"accepted", "streaming", "leaving", "left"}
        /\ subscription' \in {"none", "active", "gone"}
        /\ generator' \in {"new", "waiting", "yielded", "closed"}
        /\ consumer' \in {"none", "waiting", "acking", "ended"}
    BY <1>4 DEF Subscribe, SubscribeFails, Acknowledge, Heartbeat, LeaveTail,
                CloseGenerator, Publish, Disconnect, tailVars
  <2> QED BY <2>1, <2>3, <2>4, <2>5
<1>5. CASE Send
  BY <1>5 DEF Send, server, tailStats
<1> QED BY <1>1, <1>2, <1>3, <1>4, <1>5 DEF TailNext

LEMMA TailTypes == TailSpec => []TailTypeOK
<1>1. TailInit => TailBounds
  <2> SUFFICES ASSUME TailInit
               PROVE  TailBounds
    OBVIOUS
  <2>1. QueueSize \in Nat /\ MaxFaults \in Nat
    BY TailAssumption DEF QueueSize, TailAssumption
  <2>2. Len(event) = 0 /\ Len(queue) = 0 /\ dropped <= matched /\ redelivered <= faults
        /\ faults \in 0..MaxFaults
    BY <2>1 DEF TailInit
  <2>3. /\ handler = "accepted" /\ client = TRUE /\ subscription = "none" /\ generator = "new"
        /\ consumer = "none" /\ handling = 0
    BY DEF TailInit
  <2> QED BY <2>1, <2>2, <2>3 DEF TailBounds
<1>2. TailIInv /\ TailBounds /\ [TailNext]_tailVars => TailBounds'
  BY HandleBounds, OtherTailBounds
<1>3. TailIInv /\ TailBounds => TailTypeOK
  <2> SUFFICES ASSUME TailIInv, TailBounds
               PROVE  TailTypeOK
    OBVIOUS
  <2>1. dropped \in 0..matched
    BY DEF TailIInv, Shapes, TailBounds
  <2>2. redelivered \in 0..MaxFaults
    BY TailAssumption DEF TailIInv, Shapes, TailBounds, TailAssumption
  <2> QED BY <2>1, <2>2 DEF TailIInv, Shapes, TailBounds, TailTypeOK
<1> QED BY <1>1, <1>2, <1>3, TailInductive, PTL DEF TailSpec

(* A receiver acts on no more attempts than there were.                    *)
IntegrationBounds ==
  /\ givenOut \subseteq Instances
  /\ standing \in [Instances -> Statuses]
  /\ config \in [Instances -> {"old", "new"}]
  /\ attempts \in [Calls -> 0..Retries]
  /\ received \in [Calls -> 0..Retries]
  /\ \A c \in Calls : received[c] <= attempts[c]

LEMMA IntegrationBoundsKept ==
  ASSUME CallsInv, IntegrationBounds, [IntegrationNext]_integrationVars
  PROVE  IntegrationBounds'
<1> USE DEF IntegrationBounds
<1>1. ASSUME NEW c \in Calls, Attempt(c)
      PROVE  IntegrationBounds'
  <2>1. /\ attempts[c] < Retries
        /\ attempts' = [attempts EXCEPT ![c] = @ + 1]
        /\ received' = [received EXCEPT ![c] = @ + 1] \/ received' = received
        /\ UNCHANGED <<listed, givenOut, standing, config>>
    BY <1>1 DEF Attempt, objects
  <2>2. attempts[c] + 1 \in 0..Retries /\ received[c] + 1 \in 0..Retries
        /\ received[c] + 1 <= attempts[c] + 1 /\ received[c] <= attempts[c] + 1
    BY <2>1, IntegrationsAssumption DEF IntegrationsAssumption
  <2> QED BY <2>1, <2>2
<1>2. ASSUME NEW c \in Calls, EndCreate(c) \/ EndTest(c) \/ EndSync(c) \/ EndPut(c)
      PROVE  IntegrationBounds'
  BY <1>2 DEF EndCreate, EndTest, EndSync, EndPut, Settle, Statuses
<1>3. ASSUME NEW c \in Calls,
             \/ BeginCreate(c) \/ SendRefused(c) \/ GiveUp(c) \/ CreateRefused(c)
             \/ \E i \in Instances : Begin(c, i) \/ Delete(c, i)
      PROVE  IntegrationBounds'
  BY <1>3 DEF BeginCreate, SendRefused, GiveUp, CreateRefused, Begin, Delete, objects
<1>4. CASE UNCHANGED integrationVars
  BY <1>4 DEF integrationVars
<1> QED BY <1>1, <1>2, <1>3, <1>4 DEF IntegrationNext

LEMMA IntegrationTypes == IntegrationSpec => []IntegrationTypeOK
<1>1. IntegrationInit => IntegrationBounds
  BY IntegrationsAssumption DEF IntegrationInit, IntegrationBounds, Statuses, IntegrationsAssumption
<1>2. CallsInv /\ IntegrationBounds => IntegrationTypeOK
  BY DEF CallsInv, CallsTyped, IntegrationBounds, IntegrationTypeOK
<1> QED BY <1>1, <1>2, IntegrationBoundsKept, CallsInductive, PTL DEF IntegrationSpec

-----------------------------------------------------------------------------
(* In ApiServices each service behaves as it does alone ...                *)
LEMMA EachAlone ==
  ApiSpec => Spec /\ QuerySpec /\ TailSpec /\ IntegrationSpec /\ SchedulerSpec
<1>1. ApiInit => Init /\ QueryInit /\ TailInit /\ IntegrationInit /\ SchedulerInit
  BY DEF ApiInit
<1>2. [ApiNext]_apiVars => /\ [Next]_vars /\ [QueryNext]_queryVars /\ [TailNext]_tailVars
                           /\ [IntegrationNext]_integrationVars /\ [SchedulerNext]_schedulerVars
  BY DEF ApiNext, OthersRest, apiVars
<1> QED BY <1>1, <1>2, PTL DEF ApiSpec, Spec, QuerySpec, TailSpec, IntegrationSpec, SchedulerSpec

(* ... so what it guarantees alone holds there: the types and the clients  *)
(* behind the permits of connection_pool.py, ...                           *)
THEOREM ApiInvariant == ApiSpec => []ApiInv
<1>1. TypeOK /\ QueryTypeOK /\ TailTypeOK /\ IntegrationTypeOK /\ PermitMeansClient => ApiInv
  BY DEF ApiInv
<1> QED BY <1>1, EachAlone, TypeCorrect, QueryTypes, TailTypes, IntegrationTypes,
        PermitsAreBacked, PTL

(* ... and every safety property the runs check of the pool, the query     *)
(* cache, the tail, the integrations and the scheduler.                    *)
THEOREM ApiKeepsPromises ==
  ApiSpec => /\ []PoolStaysWhole /\ ClosedHandsOutNothing
             /\ AnswersAreFresh /\ NeverBackwards
             /\ []TailIsHonest /\ DeletedStaysDeleted /\ []SchedulerInv
BY EachAlone, PoolIsWhole, ClosedIsClosed, AnswersStayFresh,
   AnswersStayMonotone, Honest, StaysDeleted, RegistryIsExact

=============================================================================
