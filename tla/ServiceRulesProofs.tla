------------------------- MODULE ServiceRulesProofs -------------------------
(***************************************************************************)
(* Six services, each for any inputs and any bounds: alert rules, whose    *)
(* creation may be answered from either of two stores; the rate limit and  *)
(* the calls of the ingest routes; experiments on agents, whose results    *)
(* are read while outcomes come in; objectives, whose verdicts come from   *)
(* separate queries; the incidents and figures of synthetic checks; and    *)
(* the waterfalls of executions, put together from the rows of several     *)
(* flushes.  The library they rest on comes first.                         *)
(***************************************************************************)
EXTENDS AlertRules, RateLimiter, IngestRoutes, AgentExperiments, Slo, SyntheticChecks, AgentTracing,
        FiniteSetTheorems, WellFoundedInduction, TLAPS

-----------------------------------------------------------------------------
(* A set of numbers has a least one.  It is what an induction over the     *)
(* numbers comes to that needs no operator as a parameter.                 *)
LEMMA LeastNumber ==
  ASSUME NEW T \in SUBSET Nat, T # {}
  PROVE  \E x \in T : \A y \in T : x <= y
<1> DEFINE R == OpToRel(<, Nat)
<1>1. IsWellFoundedOn(R, Nat)
  BY NatLessThanWellFounded
<1>2. \A x, y \in Nat : x < y => <<x, y>> \in R
  BY DEF OpToRel
<1> HIDE DEF R
<1>3. \E x \in T : \A y \in T : ~ (<<y, x>> \in R)
  BY <1>1, WFMin
<1>4. \A x, y \in T : x <= y \/ y < x
  OBVIOUS
<1>5. \A x, y \in T : y < x => <<y, x>> \in R
  BY <1>2
<1> QED BY <1>3, <1>4, <1>5

-----------------------------------------------------------------------------
(* Induction where what is claimed is a set: of numbers, or of subsets of  *)
(* a finite set.                                                           *)
LEMMA CountingUp ==
  ASSUME NEW H, 0 \in H, \A n \in Nat : n \in H => n + 1 \in H
  PROVE  Nat \subseteq H
<1> SUFFICES ASSUME Nat \ H # {}
             PROVE  FALSE
  OBVIOUS
<1>1. Nat \ H \in SUBSET Nat
  OBVIOUS
<1>2. PICK n \in Nat \ H : \A m \in Nat \ H : n <= m
  BY <1>1, LeastNumber
<1>3. n \in Nat /\ n # 0
  BY <1>2
<1>4. n - 1 \in Nat /\ ~ (n <= n - 1) /\ (n - 1) + 1 = n
  BY <1>3
<1>5. n - 1 \in H
  BY <1>2, <1>4
<1> QED BY <1>2, <1>4, <1>5

LEMMA GrowingSets ==
  ASSUME NEW S, IsFiniteSet(S), NEW H, {} \in H,
         \A T \in SUBSET S : \A x \in S \ T : T \in H => T \union {x} \in H
  PROVE  S \in H
<1> DEFINE Sized == {n \in Nat : \A T \in SUBSET S : Cardinality(T) = n => T \in H}
<1>1. \A T \in SUBSET S : IsFiniteSet(T) /\ Cardinality(T) \in Nat
  BY FS_Subset, FS_CardinalityType
<1>2. 0 \in Sized
  <2>1. \A T \in SUBSET S : Cardinality(T) = 0 => T = {}
    BY <1>1, FS_EmptySet
  <2> QED BY <2>1
<1>3. ASSUME NEW n \in Nat, n \in Sized PROVE n + 1 \in Sized
  <2>1. ASSUME NEW T \in SUBSET S, Cardinality(T) = n + 1 PROVE T \in H
    <3>1. T # {}
      BY <2>1, <1>1, FS_EmptySet
    <3>2. PICK x \in T : TRUE
      BY <3>1
    <3>3. Cardinality(T \ {x}) = n
      <4>1. Cardinality(T \ {x}) = Cardinality(T) - 1
        BY <1>1, FS_RemoveElement
      <4> QED BY <4>1, <2>1
    <3>4. T \ {x} \in SUBSET S /\ x \in S \ (T \ {x}) /\ (T \ {x}) \union {x} = T
      BY <3>2
    <3>5. T \ {x} \in H
      BY <1>3, <3>3, <3>4
    <3> QED BY <3>4, <3>5
  <2> QED BY <2>1
<1> HIDE DEF Sized
<1>4. Nat \subseteq Sized
  BY <1>2, <1>3, CountingUp
<1> QED BY <1>1, <1>4 DEF Sized

LEMMA ImageIsFinite ==
  ASSUME NEW S, IsFiniteSet(S), NEW f
  PROVE  IsFiniteSet({f[x] : x \in S})
<1> DEFINE H == {s \in SUBSET S : IsFiniteSet({f[x] : x \in s})}
<1>1. {} \in H
  <2>1. {f[x] : x \in {}} = {}
    OBVIOUS
  <2> QED BY <2>1, FS_EmptySet
<1>2. ASSUME NEW T \in SUBSET S, NEW x \in S \ T, T \in H PROVE T \union {x} \in H
  <2>1. {f[y] : y \in T \union {x}} = {f[y] : y \in T} \union {f[x]}
    OBVIOUS
  <2>2. IsFiniteSet({f[y] : y \in T} \union {f[x]})
    BY <1>2, FS_AddElement
  <2> QED BY <2>1, <2>2
<1> HIDE DEF H
<1>3. S \in H
  BY <1>1, <1>2, GrowingSets
<1> QED BY <1>3 DEF H

LEMMA ImageIsSmaller ==
  ASSUME NEW S, IsFiniteSet(S), NEW f
  PROVE  Cardinality({f[x] : x \in S}) <= Cardinality(S)
<1> DEFINE T == {f[x] : x \in S}
           g == [x \in S |-> f[x]]
<1>1. g \in Surjection(S, T)
  BY DEF Surjection
<1> QED BY <1>1, FS_Surjection

(* Of finitely many things in a row there is a first.                      *)
LEMMA FirstOf ==
  ASSUME NEW S, IsFiniteSet(S), S # {}, NEW R,
         \A x, y \in S : x = y \/ <<x, y>> \in R \/ <<y, x>> \in R,
         \A x, y, z \in S : <<x, y>> \in R /\ <<y, z>> \in R => <<x, z>> \in R
  PROVE  \E x \in S : \A y \in S : x = y \/ <<x, y>> \in R
<1> DEFINE H == {s \in SUBSET S : s = {} \/ \E x \in s : \A y \in s : x = y \/ <<x, y>> \in R}
<1>1. {} \in H
  OBVIOUS
<1>2. ASSUME NEW s \in SUBSET S, NEW a \in S \ s, s \in H PROVE s \union {a} \in H
  <2>1. CASE s = {}
    BY <2>1
  <2>2. CASE s # {}
    <3>1. PICK x \in s : \A y \in s : x = y \/ <<x, y>> \in R
      BY <1>2, <2>2
    <3>2. CASE <<x, a>> \in R
      BY <3>1, <3>2
    <3>3. CASE <<a, x>> \in R
      <4>1. \A y \in s : <<a, y>> \in R
        BY <3>1, <3>3
      <4> QED BY <4>1
    <3>4. x # a
      BY <3>1
    <3> QED BY <3>2, <3>3, <3>4
  <2> QED BY <2>1, <2>2
<1> HIDE DEF H
<1>3. S \in H
  BY <1>1, <1>2, GrowingSets
<1> QED BY <1>3 DEF H

LEMMA SequencesAreFew ==
  ASSUME NEW D, IsFiniteSet(D), NEW n \in Nat
  PROVE  IsFiniteSet([1..n -> D])
<1> DEFINE H == {m \in Nat : IsFiniteSet([1..m -> D])}
<1>1. 0 \in H
  <2>1. \A f, g \in [1..0 -> D] : f = g
    OBVIOUS
  <2>2. PICK e : e \in [1..0 -> D]
    <3>1. [x \in 1..0 |-> x] \in [1..0 -> D]
      OBVIOUS
    <3> QED BY <3>1
  <2>3. [1..0 -> D] = {e}
    BY Zenon, <2>1, <2>2
  <2>4. IsFiniteSet({e})
    BY Zenon, FS_Singleton
  <2>5. 0 \in Nat /\ IsFiniteSet([1..0 -> D])
    BY Zenon, <2>3, <2>4
  <2> QED BY Zenon, <2>5
<1>2. ASSUME NEW m \in Nat, m \in H PROVE m + 1 \in H
  <2> DEFINE A == [1..m -> D] \X D
             more == [x \in A |-> [k \in 1..(m + 1) |-> IF k <= m THEN x[1][k] ELSE x[2]]]
  <2>1. IsFiniteSet(A)
    BY <1>2, FS_Product
  <2>2. IsFiniteSet({more[x] : x \in A})
    <3> HIDE DEF A, more
    <3> QED BY <2>1, ImageIsFinite
  <2>3. ASSUME NEW f \in [1..(m + 1) -> D] PROVE f \in {more[x] : x \in A}
    <3> DEFINE g == [k \in 1..m |-> f[k]]
               x == <<g, f[m + 1]>>
    <3>1. m + 1 \in 1..(m + 1) /\ \A k \in 1..m : k \in 1..(m + 1) /\ k <= m
      OBVIOUS
    <3>2. x \in A
      BY <3>1
    <3>3. \A k \in 1..(m + 1) : IF k <= m THEN k \in 1..m ELSE k = m + 1
      OBVIOUS
    <3>4. \A k \in 1..(m + 1) : f[k] = IF k <= m THEN x[1][k] ELSE x[2]
      BY <3>3
    <3>5. f = [k \in 1..(m + 1) |-> f[k]]
      OBVIOUS
    <3>6. more[x] = [k \in 1..(m + 1) |-> IF k <= m THEN x[1][k] ELSE x[2]]
      BY <3>2
    <3> HIDE DEF x, more, A
    <3>7. more[x] = f
      BY <3>4, <3>5, <3>6
    <3> QED BY <3>2, <3>7
  <2> HIDE DEF more, A
  <2>4. [1..(m + 1) -> D] \subseteq {more[x] : x \in A}
    BY <2>3
  <2> QED BY <2>2, <2>4, FS_Subset
<1> HIDE DEF H
<1>3. n \in H
  BY <1>1, <1>2, CountingUp
<1> QED BY <1>3 DEF H

-----------------------------------------------------------------------------
(* Sums over finite sets, as the recursive function MapThenSumSet is.      *)
SumsUp(f, S, sum) ==
  sum = [s \in SUBSET S |-> IF s = {} THEN 0
                            ELSE f[CHOOSE x \in s : TRUE] + sum[s \ {CHOOSE x \in s : TRUE}]]

SumOf(f, S) == (CHOOSE sum : SumsUp(f, S, sum))[S]

LEMMA SumExists ==
  ASSUME NEW S, IsFiniteSet(S), NEW f, \A x \in S : f[x] \in Int
  PROVE  \E sum \in [SUBSET S -> Int] : SumsUp(f, S, sum)
<1> DEFINE c(s) == CHOOSE x \in s : TRUE
           Small(n) == {s \in SUBSET S : Cardinality(s) <= n}
           Good(n, g) == \A s \in Small(n) : g[s] = IF s = {} THEN 0 ELSE f[c(s)] + g[s \ {c(s)}]
           H == {n \in Nat : \E g \in [Small(n) -> Int] : Good(n, g)}
<1>1. \A s \in SUBSET S : IsFiniteSet(s) /\ Cardinality(s) \in Nat
  BY FS_Subset, FS_CardinalityType
<1>2. \A s \in SUBSET S : s # {} => /\ c(s) \in s
                                    /\ s \ {c(s)} \in SUBSET S
                                    /\ Cardinality(s \ {c(s)}) = Cardinality(s) - 1
  BY <1>1, FS_RemoveElement
<1> HIDE DEF c
<1>3. 0 \in H
  <2> DEFINE g == [s \in Small(0) |-> 0]
  <2>1. \A s \in Small(0) : s = {}
    BY <1>1, FS_EmptySet
  <2>2. g \in [Small(0) -> Int]
    OBVIOUS
  <2>3. Good(0, g)
    BY <2>1
  <2> QED BY <2>2, <2>3
<1>4. ASSUME NEW n \in Nat, n \in H PROVE n + 1 \in H
  <2>1. PICK g \in [Small(n) -> Int] : Good(n, g)
    BY <1>4
  <2> DEFINE h == [s \in Small(n + 1) |-> IF s = {} THEN 0 ELSE f[c(s)] + g[s \ {c(s)}]]
  <2>2. \A s \in Small(n + 1) : s # {} => s \ {c(s)} \in Small(n) /\ c(s) \in S
    BY <1>1, <1>2
  <2>3. h \in [Small(n + 1) -> Int]
    <3>1. \A s \in Small(n + 1) : s # {} => f[c(s)] \in Int /\ g[s \ {c(s)}] \in Int
      BY <2>2
    <3> QED BY <3>1
  <2>4. \A s \in Small(n) : s \in Small(n + 1) /\ h[s] = g[s]
    <3>1. \A s \in Small(n) : s \in Small(n + 1)
      BY <1>1
    <3> QED BY <3>1, <2>1
  <2>5. Good(n + 1, h)
    <3>1. ASSUME NEW s \in Small(n + 1), s # {} PROVE h[s] = f[c(s)] + h[s \ {c(s)}]
      <4>1. h[s \ {c(s)}] = g[s \ {c(s)}]
        BY <3>1, <2>2, <2>4
      <4> QED BY <3>1, <4>1
    <3>2. \A s \in Small(n + 1) : s = {} => h[s] = 0
      OBVIOUS
    <3> HIDE DEF h
    <3> QED BY <3>1, <3>2
  <2> HIDE DEF Good, Small, h
  <2> QED BY <2>3, <2>5
<1> HIDE DEF H
<1>5. Nat \subseteq H
  BY <1>3, <1>4, CountingUp
<1>6. Cardinality(S) \in H
  BY <1>1, <1>5
<1>7. Small(Cardinality(S)) = SUBSET S
  BY <1>1, FS_Subset
<1> HIDE DEF Small
<1>8. PICK g \in [SUBSET S -> Int] : Good(Cardinality(S), g)
  BY <1>6, <1>7 DEF H
<1>9. SumsUp(f, S, g)
  <2>1. \A s \in SUBSET S : g[s] = IF s = {} THEN 0 ELSE f[c(s)] + g[s \ {c(s)}]
    BY <1>7, <1>8
  <2>2. g = [s \in SUBSET S |-> IF s = {} THEN 0 ELSE f[c(s)] + g[s \ {c(s)}]]
    BY <2>1
  <2> QED BY <2>2 DEF SumsUp, c
<1> QED BY <1>9

(* The function is the only one.                                           *)
LEMMA SumUnique ==
  ASSUME NEW S, IsFiniteSet(S), NEW f, NEW a, NEW b, SumsUp(f, S, a), SumsUp(f, S, b)
  PROVE  a = b
<1> DEFINE H == {n \in Nat : \A s \in SUBSET S : Cardinality(s) = n => a[s] = b[s]}
           c(s) == CHOOSE x \in s : TRUE
<1>1. \A s \in SUBSET S : IsFiniteSet(s) /\ Cardinality(s) \in Nat
  BY FS_Subset, FS_CardinalityType
<1>2. \A s \in SUBSET S : s # {} => s \ {c(s)} \in SUBSET S /\ Cardinality(s \ {c(s)}) = Cardinality(s) - 1
  BY <1>1, FS_RemoveElement
<1>3. \A s \in SUBSET S : /\ a[s] = IF s = {} THEN 0 ELSE f[c(s)] + a[s \ {c(s)}]
                          /\ b[s] = IF s = {} THEN 0 ELSE f[c(s)] + b[s \ {c(s)}]
  BY DEF SumsUp
<1> HIDE DEF c
<1>4. 0 \in H
  <2>1. \A s \in SUBSET S : Cardinality(s) = 0 => s = {}
    BY <1>1, FS_EmptySet
  <2> QED BY <2>1, <1>3
<1>5. ASSUME NEW n \in Nat, n \in H PROVE n + 1 \in H
  <2>1. ASSUME NEW s \in SUBSET S, Cardinality(s) = n + 1 PROVE a[s] = b[s]
    <3>1. s # {}
      BY <2>1, <1>1, FS_EmptySet
    <3>2. a[s \ {c(s)}] = b[s \ {c(s)}]
      BY <1>2, <1>5, <2>1, <3>1
    <3> QED BY <1>3, <3>1, <3>2
  <2> QED BY <2>1
<1> HIDE DEF H
<1>6. Nat \subseteq H
  BY <1>4, <1>5, CountingUp
<1>7. \A s \in SUBSET S : a[s] = b[s]
  BY <1>1, <1>6 DEF H
<1>8. a = [s \in SUBSET S |-> a[s]] /\ b = [s \in SUBSET S |-> b[s]]
  BY DEF SumsUp
<1> QED BY <1>7, <1>8

LEMMA SumIs ==
  ASSUME NEW S, IsFiniteSet(S), NEW f, \A x \in S : f[x] \in Int, NEW sum, SumsUp(f, S, sum)
  PROVE  SumOf(f, S) = sum[S]
<1>1. SumsUp(f, S, CHOOSE g : SumsUp(f, S, g))
  OBVIOUS
<1> QED BY <1>1, SumUnique DEF SumOf

LEMMA SumSteps ==
  ASSUME NEW S, IsFiniteSet(S), NEW f, \A x \in S : f[x] \in Int
  PROVE  /\ SumOf(f, S) \in Int
         /\ S = {} => SumOf(f, S) = 0
         /\ S # {} => LET x == CHOOSE y \in S : TRUE IN SumOf(f, S) = f[x] + SumOf(f, S \ {x})
<1>1. PICK sum \in [SUBSET S -> Int] : SumsUp(f, S, sum)
  BY SumExists
<1>2. SumOf(f, S) = sum[S]
  BY <1>1, SumIs
<1>3. S \in SUBSET S
  OBVIOUS
<1>4. sum[S] \in Int
  BY <1>1, <1>3
<1>5. S = {} => sum[S] = 0
  BY <1>1, <1>3 DEF SumsUp
<1>6. ASSUME S # {} PROVE LET x == CHOOSE y \in S : TRUE IN SumOf(f, S) = f[x] + SumOf(f, S \ {x})
  <2> DEFINE x == CHOOSE y \in S : TRUE
             T == S \ {x}
             part == [s \in SUBSET T |-> sum[s]]
  <2>1. sum[S] = f[x] + sum[T]
    BY <1>1, <1>3, <1>6 DEF SumsUp
  <2>2. IsFiniteSet(T) /\ \A y \in T : f[y] \in Int
    BY FS_RemoveElement
  <2>3. SumsUp(f, T, part)
    <3> DEFINE c(s) == CHOOSE y \in s : TRUE
    <3>1. \A s \in SUBSET S : sum[s] = IF s = {} THEN 0 ELSE f[c(s)] + sum[s \ {c(s)}]
      BY <1>1 DEF SumsUp
    <3> HIDE DEF c
    <3>2. \A s \in SUBSET T : s \in SUBSET S /\ s \ {c(s)} \in SUBSET T
      OBVIOUS
    <3>3. \A s \in SUBSET T : part[s] = IF s = {} THEN 0 ELSE f[c(s)] + part[s \ {c(s)}]
      BY <3>1, <3>2
    <3>4. part = [s \in SUBSET T |-> IF s = {} THEN 0 ELSE f[c(s)] + part[s \ {c(s)}]]
      BY <3>3
    <3> QED BY <3>4 DEF SumsUp, c
  <2>4. SumOf(f, T) = part[T]
    BY <2>2, <2>3, SumIs
  <2>5. part[T] = sum[T]
    OBVIOUS
  <2> HIDE DEF T, part
  <2> QED BY <1>2, <2>1, <2>4, <2>5 DEF T
<1> QED BY <1>2, <1>4, <1>5, <1>6

(* Which element is taken first does not matter.                           *)
LEMMA SumTakeOut ==
  ASSUME NEW S, IsFiniteSet(S), NEW f, \A x \in S : f[x] \in Int, NEW x \in S
  PROVE  SumOf(f, S) = f[x] + SumOf(f, S \ {x})
<1> DEFINE H == {n \in Nat : \A s \in SUBSET S : Cardinality(s) = n =>
                               \A y \in s : SumOf(f, s) = f[y] + SumOf(f, s \ {y})}
           c(s) == CHOOSE y \in s : TRUE
<1>1. \A s \in SUBSET S : IsFiniteSet(s) /\ Cardinality(s) \in Nat
  BY FS_Subset, FS_CardinalityType
<1>2. \A s \in SUBSET S : \A y \in s : s \ {y} \in SUBSET S /\ Cardinality(s \ {y}) = Cardinality(s) - 1
  BY <1>1, FS_RemoveElement
<1>3. ASSUME NEW s \in SUBSET S
      PROVE  /\ SumOf(f, s) \in Int
             /\ s # {} => c(s) \in s /\ SumOf(f, s) = f[c(s)] + SumOf(f, s \ {c(s)})
  BY <1>1, SumSteps
<1> HIDE DEF c
<1>4. 0 \in H
  <2>1. \A s \in SUBSET S : Cardinality(s) = 0 => s = {}
    BY <1>1, FS_EmptySet
  <2> QED BY <2>1
<1>5. ASSUME NEW n \in Nat, n \in H PROVE n + 1 \in H
  <2>1. ASSUME NEW s \in SUBSET S, Cardinality(s) = n + 1, NEW y \in s
        PROVE  SumOf(f, s) = f[y] + SumOf(f, s \ {y})
    <3>1. c(s) \in s /\ SumOf(f, s) = f[c(s)] + SumOf(f, s \ {c(s)})
      BY <1>3
    <3>2. CASE y = c(s)
      BY <3>1, <3>2
    <3>3. CASE y # c(s)
      <4> DEFINE z == c(s)
      <4> HIDE DEF z
      <4>1. z \in s /\ z # y
        BY <3>1, <3>3 DEF z
      <4>2. /\ Cardinality(s \ {z}) = n /\ Cardinality(s \ {y}) = n
            /\ s \ {z} \in SUBSET S /\ s \ {y} \in SUBSET S
            /\ y \in s \ {z} /\ z \in s \ {y}
        BY <1>2, <2>1, <4>1
      <4>3. SumOf(f, s \ {z}) = f[y] + SumOf(f, (s \ {z}) \ {y})
        BY <1>5, <4>2
      <4>4. SumOf(f, s \ {y}) = f[z] + SumOf(f, (s \ {y}) \ {z})
        BY <1>5, <4>2
      <4>5. (s \ {z}) \ {y} = (s \ {y}) \ {z}
        OBVIOUS
      <4> DEFINE rest == SumOf(f, (s \ {y}) \ {z})
      <4>6. rest \in Int
        BY <1>3
      <4>7. f[z] \in Int /\ f[y] \in Int
        BY <4>1
      <4>8. SumOf(f, s \ {z}) = f[y] + rest /\ SumOf(f, s \ {y}) = f[z] + rest
        BY <4>3, <4>4, <4>5
      <4>9. SumOf(f, s) = f[z] + SumOf(f, s \ {z})
        BY <3>1 DEF z
      <4> HIDE DEF rest
      <4> QED BY <4>6, <4>7, <4>8, <4>9
    <3> QED BY <3>2, <3>3
  <2> QED BY <2>1
<1> HIDE DEF H
<1>6. Nat \subseteq H
  BY <1>4, <1>5, CountingUp
<1> QED BY <1>1, <1>6 DEF H

LEMMA SumType ==
  ASSUME NEW S, IsFiniteSet(S), NEW f, \A x \in S : f[x] \in Int
  PROVE  SumOf(f, S) \in Int
BY SumSteps

LEMMA SumOfNothing ==
  ASSUME NEW f
  PROVE  SumOf(f, {}) = 0
<1>1. IsFiniteSet({}) /\ \A x \in {} : f[x] \in Int
  BY FS_EmptySet
<1> QED BY <1>1, SumSteps

LEMMA SumPutIn ==
  ASSUME NEW S, IsFiniteSet(S), NEW f, NEW x, x \notin S, \A y \in S \union {x} : f[y] \in Int
  PROVE  SumOf(f, S \union {x}) = f[x] + SumOf(f, S)
<1>1. IsFiniteSet(S \union {x})
  BY FS_AddElement
<1>2. x \in S \union {x} /\ (S \union {x}) \ {x} = S
  OBVIOUS
<1> DEFINE T == S \union {x}
<1>3. IsFiniteSet(T) /\ x \in T /\ \A y \in T : f[y] \in Int
  BY <1>1
<1> HIDE DEF T
<1>4. SumOf(f, T) = f[x] + SumOf(f, T \ {x})
  BY <1>3, SumTakeOut
<1> QED BY <1>2, <1>4 DEF T

(* Only the values on the set count.                                       *)
LEMMA SumAgrees ==
  ASSUME NEW S, IsFiniteSet(S), NEW f, NEW g, \A x \in S : f[x] \in Int /\ f[x] = g[x]
  PROVE  SumOf(f, S) = SumOf(g, S)
<1> DEFINE H == {s \in SUBSET S : SumOf(f, s) = SumOf(g, s)}
<1>1. {} \in H
  BY SumOfNothing
<1>2. ASSUME NEW T \in SUBSET S, NEW x \in S \ T, T \in H PROVE T \union {x} \in H
  <2>1. IsFiniteSet(T)
    BY FS_Subset
  <2>2. SumOf(f, T \union {x}) = f[x] + SumOf(f, T) /\ SumOf(g, T \union {x}) = g[x] + SumOf(g, T)
    BY <2>1, SumPutIn
  <2> QED BY <1>2, <2>2
<1> HIDE DEF H
<1>3. S \in H
  BY <1>1, <1>2, GrowingSets
<1> QED BY <1>3 DEF H

LEMMA SumOfUnion ==
  ASSUME NEW S, NEW T, IsFiniteSet(S), IsFiniteSet(T), S \intersect T = {},
         NEW f, \A x \in S \union T : f[x] \in Int
  PROVE  SumOf(f, S \union T) = SumOf(f, S) + SumOf(f, T)
<1> DEFINE H == {s \in SUBSET S : SumOf(f, s \union T) = SumOf(f, s) + SumOf(f, T)}
<1>0. SumOf(f, T) \in Int
  BY SumType
<1>1. {} \in H
  <2>1. {} \union T = T
    OBVIOUS
  <2> QED BY <1>0, <2>1, SumOfNothing
<1>2. ASSUME NEW s \in SUBSET S, NEW x \in S \ s, s \in H PROVE s \union {x} \in H
  <2>1. IsFiniteSet(s) /\ IsFiniteSet(s \union T)
    BY FS_Subset, FS_Union
  <2>2. SumOf(f, s \union {x}) = f[x] + SumOf(f, s)
    BY <2>1, SumPutIn
  <2> DEFINE U == s \union T
  <2>3. IsFiniteSet(U) /\ x \notin U /\ \A y \in U \union {x} : f[y] \in Int
    BY <2>1
  <2>4. (s \union {x}) \union T = U \union {x}
    OBVIOUS
  <2>7. SumOf(f, U) = SumOf(f, s) + SumOf(f, T)
    BY <1>2
  <2> HIDE DEF U
  <2>5. SumOf(f, U \union {x}) = f[x] + SumOf(f, U)
    BY <2>3, SumPutIn
  <2>6. SumOf(f, s) \in Int /\ f[x] \in Int
    BY <2>1, SumType
  <2>8. SumOf(f, U \union {x}) = SumOf(f, s \union {x}) + SumOf(f, T)
    BY <1>0, <2>2, <2>5, <2>6, <2>7
  <2>9. SumOf(f, (s \union {x}) \union T) = SumOf(f, U \union {x})
    BY <2>4, Zenon
  <2> QED BY <2>8, <2>9
<1> HIDE DEF H
<1>3. S \in H
  BY <1>1, <1>2, GrowingSets
<1> QED BY <1>3 DEF H

LEMMA SumsAdded ==
  ASSUME NEW S, IsFiniteSet(S), NEW f, NEW g, \A x \in S : f[x] \in Int /\ g[x] \in Int
  PROVE  SumOf([x \in S |-> f[x] + g[x]], S) = SumOf(f, S) + SumOf(g, S)
<1> DEFINE both == [x \in S |-> f[x] + g[x]]
           H == {s \in SUBSET S : SumOf(both, s) = SumOf(f, s) + SumOf(g, s)}
<1>0. \A x \in S : both[x] = f[x] + g[x] /\ both[x] \in Int
  OBVIOUS
<1> HIDE DEF both
<1>1. {} \in H
  BY SumOfNothing
<1>2. ASSUME NEW s \in SUBSET S, NEW x \in S \ s, s \in H PROVE s \union {x} \in H
  <2>1. IsFiniteSet(s)
    BY FS_Subset
  <2>2. /\ SumOf(f, s \union {x}) = f[x] + SumOf(f, s)
        /\ SumOf(g, s \union {x}) = g[x] + SumOf(g, s)
        /\ SumOf(both, s \union {x}) = both[x] + SumOf(both, s)
    BY <1>0, <2>1, SumPutIn
  <2>3. SumOf(f, s) \in Int /\ SumOf(g, s) \in Int
    BY <2>1, SumType
  <2>4. SumOf(both, s \union {x}) = SumOf(f, s \union {x}) + SumOf(g, s \union {x})
    BY <1>0, <1>2, <2>2, <2>3
  <2> QED BY <2>4
<1> HIDE DEF H
<1>3. S \in H
  BY <1>1, <1>2, GrowingSets
<1> QED BY <1>3 DEF H, both

(* Grouped by a key, the sums of the groups add up to the whole.           *)
LEMMA SumOfGroups ==
  ASSUME NEW S, IsFiniteSet(S), NEW f, \A x \in S : f[x] \in Int,
         NEW K, IsFiniteSet(K), NEW key, \A x \in S : key[x] \in K
  PROVE  SumOf([k \in K |-> SumOf(f, {x \in S : key[x] = k})], K) = SumOf(f, S)
<1> DEFINE G(k) == {x \in S : key[x] = k}
           byKey == [k \in K |-> SumOf(f, G(k))]
           In(J) == {x \in S : key[x] \in J}
           H == {J \in SUBSET K : SumOf(byKey, J) = SumOf(f, In(J))}
<1>0. \A k \in K : byKey[k] = SumOf(f, G(k)) /\ byKey[k] \in Int
  <2>1. ASSUME NEW k \in K PROVE SumOf(f, G(k)) \in Int
    <3>1. IsFiniteSet(G(k))
      BY FS_Subset
    <3> QED BY <3>1, SumType
  <2> QED BY <2>1
<1> HIDE DEF byKey
<1>1. {} \in H
  <2>1. In({}) = {}
    OBVIOUS
  <2> QED BY <2>1, SumOfNothing
<1>2. ASSUME NEW J \in SUBSET K, NEW k \in K \ J, J \in H PROVE J \union {k} \in H
  <2>1. IsFiniteSet(J) /\ IsFiniteSet(G(k)) /\ IsFiniteSet(In(J))
    BY FS_Subset
  <2>2. SumOf(byKey, J \union {k}) = byKey[k] + SumOf(byKey, J)
    BY <1>0, <2>1, SumPutIn
  <2>3. In(J \union {k}) = G(k) \union In(J) /\ G(k) \intersect In(J) = {}
    OBVIOUS
  <2>4. \A x \in G(k) \union In(J) : f[x] \in Int
    OBVIOUS
  <2>5. SumOf(byKey, J) = SumOf(f, In(J))
    BY <1>2
  <2>6. In(J \union {k}) = G(k) \union In(J) => SumOf(f, In(J \union {k})) = SumOf(f, G(k) \union In(J))
    OBVIOUS
  <2>7. SumOf(byKey, J \union {k}) = SumOf(f, In(J \union {k})) => J \union {k} \in H
    OBVIOUS
  <2>8. byKey[k] = SumOf(f, G(k))
    BY <1>0
  <2> HIDE DEF G, In, H
  <2>9. SumOf(f, G(k) \union In(J)) = SumOf(f, G(k)) + SumOf(f, In(J))
    BY <2>1, <2>3, <2>4, SumOfUnion
  <2> QED BY <2>2, <2>3, <2>5, <2>6, <2>7, <2>8, <2>9
<1>3. In(K) = S
  OBVIOUS
<1>4. K \in H => SumOf(byKey, K) = SumOf(f, In(K))
  OBVIOUS
<1> HIDE DEF H, In
<1>5. K \in H
  BY <1>1, <1>2, GrowingSets
<1>6. SumOf(byKey, K) = SumOf(f, S)
  BY <1>3, <1>4, <1>5
<1> QED BY <1>6 DEF byKey

(* The same summands under other names.                                    *)
LEMMA SumReindexed ==
  ASSUME NEW A, IsFiniteSet(A), NEW h, \A x, y \in A : h[x] = h[y] => x = y,
         NEW f, \A x \in A : f[h[x]] \in Int
  PROVE  SumOf(f, {h[x] : x \in A}) = SumOf([x \in A |-> f[h[x]]], A)
<1> DEFINE g == [x \in A |-> f[h[x]]]
           Img(s) == {h[x] : x \in s}
           H == {s \in SUBSET A : SumOf(f, Img(s)) = SumOf(g, s)}
<1>0. \A x \in A : g[x] = f[h[x]] /\ g[x] \in Int
  OBVIOUS
<1> HIDE DEF g
<1>1. {} \in H
  <2>1. Img({}) = {}
    OBVIOUS
  <2> QED BY <2>1, SumOfNothing
<1>2. ASSUME NEW s \in SUBSET A, NEW a \in A \ s, s \in H PROVE s \union {a} \in H
  <2>1. IsFiniteSet(s) /\ IsFiniteSet(Img(s))
    <3>1. IsFiniteSet(s)
      BY FS_Subset
    <3> QED BY <3>1, ImageIsFinite
  <2>2. Img(s \union {a}) = Img(s) \union {h[a]} /\ h[a] \notin Img(s)
    OBVIOUS
  <2>3. \A y \in Img(s) \union {h[a]} : f[y] \in Int
    OBVIOUS
  <2> HIDE DEF Img
  <2>4. SumOf(f, Img(s) \union {h[a]}) = f[h[a]] + SumOf(f, Img(s))
    BY <2>1, <2>2, <2>3, SumPutIn
  <2>5. SumOf(g, s \union {a}) = g[a] + SumOf(g, s)
    BY <1>0, <2>1, SumPutIn
  <2> QED BY <1>0, <1>2, <2>2, <2>4, <2>5
<1> HIDE DEF H
<1>3. A \in H
  BY <1>1, <1>2, GrowingSets
<1> QED BY <1>3 DEF H, g

(* What sums of natural numbers are bounded by.                            *)
LEMMA SumAtMost ==
  ASSUME NEW S, IsFiniteSet(S), NEW f, NEW g,
         \A x \in S : f[x] \in Int /\ g[x] \in Int /\ f[x] <= g[x]
  PROVE  SumOf(f, S) <= SumOf(g, S)
<1> DEFINE H == {s \in SUBSET S : SumOf(f, s) <= SumOf(g, s)}
<1>1. {} \in H
  BY SumOfNothing
<1>2. ASSUME NEW s \in SUBSET S, NEW a \in S \ s, s \in H PROVE s \union {a} \in H
  <2>1. IsFiniteSet(s)
    BY FS_Subset
  <2>2. SumOf(f, s \union {a}) = f[a] + SumOf(f, s) /\ SumOf(g, s \union {a}) = g[a] + SumOf(g, s)
    BY <2>1, SumPutIn
  <2>3. SumOf(f, s) \in Int /\ SumOf(g, s) \in Int
    BY <2>1, SumType
  <2>4. f[a] \in Int /\ g[a] \in Int /\ f[a] <= g[a]
    OBVIOUS
  <2>5. SumOf(f, s) <= SumOf(g, s)
    BY <1>2
  <2> QED BY <2>2, <2>3, <2>4, <2>5
<1> HIDE DEF H
<1>3. S \in H
  BY <1>1, <1>2, GrowingSets
<1> QED BY <1>3 DEF H

LEMMA SumOfZeros ==
  ASSUME NEW S, IsFiniteSet(S), NEW f, \A x \in S : f[x] = 0
  PROVE  SumOf(f, S) = 0
<1> DEFINE H == {s \in SUBSET S : SumOf(f, s) = 0}
<1>0. \A x \in S : f[x] \in Int
  OBVIOUS
<1>1. {} \in H
  BY SumOfNothing
<1>2. ASSUME NEW s \in SUBSET S, NEW a \in S \ s, s \in H PROVE s \union {a} \in H
  <2>1. IsFiniteSet(s)
    BY FS_Subset
  <2>2. SumOf(f, s \union {a}) = f[a] + SumOf(f, s)
    BY <1>0, <2>1, SumPutIn
  <2> QED BY <1>2, <2>2
<1> HIDE DEF H
<1>3. S \in H
  BY <1>1, <1>2, GrowingSets
<1> QED BY <1>3 DEF H

LEMMA SumOfNaturals ==
  ASSUME NEW S, IsFiniteSet(S), NEW f, \A x \in S : f[x] \in Nat
  PROVE  /\ SumOf(f, S) \in Nat
         /\ \A x \in S : f[x] <= SumOf(f, S)
         /\ \A s \in SUBSET S : SumOf(f, s) <= SumOf(f, S)
<1> DEFINE zero == [x \in S |-> 0]
<1>1. \A s \in SUBSET S : IsFiniteSet(s) /\ SumOf(f, s) \in Nat
  <2> SUFFICES ASSUME NEW s \in SUBSET S PROVE IsFiniteSet(s) /\ SumOf(f, s) \in Nat
    OBVIOUS
  <2>1. IsFiniteSet(s)
    BY FS_Subset
  <2>2. \A x \in s : zero[x] = 0
    OBVIOUS
  <2> HIDE DEF zero
  <2>3. SumOf(zero, s) = 0 /\ SumOf(zero, s) <= SumOf(f, s) /\ SumOf(f, s) \in Int
    BY <2>1, <2>2, SumOfZeros, SumAtMost, SumType
  <2> QED BY <2>1, <2>3
<1>2. ASSUME NEW s \in SUBSET S PROVE SumOf(f, s) <= SumOf(f, S)
  <2>1. s \intersect (S \ s) = {} /\ s \union (S \ s) = S /\ S \ s \in SUBSET S
    OBVIOUS
  <2>2. SumOf(f, S) = SumOf(f, s) + SumOf(f, S \ s)
    BY <1>1, <2>1, SumOfUnion
  <2> QED BY <1>1, <2>1, <2>2
<1>3. ASSUME NEW x \in S PROVE f[x] <= SumOf(f, S)
  <2>1. SumOf(f, S) = f[x] + SumOf(f, S \ {x}) /\ S \ {x} \in SUBSET S
    BY SumTakeOut
  <2> QED BY <1>1, <2>1
<1> QED BY <1>1, <1>2, <1>3

(* Rows first or columns first.                                            *)
LEMMA SumsSwapped ==
  ASSUME NEW S, IsFiniteSet(S), NEW T, IsFiniteSet(T), NEW f, \A x \in S : \A y \in T : f[x][y] \in Int
  PROVE  SumOf([x \in S |-> SumOf(f[x], T)], S)
           = SumOf([y \in T |-> SumOf([x \in S |-> f[x][y]], S)], T)
<1> DEFINE col(y) == [x \in S |-> f[x][y]]
           row == [x \in S |-> SumOf(f[x], T)]
           cols(s) == [y \in T |-> SumOf(col(y), s)]
           H == {s \in SUBSET S : SumOf(row, s) = SumOf(cols(s), T)}
<1>0. \A x \in S : row[x] = SumOf(f[x], T) /\ row[x] \in Int
  BY SumType
<1>1. \A y \in T : \A x \in S : col(y)[x] = f[x][y] /\ col(y)[x] \in Int
  OBVIOUS
<1>2. \A s \in SUBSET S : IsFiniteSet(s)
  BY FS_Subset
<1>3. \A s \in SUBSET S : \A y \in T : cols(s)[y] = SumOf(col(y), s) /\ cols(s)[y] \in Int
  <2> SUFFICES ASSUME NEW s \in SUBSET S, NEW y \in T
               PROVE  cols(s)[y] = SumOf(col(y), s) /\ SumOf(col(y), s) \in Int
    OBVIOUS
  <2>1. cols(s)[y] = SumOf(col(y), s)
    OBVIOUS
  <2> HIDE DEF col
  <2>2. SumOf(col(y), s) \in Int
    BY <1>1, <1>2, SumType
  <2> QED BY <2>1, <2>2
<1>4. {} \in H
  <2>1. \A y \in T : cols({})[y] = 0
    BY SumOfNothing
  <2> HIDE DEF cols
  <2>2. SumOf(cols({}), T) = 0
    BY <2>1, SumOfZeros
  <2> QED BY <2>2, SumOfNothing
<1> HIDE DEF col, row
<1>5. ASSUME NEW s \in SUBSET S, NEW a \in S \ s, s \in H PROVE s \union {a} \in H
  <2> DEFINE both == [y \in T |-> f[a][y] + cols(s)[y]]
             more == s \union {a}
  <2>0. more \in SUBSET S /\ a \in S
    OBVIOUS
  <2>1. SumOf(row, more) = row[a] + SumOf(row, s)
    BY <1>0, <1>2, SumPutIn
  <2>2. ASSUME NEW y \in T PROVE cols(more)[y] = both[y] /\ both[y] \in Int
    <3>1. SumOf(col(y), more) = col(y)[a] + SumOf(col(y), s)
      BY <1>1, <1>2, SumPutIn
    <3>2. cols(more)[y] = SumOf(col(y), more) /\ cols(s)[y] = SumOf(col(y), s) /\ cols(more)[y] \in Int
      BY <1>3, <2>0
    <3>3. col(y)[a] = f[a][y] /\ both[y] = f[a][y] + cols(s)[y]
      BY <1>1, <2>0
    <3> QED BY <3>1, <3>2, <3>3
  <2> HIDE DEF cols, more
  <2>3. \A y \in T : f[a][y] \in Int /\ cols(s)[y] \in Int
    BY <1>3, <2>0
  <2>4. SumOf(both, T) = SumOf(f[a], T) + SumOf(cols(s), T)
    BY <2>3, SumsAdded
  <2> HIDE DEF both
  <2>5. SumOf(cols(more), T) = SumOf(both, T)
    BY <2>2, SumAgrees
  <2>6. SumOf(row, s) = SumOf(cols(s), T)
    BY <1>5
  <2>7. row[a] = SumOf(f[a], T)
    BY <1>0, <2>0
  <2> QED BY <2>0, <2>1, <2>4, <2>5, <2>6, <2>7 DEF more
<1> HIDE DEF H
<1>6. S \in H
  BY <1>4, <1>5, GrowingSets
<1>7. SumOf(row, S) = SumOf(cols(S), T)
  BY <1>6 DEF H
<1> QED BY <1>7 DEF row, col

(* The last of several moments.                                            *)
LEMMA LatestMoment ==
  ASSUME NEW n \in Nat, NEW T \in SUBSET (0..n), T # {}
  PROVE  \E x \in T : \A y \in T : y <= x
<1> DEFINE back == {n - x : x \in T}
<1>1. back \in SUBSET Nat /\ back # {}
  <2>1. \A x \in T : n - x \in Nat
    OBVIOUS
  <2> QED BY <2>1
<1>2. PICK z \in back : \A y \in back : z <= y
  BY <1>1, LeastNumber
<1>3. PICK x \in T : z = n - x
  OBVIOUS
<1>4. \A y \in T : n - y \in back
  OBVIOUS
<1>5. ASSUME NEW y \in T PROVE y <= x
  <2>1. z <= n - y
    BY <1>2, <1>4
  <2>2. x \in 0..n /\ y \in 0..n
    OBVIOUS
  <2> QED BY <2>1, <2>2, <1>3
<1> QED BY <1>5

-----------------------------------------------------------------------------
(* A fold from the left over n elements takes them one after the other.    *)
LEMMA LargestOf ==
  ASSUME NEW n \in Nat, NEW s \in SUBSET (1..n), s # {}
  PROVE  Max(s) \in s /\ \A y \in s : y <= Max(s)
<1>1. s \in SUBSET (0..n)
  OBVIOUS
<1>2. \E x \in s : \A y \in s : x >= y
  BY <1>1, LatestMoment
<1> QED BY <1>2 DEF Max

LEMMA LargestOfFirst ==
  ASSUME NEW n \in Nat, NEW k \in 1..n
  PROVE  Max(1..k) = k /\ (1..k) \ {k} = 1..(k - 1) /\ 1..k \in SUBSET (1..n) /\ 1..k # {}
<1>1. 1..k \in SUBSET (1..n) /\ k \in 1..k
  OBVIOUS
<1>2. Max(1..k) \in 1..k /\ k <= Max(1..k)
  BY <1>1, LargestOf
<1> QED BY <1>1, <1>2

FoldsUp(n, base, step, iter) ==
  iter = [s \in SUBSET (1..n) |-> IF s = {} THEN base
                                  ELSE step[Max(s)][iter[s \ {Max(s)}]]]

LEMMA FoldExists ==
  ASSUME NEW n \in Nat, NEW St, NEW base \in St, NEW step \in [1..n -> [St -> St]]
  PROVE  \E iter \in [SUBSET (1..n) -> St] : FoldsUp(n, base, step, iter)
<1> DEFINE Small(k) == {s \in SUBSET (1..n) : Cardinality(s) <= k}
           Good(k, g) == \A s \in Small(k) : g[s] = IF s = {} THEN base
                                                    ELSE step[Max(s)][g[s \ {Max(s)}]]
           H == {k \in Nat : \E g \in [Small(k) -> St] : Good(k, g)}
<1>0. IsFiniteSet(1..n)
  BY FS_Interval
<1>1. \A s \in SUBSET (1..n) : IsFiniteSet(s) /\ Cardinality(s) \in Nat
  BY <1>0, FS_Subset, FS_CardinalityType
<1>2. \A s \in SUBSET (1..n) : s # {} => /\ Max(s) \in s
                                         /\ s \ {Max(s)} \in SUBSET (1..n)
                                         /\ Cardinality(s \ {Max(s)}) = Cardinality(s) - 1
  BY <1>1, FS_RemoveElement, LargestOf
<1>3. 0 \in H
  <2> DEFINE g == [s \in Small(0) |-> base]
  <2>1. \A s \in Small(0) : s = {}
    BY <1>1, FS_EmptySet
  <2>2. g \in [Small(0) -> St]
    OBVIOUS
  <2>3. Good(0, g)
    BY <2>1
  <2> QED BY <2>2, <2>3
<1>4. ASSUME NEW k \in Nat, k \in H PROVE k + 1 \in H
  <2>1. PICK g \in [Small(k) -> St] : Good(k, g)
    BY <1>4
  <2> DEFINE h == [s \in Small(k + 1) |-> IF s = {} THEN base ELSE step[Max(s)][g[s \ {Max(s)}]]]
  <2>2. \A s \in Small(k + 1) : s # {} => s \ {Max(s)} \in Small(k) /\ Max(s) \in 1..n
    <3> SUFFICES ASSUME NEW s \in Small(k + 1), s # {}
                 PROVE  s \ {Max(s)} \in Small(k) /\ Max(s) \in 1..n
      OBVIOUS
    <3>1. s \in SUBSET (1..n) /\ Cardinality(s) <= k + 1 /\ Cardinality(s) \in Nat
      BY <1>1
    <3>2. /\ Max(s) \in s /\ s \ {Max(s)} \in SUBSET (1..n)
          /\ Cardinality(s \ {Max(s)}) = Cardinality(s) - 1
      BY <1>2, <3>1
    <3>3. Cardinality(s \ {Max(s)}) <= k
      BY <3>1, <3>2
    <3> QED BY <3>1, <3>2, <3>3
  <2>3. h \in [Small(k + 1) -> St]
    <3>1. \A s \in Small(k + 1) : s # {} => step[Max(s)] \in [St -> St] /\ g[s \ {Max(s)}] \in St
      BY <2>2
    <3> QED BY <3>1
  <2>4. \A s \in Small(k) : s \in Small(k + 1) /\ h[s] = g[s]
    <3>1. \A s \in Small(k) : s \in Small(k + 1)
      BY <1>1
    <3> QED BY <3>1, <2>1
  <2>5. Good(k + 1, h)
    <3>1. ASSUME NEW s \in Small(k + 1), s # {} PROVE h[s] = step[Max(s)][h[s \ {Max(s)}]]
      <4>1. h[s \ {Max(s)}] = g[s \ {Max(s)}]
        BY <3>1, <2>2, <2>4
      <4> QED BY <3>1, <4>1
    <3>2. \A s \in Small(k + 1) : s = {} => h[s] = base
      OBVIOUS
    <3> HIDE DEF h
    <3> QED BY <3>1, <3>2
  <2> HIDE DEF Good, Small, h
  <2> QED BY <2>3, <2>5
<1> HIDE DEF H
<1>5. Nat \subseteq H
  BY <1>3, <1>4, CountingUp
<1>6. Cardinality(1..n) \in H
  BY <1>1, <1>5
<1>7. Small(Cardinality(1..n)) = SUBSET (1..n)
  BY <1>0, <1>1, FS_Subset
<1> HIDE DEF Small
<1>8. PICK g \in [SUBSET (1..n) -> St] : Good(Cardinality(1..n), g)
  BY <1>6, <1>7 DEF H
<1>9. \A s \in SUBSET (1..n) : g[s] = IF s = {} THEN base ELSE step[Max(s)][g[s \ {Max(s)}]]
  BY <1>7, <1>8
<1>10. g = [s \in SUBSET (1..n) |-> IF s = {} THEN base ELSE step[Max(s)][g[s \ {Max(s)}]]]
  BY <1>9
<1> QED BY <1>10 DEF FoldsUp

(* A fold that goes wherever its steps are typed is a walk.                *)
GoesOn(n, St, base, step, iter) ==
  /\ iter[{}] = base
  /\ \A s \in SUBSET (1..n) : s # {} /\ iter[s \ {Max(s)}] \in St =>
                               iter[s] = step[Max(s)][iter[s \ {Max(s)}]]
IsWalk(n, base, step, g) == g[0] = base /\ \A k \in 1..n : g[k] = step[k][g[k - 1]]

LEMMA FoldWalks ==
  ASSUME NEW n \in Nat, NEW St, NEW base \in St, NEW step \in [1..n -> [St -> St]], NEW iter,
         GoesOn(n, St, base, step, iter)
  PROVE  \E g \in [0..n -> St] : IsWalk(n, base, step, g) /\ g[n] = iter[1..n]
<1> DEFINE H == {k \in Nat : k <= n => /\ iter[1..k] \in St
                                       /\ k > 0 => iter[1..k] = step[k][iter[1..(k - 1)]]}
<1>1. 0 \in H
  <2>1. 1..0 = {}
    OBVIOUS
  <2> QED BY <2>1 DEF GoesOn
<1>2. ASSUME NEW k \in Nat, k \in H PROVE k + 1 \in H
  <2> SUFFICES ASSUME k + 1 <= n
               PROVE  /\ iter[1..(k + 1)] \in St
                      /\ iter[1..(k + 1)] = step[k + 1][iter[1..((k + 1) - 1)]]
    OBVIOUS
  <2>1. k + 1 \in 1..n /\ k <= n /\ (k + 1) - 1 = k
    OBVIOUS
  <2>2. /\ Max(1..(k + 1)) = k + 1 /\ (1..(k + 1)) \ {k + 1} = 1..((k + 1) - 1)
        /\ 1..(k + 1) \in SUBSET (1..n) /\ 1..(k + 1) # {}
    BY <2>1, LargestOfFirst
  <2>3. iter[1..k] \in St
    BY <1>2, <2>1
  <2>4. (1..(k + 1)) \ {Max(1..(k + 1))} = 1..k
    BY <2>1, <2>2
  <2>5. iter[1..(k + 1)] = step[Max(1..(k + 1))][iter[(1..(k + 1)) \ {Max(1..(k + 1))}]]
    BY <2>2, <2>3, <2>4 DEF GoesOn
  <2>6. iter[1..(k + 1)] = step[k + 1][iter[1..k]]
    BY <2>2, <2>4, <2>5
  <2>7. step[k + 1] \in [St -> St]
    BY <2>1
  <2> QED BY <2>1, <2>3, <2>6, <2>7
<1> HIDE DEF H
<1>3. Nat \subseteq H
  BY <1>1, <1>2, CountingUp
<1> DEFINE g == [k \in 0..n |-> iter[1..k]]
<1>4. \A k \in 0..n : iter[1..k] \in St /\ (k > 0 => iter[1..k] = step[k][iter[1..(k - 1)]])
  <2>1. \A k \in 0..n : k \in Nat /\ k <= n
    OBVIOUS
  <2> QED BY <1>3, <2>1 DEF H
<1>5. g \in [0..n -> St]
  BY <1>4
<1>6. g[0] = base
  <2>1. 1..0 = {} /\ 0 \in 0..n
    OBVIOUS
  <2> QED BY <2>1 DEF GoesOn
<1>7. ASSUME NEW k \in 1..n PROVE g[k] = step[k][g[k - 1]]
  <2>1. k \in 0..n /\ k - 1 \in 0..n /\ k > 0
    OBVIOUS
  <2> QED BY <1>4, <2>1
<1>8. g[n] = iter[1..n]
  OBVIOUS
<1> QED BY <1>5, <1>6, <1>7, <1>8 DEF IsWalk

-----------------------------------------------------------------------------
(* Alert rules.                                                            *)
Created == {r \in Rules : creation[r] # "none"}
AnyRule == Rules \union {DefaultRule}
Alerts == [rule : AnyRule, service : Services]

(* Only a rule somebody is creating, or created, is in a store.            *)
StoresHoldCreated ==
  /\ IsFiniteSet(Created)
  /\ stored \subseteq Created
  /\ ToSet(remembered) \subseteq Created \union {DefaultRule}

RuleKept ==
  \A r \in Rules :
    creation[r] = "confirmed" => r \in stored \union ToSet(remembered) \union lostMemory

AlertIInv == AlertTypeOK /\ StoresHoldCreated /\ RuleKept

LEMMA AlertBounds ==
  /\ HistorySize \in Nat /\ HistorySize # 0 /\ MaxPolls \in Nat /\ MaxTrouble \in Nat
  /\ DefaultRule \notin Rules
  /\ IsFiniteSet(Services)
<1>1. HistorySize \in Nat \ {0} /\ {MaxPolls, MaxTrouble} \subseteq Nat
  BY AlertAssumption DEF AlertAssumption
<1>2. DefaultRule \notin Rules /\ IsFiniteSet(Services)
  BY AlertAssumption DEF AlertAssumption
<1> QED BY <1>1, <1>2

LEMMA OneRule == \A x : ToSet(<<x>>) = {x}
<1> SUFFICES ASSUME NEW x
             PROVE  ToSet(<<x>>) = {x}
  OBVIOUS
<1>1. DOMAIN <<x>> = {1} /\ <<x>>[1] = x
  OBVIOUS
<1> DEFINE s == <<x>>
<1> HIDE DEF s
<1>2. \A y : y \in {s[i] : i \in {1}} <=> y = s[1]
  OBVIOUS
<1>3. DOMAIN s = {1} /\ s[1] = x
  BY <1>1 DEF s
<1>4. ToSet(s) = {x}
  BY <1>2, <1>3 DEF ToSet
<1> QED BY <1>4 DEF s

LEMMA InitAlert == AlertInit => AlertIInv
<1> SUFFICES ASSUME AlertInit
             PROVE  AlertIInv
  OBVIOUS
<1> USE DEF AlertInit
<1>1. AlertTypeOK
  <2>1. <<DefaultRule>> \in Seq(Rules \union {DefaultRule})
    OBVIOUS
  <2>2. /\ <<>> \in Seq([rule : Rules \union {DefaultRule}, service : Services])
        /\ Len(<<>>) <= HistorySize
    BY AlertBounds
  <2>3. 0 \in 0..MaxPolls /\ 0 \in 0..MaxTrouble
    BY AlertBounds
  <2> QED BY <2>1, <2>2, <2>3 DEF AlertTypeOK
<1>2. Created = {}
  BY DEF Created
<1>3. ToSet(remembered) = {DefaultRule}
  BY OneRule
<1>4. StoresHoldCreated
  BY <1>2, <1>3, FS_EmptySet DEF StoresHoldCreated
<1> QED BY <1>1, <1>4 DEF AlertIInv, RuleKept

LEMMA AppendedRule ==
  ASSUME NEW s, s \in Seq(AnyRule), NEW r \in AnyRule
  PROVE  /\ Append(s, r) \in Seq(AnyRule)
         /\ ToSet(Append(s, r)) = ToSet(s) \union {r}
<1>1. /\ Append(s, r) \in Seq(AnyRule) /\ Len(Append(s, r)) = Len(s) + 1 /\ Len(s) \in Nat
      /\ DOMAIN s = 1..Len(s) /\ DOMAIN Append(s, r) = 1..(Len(s) + 1)
      /\ Append(s, r)[Len(s) + 1] = r
      /\ \A i \in 1..Len(s) : Append(s, r)[i] = s[i]
  OBVIOUS
<1>2. ASSUME NEW x \in ToSet(Append(s, r)) PROVE x \in ToSet(s) \union {r}
  <2>1. PICK i \in 1..(Len(s) + 1) : x = Append(s, r)[i]
    BY <1>1, <1>2 DEF ToSet
  <2>2. i \in 1..Len(s) \/ i = Len(s) + 1
    BY <1>1
  <2> QED BY <1>1, <2>1, <2>2 DEF ToSet
<1>3. ASSUME NEW x \in ToSet(s) \union {r} PROVE x \in ToSet(Append(s, r))
  <2>1. CASE x = r
    <3>1. Len(s) + 1 \in 1..(Len(s) + 1)
      BY <1>1
    <3> QED BY <1>1, <2>1, <3>1 DEF ToSet
  <2>2. CASE x \in ToSet(s)
    <3>1. PICK i \in 1..Len(s) : x = s[i]
      BY <1>1, <2>2 DEF ToSet
    <3>2. i \in 1..(Len(s) + 1)
      BY <1>1
    <3> QED BY <1>1, <3>1, <3>2 DEF ToSet
  <2> QED BY <1>3, <2>1, <2>2
<1> QED BY <1>1, <1>2, <1>3

LEMMA CreateRuleKeeps ==
  ASSUME AlertIInv, NEW r \in Rules, CreateRule(r)
  PROVE  AlertIInv'
<1> USE DEF AlertIInv
<1>1. /\ creation' = [creation EXCEPT ![r] = "organization"]
      /\ UNCHANGED <<databaseUp, stored, remembered, loading, alertHistory, lostMemory, polls, trouble>>
  BY DEF CreateRule
<1>2. AlertTypeOK'
  BY <1>1 DEF AlertTypeOK
<1>3. Created' = Created \union {r}
  BY <1>1 DEF Created, AlertTypeOK
<1>4. IsFiniteSet(Created \union {r})
  BY FS_AddElement DEF StoresHoldCreated
<1>5. StoresHoldCreated'
  BY <1>1, <1>3, <1>4 DEF StoresHoldCreated
<1>6. RuleKept'
  BY <1>1 DEF RuleKept, AlertTypeOK
<1> QED BY <1>2, <1>5, <1>6

LEMMA DatabaseStepKeeps ==
  ASSUME AlertIInv, NEW r \in Rules, DatabaseStep(r)
  PROVE  AlertIInv'
<1> USE DEF AlertIInv
<1>1. /\ UNCHANGED <<databaseUp, remembered, loading, alertHistory, lostMemory, polls, trouble>>
      /\ creation[r] # "none"
      /\ \E answer \in {"flush", "commit", "confirmed"} :
           /\ creation' = [creation EXCEPT ![r] = answer]
           /\ stored' = IF answer = "confirmed" THEN stored \union {r} ELSE stored
  BY DEF DatabaseStep
<1>2. AlertTypeOK'
  BY <1>1 DEF AlertTypeOK
<1>3. Created' = Created /\ r \in Created
  BY <1>1 DEF Created, AlertTypeOK
<1>4. StoresHoldCreated'
  BY <1>1, <1>3 DEF StoresHoldCreated
<1>5. RuleKept'
  BY <1>1 DEF RuleKept, AlertTypeOK
<1> QED BY <1>2, <1>4, <1>5

LEMMA FallBackKeeps ==
  ASSUME AlertIInv, NEW r \in Rules, FallBack(r)
  PROVE  AlertIInv'
<1> USE DEF AlertIInv
<1>1. /\ UNCHANGED <<databaseUp, loading, alertHistory, lostMemory, polls, trouble>>
      /\ creation[r] # "none"
      /\ creation' = [creation EXCEPT ![r] = "confirmed"]
      /\ stored' \in {stored, stored \union {r}}
      /\ remembered' = Append(remembered, r)
  BY DEF FallBack
<1>2. remembered' \in Seq(AnyRule) /\ ToSet(remembered') = ToSet(remembered) \union {r}
  BY <1>1, AppendedRule DEF AlertTypeOK, AnyRule
<1>3. AlertTypeOK'
  BY <1>1, <1>2 DEF AlertTypeOK, AnyRule
<1>4. Created' = Created /\ r \in Created
  BY <1>1 DEF Created, AlertTypeOK
<1>5. StoresHoldCreated'
  BY <1>1, <1>2, <1>4 DEF StoresHoldCreated
<1>6. RuleKept'
  BY <1>1, <1>2 DEF RuleKept, AlertTypeOK
<1> QED BY <1>3, <1>5, <1>6

(* What fires is finite: there are finitely many rules and services.       *)
LEMMA FiringIsFinite == AlertIInv => FiringNow \subseteq Alerts /\ IsFiniteSet(FiringNow)
<1> SUFFICES ASSUME AlertIInv
             PROVE  FiringNow \subseteq Alerts /\ IsFiniteSet(FiringNow)
  OBVIOUS
<1> DEFINE known == Created \union {DefaultRule}
           pairs == known \X Services
           pair == [a \in FiringNow |-> <<a.rule, a.service>>]
<1>1. IsFiniteSet(known)
  BY FS_AddElement DEF AlertIInv, StoresHoldCreated
<1>2. IsFiniteSet(pairs)
  BY <1>1, AlertBounds, FS_Product
<1>3. Loaded \subseteq known
  BY DEF Loaded, AlertIInv, StoresHoldCreated
<1>4. \A a \in FiringNow : /\ a \in [rule : Loaded, service : Services]
                           /\ a = [rule |-> a.rule, service |-> a.service]
                           /\ a.rule \in known /\ a.service \in Services
  BY <1>3 DEF FiringNow
<1>5. pair \in Injection(FiringNow, pairs)
  BY <1>4 DEF Injection, IsInjective
<1>6. IsFiniteSet(FiringNow)
  BY <1>2, <1>5, FS_Injection
<1>7. FiringNow \subseteq Alerts
  BY <1>4 DEF Alerts, AnyRule, Created
<1> QED BY <1>6, <1>7

LEMMA LongerHistory ==
  ASSUME NEW alerts, alerts \in Seq(Alerts), NEW old, old \in Seq(Alerts)
  PROVE  LET longer == Reverse(alerts) \o old
         IN  /\ longer \in Seq(Alerts)
             /\ Len(longer) > HistorySize => /\ SubSeq(longer, 1, HistorySize) \in Seq(Alerts)
                                             /\ Len(SubSeq(longer, 1, HistorySize)) = HistorySize
<1> DEFINE longer == Reverse(alerts) \o old
<1>1. HistorySize \in Nat /\ HistorySize # 0
  BY AlertBounds
<1>2. Reverse(alerts) \in Seq(Alerts)
  <2>1. Len(alerts) \in Nat /\ \A i \in 1..Len(alerts) : alerts[(Len(alerts) - i) + 1] \in Alerts
    OBVIOUS
  <2> QED BY <2>1 DEF Reverse
<1>3. longer \in Seq(Alerts)
  BY <1>2
<1> HIDE DEF longer
<1>4. Len(longer) > HistorySize => /\ SubSeq(longer, 1, HistorySize) \in Seq(Alerts)
                                   /\ Len(SubSeq(longer, 1, HistorySize)) = HistorySize
  BY <1>1, <1>3
<1> QED BY <1>3, <1>4 DEF longer

LEMMA PollKeeps ==
  ASSUME AlertIInv, Poll
  PROVE  AlertIInv'
<1> USE DEF AlertIInv
<1>1. /\ polls < MaxPolls /\ polls' = polls + 1
      /\ UNCHANGED <<databaseUp, stored, remembered, loading, creation, lostMemory, trouble>>
  BY DEF Poll
<1>2. PICK alerts \in SetToSeqs(FiringNow) :
        LET longer == Reverse(alerts) \o alertHistory
        IN  alertHistory' = IF Len(longer) > HistorySize THEN SubSeq(longer, 1, HistorySize) ELSE longer
  BY DEF Poll
<1>3. Cardinality(FiringNow) \in Nat /\ FiringNow \subseteq Alerts
  BY FiringIsFinite, FS_CardinalityType
<1>4. alerts \in Seq(Alerts)
  BY <1>3 DEF SetToSeqs
<1>5. alertHistory \in Seq(Alerts)
  BY DEF AlertTypeOK, Alerts, AnyRule
<1>6. alertHistory' \in Seq(Alerts) /\ Len(alertHistory') <= HistorySize
  <2> DEFINE longer == Reverse(alerts) \o alertHistory
  <2>1. /\ longer \in Seq(Alerts)
        /\ Len(longer) > HistorySize => /\ SubSeq(longer, 1, HistorySize) \in Seq(Alerts)
                                        /\ Len(SubSeq(longer, 1, HistorySize)) = HistorySize
    BY <1>4, <1>5, LongerHistory
  <2>2. alertHistory' = IF Len(longer) > HistorySize THEN SubSeq(longer, 1, HistorySize) ELSE longer
    BY <1>2
  <2>3. HistorySize \in Nat
    BY AlertBounds
  <2> HIDE DEF longer, AlertIInv
  <2> QED BY <2>1, <2>2, <2>3
<1>7. polls' \in 0..MaxPolls
  BY <1>1, AlertBounds DEF AlertTypeOK
<1>8. AlertTypeOK'
  BY <1>1, <1>6, <1>7 DEF AlertTypeOK, Alerts, AnyRule
<1>9. StoresHoldCreated' /\ RuleKept'
  BY <1>1 DEF StoresHoldCreated, RuleKept, Created
<1> QED BY <1>8, <1>9

LEMMA RestartKeeps ==
  ASSUME AlertIInv, Restart
  PROVE  AlertIInv'
<1> USE DEF AlertIInv
<1>1. /\ trouble < MaxTrouble /\ trouble' = trouble + 1
      /\ lostMemory' = lostMemory \union (ToSet(remembered) \ {DefaultRule})
      /\ remembered' = <<DefaultRule>> /\ alertHistory' = <<>>
      /\ creation' = [r \in Rules |->
                        IF creation[r] \in {"organization", "flush", "commit"} THEN "error" ELSE creation[r]]
      /\ stored' \in {stored, stored \union {r \in Rules : creation[r] = "commit"}}
      /\ UNCHANGED <<databaseUp, loading, polls>>
  BY DEF Restart
<1>2. trouble' \in 0..MaxTrouble
  BY <1>1, AlertBounds DEF AlertTypeOK
<1>3. Created' = Created
  BY <1>1 DEF Created, AlertTypeOK
<1>4. ToSet(remembered') = {DefaultRule} /\ remembered' \in Seq(AnyRule)
  BY <1>1, OneRule DEF AnyRule
<1>5. lostMemory' \subseteq Rules /\ stored' \subseteq Created
  BY <1>1 DEF AlertTypeOK, StoresHoldCreated, Created
<1>6. AlertTypeOK'
  <2>1. Len(<<>>) <= HistorySize /\ <<>> \in Seq([rule : Rules \union {DefaultRule}, service : Services])
    BY AlertBounds
  <2>2. stored' \subseteq Rules
    BY <1>5 DEF Created
  <2>3. creation' \in [Rules -> {"none", "organization", "flush", "commit", "confirmed", "error"}]
    BY <1>1 DEF AlertTypeOK
  <2> QED BY <1>1, <1>2, <1>4, <1>5, <2>1, <2>2, <2>3 DEF AlertTypeOK, AnyRule
<1>7. StoresHoldCreated'
  BY <1>3, <1>4, <1>5 DEF StoresHoldCreated
<1>8. RuleKept'
  <2> SUFFICES ASSUME NEW r \in Rules, creation'[r] = "confirmed"
               PROVE  r \in stored' \union lostMemory'
    BY DEF RuleKept
  <2>1. creation[r] = "confirmed"
    BY <1>1
  <2>2. r \in stored \union ToSet(remembered) \union lostMemory
    BY <2>1 DEF RuleKept
  <2>3. r # DefaultRule
    BY AlertBounds
  <2> QED BY <1>1, <2>2, <2>3
<1> QED BY <1>6, <1>7, <1>8

LEMMA StepAlert == AlertIInv /\ [AlertNext]_alertVars => AlertIInv'
<1> SUFFICES ASSUME AlertIInv, [AlertNext]_alertVars
             PROVE  AlertIInv'
  OBVIOUS
<1>1. CASE LoadChanges \/ DatabaseChanges \/ UNCHANGED alertVars
  <2>1. /\ UNCHANGED <<stored, remembered, alertHistory, creation, lostMemory, polls>>
        /\ loading' \in [Services -> 0..2]
    BY <1>1 DEF LoadChanges, DatabaseChanges, alertVars, AlertIInv, AlertTypeOK
  <2>2. databaseUp' \in BOOLEAN
    BY <1>1 DEF LoadChanges, DatabaseChanges, alertVars, AlertIInv, AlertTypeOK
  <2>3. trouble' \in {trouble, trouble + 1} /\ (trouble' = trouble \/ trouble < MaxTrouble)
    BY <1>1 DEF LoadChanges, DatabaseChanges, alertVars
  <2>4. trouble' \in 0..MaxTrouble
    BY <2>3, AlertBounds DEF AlertIInv, AlertTypeOK
  <2>5. AlertTypeOK'
    BY <2>1, <2>2, <2>4 DEF AlertIInv, AlertTypeOK
  <2>6. StoresHoldCreated' /\ RuleKept'
    BY <2>1 DEF AlertIInv, StoresHoldCreated, RuleKept, Created
  <2> QED BY <2>5, <2>6 DEF AlertIInv
<1> QED BY <1>1, CreateRuleKeeps, DatabaseStepKeeps, FallBackKeeps, PollKeeps, RestartKeeps
        DEF AlertNext

(* For any rules and services: a rule whose creation was answered is kept  *)
(* by the database, by the process, or went with the process, and it is    *)
(* read when the store that has it is.                                     *)
THEOREM ConfirmedRulesStay == AlertSpec => []ConfirmedRuleIsKept
<1>1. AlertIInv => ConfirmedRuleIsKept
  BY DEF AlertIInv, RuleKept, ConfirmedRuleIsKept, Loaded
<1> QED BY InitAlert, StepAlert, <1>1, PTL DEF AlertSpec

-----------------------------------------------------------------------------
(* The rate limit.  What any interleaving of checks keeps: types, and that *)
(* a count read or written stands for as many requests let through since   *)
(* the start of its window.                                                *)
CheckRecords == [step : {"idle", "timed", "read"}, on : {"none", "loop", "thread"},
                 now : Nat, start : Nat, count : Nat]

RateTyped ==
  /\ clock \in Nat
  /\ window \in [start : Int, count : Nat] /\ -1 <= window.start /\ window.start <= clock
  /\ window.start < 0 => window.count = 0
  /\ checks \in [Requesters -> CheckRecords]
  /\ \A r \in Requesters : checks[r].now <= clock /\ checks[r].start <= clock
  /\ overlapped \in BOOLEAN
  /\ refused \subseteq Nat

AdmittedTyped ==
  /\ IsFiniteSet(admitted) /\ Cardinality(admitted) \in Nat
  /\ \A a \in admitted : /\ a.at \in Nat /\ a.at <= clock
                         /\ a.number \in Nat /\ a.number > 0 /\ a.number <= Cardinality(admitted)

CountsAreReal ==
  /\ window.count <= Cardinality(AdmittedSince(window.start))
  /\ \A r \in Requesters :
       checks[r].step = "read" => checks[r].count <= Cardinality(AdmittedSince(checks[r].start))
  /\ \A start \in refused : RateMax <= Cardinality(AdmittedSince(start))

(* What holds while checks come one by one: the one under way has read     *)
(* what still is, and began after every other was let through or refused.  *)
OneByOne ==
  /\ \A r, other \in Requesters :
       checks[r].step # "idle" /\ checks[other].step # "idle" => r = other
  /\ \A r \in Requesters : checks[r].step # "idle" => \A a \in admitted : a.at <= checks[r].now
  /\ \A r \in Requesters : checks[r].step = "read" =>
       /\ checks[r].count = window.count
       /\ checks[r].start = IF window.start < 0 THEN checks[r].now ELSE window.start

(* The requests of the window are the last of those let through; so many   *)
(* at most of those before it came in the span of a window before it.      *)
Earlier(a) == a.number <= Cardinality(admitted) - window.count
OfWindow == {a \in admitted : ~Earlier(a)}
BeforeWindow == {a \in admitted : Earlier(a) /\ window.start - RateWindow <= a.at}

WindowCounts ==
  /\ window.start < 0 => admitted = {}
  /\ window.start >= 0 => window.count > 0
  /\ window.count <= RateMax
  /\ Cardinality(OfWindow) <= window.count
  /\ Cardinality(BeforeWindow) <= RateMax
  /\ \A a \in admitted : Earlier(a) => a.at <= window.start

SpansBounded == \A t \in Nat : Cardinality(AdmittedBetween(t, t + RateWindow)) <= 2 * RateMax

RateIInv ==
  /\ RateTyped /\ AdmittedTyped /\ CountsAreReal
  /\ ~overlapped => OneByOne /\ WindowCounts /\ SpansBounded

LEMMA RateBounds == RateWindow \in Nat /\ RateMax \in Nat /\ LastTime \in Nat
BY RateAssumption DEF RateAssumption

LEMMA InitRate == RateInit => RateIInv
<1> SUFFICES ASSUME RateInit
             PROVE  RateIInv
  OBVIOUS
<1>1. /\ clock = 0 /\ window.start = -1 /\ window.count = 0 /\ admitted = {} /\ refused = {}
      /\ window \in [start : Int, count : Nat] /\ overlapped = FALSE
  BY DEF RateInit
<1>2. /\ checks \in [Requesters -> CheckRecords]
      /\ \A r \in Requesters : checks[r].step = "idle" /\ checks[r].now = 0 /\ checks[r].start = 0
  BY DEF RateInit, NotChecking, CheckRecords
<1>3. IsFiniteSet({}) /\ Cardinality({}) = 0
  BY FS_EmptySet
<1>4. \A from, to : /\ Cardinality(AdmittedBetween(from, to)) = 0
                    /\ Cardinality(AdmittedSince(from)) = 0
  <2>1. \A from, to : AdmittedBetween(from, to) = {} /\ AdmittedSince(from) = {}
    BY <1>1 DEF AdmittedBetween, AdmittedSince
  <2> QED BY <1>3, <2>1
<1>5. RateTyped
  <2>1. overlapped \in BOOLEAN /\ refused \subseteq Nat
    BY <1>1
  <2>2. \A r \in Requesters : checks[r].now <= clock /\ checks[r].start <= clock
    BY <1>1, <1>2
  <2>3. clock \in Nat /\ -1 <= window.start /\ window.start <= clock
    BY <1>1
  <2> QED BY <1>1, <1>2, <2>1, <2>2, <2>3 DEF RateTyped
<1>6. AdmittedTyped
  BY <1>1, <1>3 DEF AdmittedTyped
<1>7. CountsAreReal
  BY <1>1, <1>2, <1>4 DEF CountsAreReal
<1>8. OneByOne
  BY <1>2 DEF OneByOne
<1>9. WindowCounts
  <2>1. OfWindow = {} /\ BeforeWindow = {}
    BY <1>1 DEF OfWindow, BeforeWindow
  <2> QED BY <1>1, <1>3, <2>1, RateBounds DEF WindowCounts
<1>10. SpansBounded
  BY <1>4, RateBounds DEF SpansBounded
<1> QED BY <1>5, <1>6, <1>7, <1>8, <1>9, <1>10 DEF RateIInv

LEMMA AdmittedFinite ==
  ASSUME IsFiniteSet(admitted), NEW some \in SUBSET admitted
  PROVE  IsFiniteSet(some) /\ Cardinality(some) \in Nat
BY FS_Subset, FS_CardinalityType

(* A step that lets nothing through keeps what is said of those that were. *)
LEMMA NothingAdmitted ==
  ASSUME UNCHANGED <<window, admitted>>
  PROVE  /\ WindowCounts => WindowCounts'
         /\ SpansBounded => SpansBounded'
         /\ \A from : AdmittedSince(from)' = AdmittedSince(from)
<1>1. \A from, to : /\ AdmittedBetween(from, to)' = AdmittedBetween(from, to)
                    /\ AdmittedSince(from)' = AdmittedSince(from)
  BY DEF AdmittedBetween, AdmittedSince
<1>2. OfWindow' = OfWindow /\ BeforeWindow' = BeforeWindow
  BY DEF OfWindow, BeforeWindow, Earlier
<1>3. WindowCounts => WindowCounts'
  BY <1>2 DEF WindowCounts, Earlier
<1>4. SpansBounded => SpansBounded'
  BY <1>1 DEF SpansBounded
<1> QED BY <1>1, <1>3, <1>4

LEMMA BeginKeeps ==
  ASSUME RateIInv, NEW r \in Requesters, NEW where \in {"loop", "thread"}, BeginCheck(r, where)
  PROVE  RateIInv'
<1> DEFINE mine == [NotChecking EXCEPT !.step = "timed", !.on = where, !.now = clock]
<1>1. /\ checks' = [checks EXCEPT ![r] = mine] /\ checks[r].step = "idle"
      /\ overlapped' = (overlapped \/ \E other \in Requesters : checks[other].step # "idle")
      /\ UNCHANGED <<clock, window, admitted, refused>>
  BY DEF BeginCheck
<1>2. RateTyped /\ AdmittedTyped /\ CountsAreReal
  BY DEF RateIInv
<1>3. mine \in CheckRecords /\ mine.step = "timed" /\ mine.now = clock /\ mine.start = 0
  BY <1>2 DEF NotChecking, CheckRecords, RateTyped
<1> HIDE DEF mine
<1>4. /\ checks' \in [Requesters -> CheckRecords] /\ checks'[r] = mine
      /\ \A other \in Requesters : other # r => checks'[other] = checks[other]
  BY <1>1, <1>2, <1>3 DEF RateTyped
<1>5. RateTyped'
  <2>1. \A other \in Requesters : checks'[other].now <= clock /\ checks'[other].start <= clock
    BY <1>2, <1>3, <1>4 DEF RateTyped
  <2>2. overlapped' \in BOOLEAN
    BY <1>1
  <2> QED BY <1>1, <1>2, <1>4, <2>1, <2>2 DEF RateTyped
<1>6. AdmittedTyped'
  BY <1>1, <1>2 DEF AdmittedTyped
<1>7. CountsAreReal'
  <2>1. \A other \in Requesters : checks'[other].step = "read" =>
          checks[other].step = "read" /\ checks'[other] = checks[other]
    BY <1>3, <1>4
  <2> QED BY <1>1, <1>2, <2>1, NothingAdmitted DEF CountsAreReal
<1>8. ASSUME ~overlapped'
      PROVE  OneByOne' /\ WindowCounts' /\ SpansBounded'
  <2>1. /\ \A other \in Requesters : checks[other].step = "idle"
        /\ OneByOne /\ WindowCounts /\ SpansBounded
    BY <1>1, <1>8 DEF RateIInv
  <2>2. \A other \in Requesters : checks'[other].step # "idle" => other = r
    BY <1>4, <2>1
  <2>3. \A a \in admitted' : a.at <= mine.now
    BY <1>1, <1>2, <1>3 DEF AdmittedTyped
  <2>4. \A other \in Requesters : checks'[other].step # "read"
    BY <1>3, <1>4, <2>1
  <2>5. OneByOne'
    BY <1>4, <2>2, <2>3, <2>4 DEF OneByOne
  <2> QED BY <1>1, <2>1, <2>5, NothingAdmitted
<1> QED BY <1>5, <1>6, <1>7, <1>8 DEF RateIInv

LEMMA ReadKeepsRate ==
  ASSUME RateIInv, NEW r \in Requesters, ReadWindow(r)
  PROVE  RateIInv'
<1> DEFINE from == IF window.start < 0 THEN checks[r].now ELSE window.start
           mine == [checks[r] EXCEPT !.step = "read", !.count = window.count, !.start = from]
<1>1. /\ checks' = [checks EXCEPT ![r] = mine] /\ checks[r].step = "timed"
      /\ UNCHANGED <<clock, window, admitted, refused, overlapped>>
  BY DEF ReadWindow
<1>2. RateTyped /\ AdmittedTyped /\ CountsAreReal /\ checks[r] \in CheckRecords
  BY DEF RateIInv, RateTyped
<1>3. from \in Nat /\ from <= clock
  BY <1>2 DEF RateTyped, CheckRecords
<1>4. /\ mine \in CheckRecords /\ mine.step = "read" /\ mine.now = checks[r].now
      /\ mine.start = from /\ mine.count = window.count
  BY <1>2, <1>3 DEF CheckRecords, RateTyped
<1>5. window.count <= Cardinality(AdmittedSince(from))
  <2>1. CASE window.start < 0
    <3>1. AdmittedSince(from) \in SUBSET admitted
      BY DEF AdmittedSince
    <3>2. Cardinality(AdmittedSince(from)) \in Nat
      BY <1>2, <3>1, AdmittedFinite DEF AdmittedTyped
    <3>3. window.count = 0
      BY <1>2, <2>1 DEF RateTyped
    <3> HIDE DEF from
    <3> QED BY <3>2, <3>3
  <2>2. CASE ~(window.start < 0)
    BY <1>2, <2>2 DEF CountsAreReal
  <2> QED BY <2>1, <2>2
<1> HIDE DEF mine, from
<1>6. /\ checks' \in [Requesters -> CheckRecords] /\ checks'[r] = mine
      /\ \A other \in Requesters : other # r => checks'[other] = checks[other]
  BY <1>1, <1>2, <1>4 DEF RateTyped
<1>7. RateTyped'
  <2>1. \A other \in Requesters : checks'[other].now <= clock /\ checks'[other].start <= clock
    BY <1>2, <1>3, <1>4, <1>6 DEF RateTyped
  <2> QED BY <1>1, <1>2, <1>6, <2>1 DEF RateTyped
<1>8. AdmittedTyped'
  BY <1>1, <1>2 DEF AdmittedTyped
<1>9. CountsAreReal'
  <2>1. \A other \in Requesters : checks'[other].step = "read" =>
          checks'[other].count <= Cardinality(AdmittedSince(checks'[other].start))
    BY <1>2, <1>4, <1>5, <1>6 DEF CountsAreReal
  <2> QED BY <1>1, <1>2, <2>1, NothingAdmitted DEF CountsAreReal
<1>10. ASSUME ~overlapped
       PROVE  OneByOne' /\ WindowCounts' /\ SpansBounded'
  <2>1. OneByOne /\ WindowCounts /\ SpansBounded
    BY <1>10 DEF RateIInv
  <2>2. \A other \in Requesters : checks'[other].step # "idle" => checks[other].step # "idle"
    BY <1>1, <1>6
  <2>3. \A a \in admitted : a.at <= mine.now
    BY <1>1, <1>4, <2>1 DEF OneByOne
  <2>4. \A other \in Requesters : checks'[other].step # "idle" =>
          \A a \in admitted : a.at <= checks'[other].now
    BY <1>6, <2>1, <2>2, <2>3 DEF OneByOne
  <2>5. \A other \in Requesters : checks'[other].step = "read" =>
          /\ checks'[other].count = window.count
          /\ checks'[other].start = IF window.start < 0 THEN checks'[other].now ELSE window.start
    BY <1>4, <1>6, <2>1 DEF OneByOne, from
  <2>6. \A one, other \in Requesters :
          checks'[one].step # "idle" /\ checks'[other].step # "idle" => one = other
    BY <2>1, <2>2 DEF OneByOne
  <2>7. OneByOne'
    BY <1>1, <2>4, <2>5, <2>6 DEF OneByOne
  <2> QED BY <1>1, <2>1, <2>7, NothingAdmitted
<1> QED BY <1>1, <1>7, <1>8, <1>9, <1>10 DEF RateIInv

LEMMA EndedCheck ==
  ASSUME RateTyped, NEW r \in Requesters, EndCheck(r)
  PROVE  /\ checks' \in [Requesters -> CheckRecords] /\ checks'[r].step = "idle"
         /\ \A other \in Requesters : other # r => checks'[other] = checks[other]
         /\ \A other \in Requesters : checks'[other].now <= clock /\ checks'[other].start <= clock
         /\ \A other \in Requesters : checks'[other].step # "idle" =>
              other # r /\ checks'[other] = checks[other]
<1>1. checks' = [checks EXCEPT ![r] = NotChecking] /\ checks \in [Requesters -> CheckRecords]
  BY DEF EndCheck, RateTyped
<1>2. /\ NotChecking \in CheckRecords /\ NotChecking.step = "idle"
      /\ NotChecking.now = 0 /\ NotChecking.start = 0
  BY DEF NotChecking, CheckRecords
<1>3. /\ checks' \in [Requesters -> CheckRecords] /\ checks'[r] = NotChecking
      /\ \A other \in Requesters : other # r => checks'[other] = checks[other]
  BY <1>1, <1>2
<1>4. \A other \in Requesters : checks'[other].now <= clock /\ checks'[other].start <= clock
  BY <1>2, <1>3 DEF RateTyped
<1> QED BY <1>2, <1>3, <1>4

LEMMA RefuseKeeps ==
  ASSUME RateIInv, NEW r \in Requesters, Refuse(r)
  PROVE  RateIInv'
<1>1. /\ EndCheck(r) /\ checks[r].step = "read" /\ checks[r].count >= RateMax
      /\ refused' = refused \union {checks[r].start}
      /\ UNCHANGED <<clock, window, admitted, overlapped>>
  BY DEF Refuse, EndCheck, Exhausted
<1>2. RateTyped /\ AdmittedTyped /\ CountsAreReal /\ checks[r] \in CheckRecords
  BY DEF RateIInv, RateTyped
<1>3. /\ checks' \in [Requesters -> CheckRecords] /\ checks'[r].step = "idle"
      /\ \A other \in Requesters : checks'[other].now <= clock /\ checks'[other].start <= clock
      /\ \A other \in Requesters : checks'[other].step # "idle" =>
           other # r /\ checks'[other] = checks[other]
  BY <1>1, <1>2, EndedCheck
<1>4. RateTyped'
  <2>1. checks[r].start \in Nat
    BY <1>2 DEF CheckRecords
  <2> QED BY <1>1, <1>2, <1>3, <2>1 DEF RateTyped
<1>5. AdmittedTyped'
  BY <1>1, <1>2 DEF AdmittedTyped
<1>6. RateMax <= Cardinality(AdmittedSince(checks[r].start))
  <2> DEFINE n == Cardinality(AdmittedSince(checks[r].start))
  <2>1. checks[r].count <= n /\ checks[r].count \in Nat
    BY <1>1, <1>2 DEF CountsAreReal, CheckRecords
  <2>2. AdmittedSince(checks[r].start) \in SUBSET admitted
    BY DEF AdmittedSince
  <2>3. n \in Nat
    BY <1>2, <2>2, AdmittedFinite DEF AdmittedTyped
  <2> HIDE DEF n
  <2>4. RateMax <= n
    BY <1>1, <2>1, <2>3, RateBounds
  <2> QED BY <2>4 DEF n
<1>7. CountsAreReal'
  <2>1. \A other \in Requesters : checks'[other].step = "read" =>
          checks[other].step = "read" /\ checks'[other] = checks[other]
    BY <1>3
  <2> QED BY <1>1, <1>2, <1>6, <2>1, NothingAdmitted DEF CountsAreReal
<1>8. ASSUME ~overlapped
      PROVE  OneByOne' /\ WindowCounts' /\ SpansBounded'
  <2>1. OneByOne /\ WindowCounts /\ SpansBounded
    BY <1>8 DEF RateIInv
  <2>2. OneByOne'
    BY <1>1, <1>3, <2>1 DEF OneByOne
  <2> QED BY <1>1, <2>1, <2>2, NothingAdmitted
<1> QED BY <1>1, <1>4, <1>5, <1>7, <1>8 DEF RateIInv

LEMMA TimeKeepsRate == RateIInv /\ RateClockTicks => RateIInv'
<1> SUFFICES ASSUME RateIInv, RateClockTicks
             PROVE  RateIInv'
  OBVIOUS
<1>1. clock' = clock + 1 /\ UNCHANGED <<window, checks, admitted, refused, overlapped>>
  BY DEF RateClockTicks
<1>2. RateTyped /\ AdmittedTyped /\ CountsAreReal
  BY DEF RateIInv
<1>3. clock' \in Nat /\ \A n \in Int : n <= clock => n <= clock'
  BY <1>1, <1>2 DEF RateTyped
<1>4. RateTyped'
  <2>1. \A r \in Requesters : checks[r].now \in Int /\ checks[r].start \in Int
    BY <1>2 DEF RateTyped, CheckRecords
  <2> QED BY <1>1, <1>2, <1>3, <2>1 DEF RateTyped
<1>5. AdmittedTyped'
  BY <1>1, <1>2, <1>3 DEF AdmittedTyped
<1>6. CountsAreReal'
  BY <1>1, <1>2, NothingAdmitted DEF CountsAreReal
<1>7. OneByOne => OneByOne'
  BY <1>1 DEF OneByOne
<1> QED BY <1>1, <1>4, <1>5, <1>6, <1>7, NothingAdmitted DEF RateIInv

(* One more is let through.                                                *)
NewlyAdmitted == [at |-> clock, number |-> Cardinality(admitted) + 1]

LEMMA OneMore ==
  ASSUME RateTyped, AdmittedTyped, UNCHANGED clock, admitted' = admitted \union {NewlyAdmitted}
  PROVE  /\ AdmittedTyped' /\ Cardinality(admitted') = Cardinality(admitted) + 1
         /\ NewlyAdmitted \notin admitted
         /\ \A from \in Int : from <= clock =>
              /\ AdmittedSince(from)' = AdmittedSince(from) \union {NewlyAdmitted}
              /\ Cardinality(AdmittedSince(from)') = Cardinality(AdmittedSince(from)) + 1
              /\ Cardinality(AdmittedSince(from)) \in Nat
         /\ \A from, to : to \in Int /\ to <= clock => AdmittedBetween(from, to)' = AdmittedBetween(from, to)
<1> DEFINE new == NewlyAdmitted
           n == Cardinality(admitted)
           m == Cardinality(admitted')
<1>1. new.at = clock /\ new.number = n + 1 /\ clock \in Nat /\ n \in Nat /\ IsFiniteSet(admitted)
  BY DEF NewlyAdmitted, RateTyped, AdmittedTyped
<1>2. \A a \in admitted : /\ a.at \in Nat /\ a.at <= clock
                          /\ a.number \in Nat /\ a.number > 0 /\ a.number <= n
  BY DEF AdmittedTyped
<1> HIDE DEF new
<1>3. new \notin admitted
  <2> HIDE DEF n
  <2>1. \A a \in admitted : a.number # n + 1
    BY <1>1, <1>2
  <2> QED BY <1>1, <2>1
<1>4. IsFiniteSet(admitted') /\ m = n + 1
  BY <1>1, <1>3, FS_AddElement DEF new
<1> HIDE DEF n, m
<1>5. \A a \in admitted' : /\ a.at \in Nat /\ a.at <= clock
                           /\ a.number \in Nat /\ a.number > 0 /\ a.number <= m
  <2> SUFFICES ASSUME NEW a \in admitted'
               PROVE  a.at \in Nat /\ a.at <= clock /\ a.number \in Nat /\ a.number > 0 /\ a.number <= m
    OBVIOUS
  <2>1. CASE a = new
    BY <1>1, <1>4, <2>1
  <2>2. CASE a \in admitted
    BY <1>1, <1>2, <1>4, <2>2
  <2> QED BY <2>1, <2>2 DEF new
<1>6. m \in Nat
  BY <1>1, <1>4
<1>7. AdmittedTyped'
  BY <1>4, <1>5, <1>6 DEF AdmittedTyped, m
<1>8. ASSUME NEW from \in Int, from <= clock
      PROVE  /\ AdmittedSince(from)' = AdmittedSince(from) \union {new}
             /\ Cardinality(AdmittedSince(from)') = Cardinality(AdmittedSince(from)) + 1
             /\ Cardinality(AdmittedSince(from)) \in Nat
  <2>1. AdmittedSince(from)' = AdmittedSince(from) \union {new}
    BY <1>1, <1>8 DEF AdmittedSince, new
  <2>2. AdmittedSince(from) \in SUBSET admitted
    BY DEF AdmittedSince
  <2>3. IsFiniteSet(AdmittedSince(from)) /\ Cardinality(AdmittedSince(from)) \in Nat
    BY <1>1, <2>2, AdmittedFinite
  <2>4. Cardinality(AdmittedSince(from) \union {new}) = Cardinality(AdmittedSince(from)) + 1
    BY <1>3, <2>2, <2>3, FS_AddElement
  <2> QED BY <2>1, <2>3, <2>4
<1>9. ASSUME NEW from, NEW to, to \in Int, to <= clock
      PROVE  AdmittedBetween(from, to)' = AdmittedBetween(from, to)
  <2>1. ~(new.at < to)
    BY <1>1, <1>9
  <2> QED BY <2>1 DEF AdmittedBetween, new
<1> QED BY <1>3, <1>4, <1>7, <1>8, <1>9 DEF new, m, n

LEMMA CountsStayReal ==
  ASSUME RateIInv, NEW r \in Requesters, EndCheck(r), NEW start \in Nat, NEW count \in Nat,
         start <= clock, Admit(start, count), count <= Cardinality(AdmittedSince(start)) + 1
  PROVE  RateTyped' /\ AdmittedTyped' /\ CountsAreReal'
<1> DEFINE Since(from) == {a \in admitted' : from <= a.at}
<1>1. /\ window' = [start |-> start, count |-> count] /\ UNCHANGED <<clock, refused, overlapped>>
      /\ admitted' = admitted \union {NewlyAdmitted}
  BY DEF Admit, EndCheck, NewlyAdmitted
<1>2. RateTyped /\ AdmittedTyped /\ CountsAreReal
  BY DEF RateIInv
<1>3. /\ checks' \in [Requesters -> CheckRecords]
      /\ \A other \in Requesters : checks'[other].now <= clock /\ checks'[other].start <= clock
      /\ \A other \in Requesters : checks'[other].step # "idle" =>
           other # r /\ checks'[other] = checks[other]
  BY <1>2, EndedCheck
<1>4. /\ window'.start = start /\ window'.count = count
      /\ window' \in [start : Int, count : Nat]
  BY <1>1
<1>5. RateTyped'
  BY <1>1, <1>2, <1>3, <1>4 DEF RateTyped
<1>6. /\ AdmittedTyped'
      /\ \A from \in Int : from <= clock =>
           /\ Cardinality(Since(from)) = Cardinality(AdmittedSince(from)) + 1
           /\ Cardinality(AdmittedSince(from)) \in Nat
  <2>1. \A from : AdmittedSince(from)' = Since(from)
    BY DEF AdmittedSince
  <2> HIDE DEF Since
  <2> QED BY <1>1, <1>2, <2>1, OneMore
<1> HIDE DEF Since
<1>7. ASSUME NEW from \in Int, from <= clock, NEW low \in Nat, low <= Cardinality(AdmittedSince(from))
      PROVE  low <= Cardinality(Since(from))
  BY <1>6, <1>7
<1>8. count <= Cardinality(Since(start))
  BY <1>6
<1>9. \A other \in Requesters : checks'[other].step = "read" =>
        checks'[other].count <= Cardinality(Since(checks'[other].start))
  <2> SUFFICES ASSUME NEW other \in Requesters, checks'[other].step = "read"
               PROVE  checks'[other].count <= Cardinality(Since(checks'[other].start))
    OBVIOUS
  <2>1. checks'[other] = checks[other] /\ checks[other] \in CheckRecords /\ checks[other].step = "read"
    BY <1>2, <1>3 DEF RateTyped
  <2>2. /\ checks[other].start \in Int /\ checks[other].count \in Nat
        /\ checks[other].start <= clock
        /\ checks[other].count <= Cardinality(AdmittedSince(checks[other].start))
    BY <1>2, <2>1 DEF RateTyped, CountsAreReal, CheckRecords
  <2> QED BY <1>7, <2>1, <2>2
<1>10. \A from \in refused' : RateMax <= Cardinality(Since(from))
  <2> SUFFICES ASSUME NEW from \in refused
               PROVE  RateMax <= Cardinality(Since(from))
    BY <1>1
  <2>1. from \in Nat /\ RateMax <= Cardinality(AdmittedSince(from))
    BY <1>2 DEF RateTyped, CountsAreReal
  <2>2. CASE from <= clock
    BY <1>7, <2>1, <2>2, RateBounds
  <2>3. CASE ~(from <= clock)
    <3>1. AdmittedSince(from) \in SUBSET admitted' /\ Since(from) \in SUBSET admitted'
      BY <1>1 DEF AdmittedSince, Since
    <3>2. AdmittedSince(from) \in SUBSET (Since(from))
      BY <1>1 DEF AdmittedSince, Since
    <3>3. IsFiniteSet(Since(from))
      BY <1>6, <3>1, FS_Subset DEF AdmittedTyped
    <3>4. Cardinality(AdmittedSince(from)) <= Cardinality(Since(from))
      BY <3>2, <3>3, FS_Subset
    <3>5. Cardinality(AdmittedSince(from)) \in Nat /\ Cardinality(Since(from)) \in Nat
      BY <3>2, <3>3, FS_Subset, FS_CardinalityType
    <3> QED BY <2>1, <3>4, <3>5, RateBounds
  <2> QED BY <2>2, <2>3
<1>11. CountsAreReal'
  <2>1. window'.count <= Cardinality(Since(window'.start))
    BY <1>4, <1>8
  <2> QED BY <1>9, <1>10, <2>1 DEF CountsAreReal, AdmittedSince, Since
<1> QED BY <1>5, <1>6, <1>11

(* A span that reaches the present sees the requests of the window and the *)
(* last of those before it.                                                *)
LEMMA SpansStay ==
  ASSUME RateTyped, AdmittedTyped, AdmittedTyped', SpansBounded, UNCHANGED clock,
         admitted' = admitted \union {NewlyAdmitted},
         NEW current \in SUBSET admitted', NEW before \in SUBSET admitted',
         Cardinality(current) <= RateMax, Cardinality(before) <= RateMax,
         \A a \in admitted' : clock - RateWindow < a.at => a \in current \union before
  PROVE  SpansBounded'
<1> DEFINE Between(from, to) == {a \in admitted' : from <= a.at /\ a.at < to}
<1> SUFFICES ASSUME NEW t \in Nat
             PROVE  Cardinality(Between(t, t + RateWindow)) <= 2 * RateMax
  BY DEF SpansBounded, AdmittedBetween
<1>1. clock \in Nat /\ \A a \in admitted' : a.at \in Nat
  BY DEF RateTyped, AdmittedTyped
<1>2. CASE t + RateWindow <= clock
  <2>1. AdmittedBetween(t, t + RateWindow)' = AdmittedBetween(t, t + RateWindow)
    BY <1>2, OneMore, RateBounds
  <2>2. AdmittedBetween(t, t + RateWindow)' = Between(t, t + RateWindow)
    BY DEF AdmittedBetween
  <2>3. Cardinality(AdmittedBetween(t, t + RateWindow)) <= 2 * RateMax
    BY DEF SpansBounded
  <2> QED BY <2>1, <2>2, <2>3
<1>3. CASE ~(t + RateWindow <= clock)
  <2> DEFINE span == Between(t, t + RateWindow)
             s == Cardinality(span)
             u == Cardinality(current \union before)
             n == Cardinality(current)
             b == Cardinality(before)
             i == Cardinality(current \intersect before)
  <2>1. span \in SUBSET (current \union before)
    BY <1>1, <1>3, RateBounds
  <2>2. IsFiniteSet(current) /\ IsFiniteSet(before)
    BY FS_Subset DEF AdmittedTyped
  <2>3. /\ IsFiniteSet(current \union before) /\ IsFiniteSet(current \intersect before)
        /\ u = n + b - i
    BY <2>2, FS_Union, FS_Intersection
  <2>4. IsFiniteSet(span) /\ s <= u
    BY <2>1, <2>3, FS_Subset
  <2>5. s \in Nat /\ u \in Nat /\ n \in Nat /\ b \in Nat /\ i \in Nat
    BY <2>2, <2>3, <2>4, FS_CardinalityType
  <2>6. n <= RateMax /\ b <= RateMax
    OBVIOUS
  <2> HIDE DEF s, u, n, b, i
  <2>7. s <= 2 * RateMax
    BY <2>3, <2>4, <2>5, <2>6, RateBounds
  <2> QED BY <2>7 DEF s
<1> QED BY <1>2, <1>3

LEMMA OpenKeeps ==
  ASSUME RateIInv, NEW r \in Requesters, OpenWindow(r)
  PROVE  RateIInv'
<1> DEFINE now == checks[r].now
<1>1. /\ EndCheck(r) /\ checks[r].step = "read" /\ now - checks[r].start > RateWindow
      /\ Admit(now, 1) /\ UNCHANGED <<clock, overlapped>>
  BY DEF OpenWindow, EndCheck, Elapsed
<1>2. RateTyped /\ AdmittedTyped /\ CountsAreReal
  BY DEF RateIInv
<1>3. now \in Nat /\ now <= clock /\ checks[r].start \in Nat /\ clock \in Nat
  BY <1>2 DEF RateTyped, CheckRecords
<1> HIDE DEF now
<1>4. RateTyped' /\ AdmittedTyped' /\ CountsAreReal'
  <2> DEFINE n == Cardinality(AdmittedSince(now))
  <2>1. AdmittedSince(now) \in SUBSET admitted
    BY DEF AdmittedSince
  <2>2. n \in Nat
    BY <1>2, <2>1, AdmittedFinite DEF AdmittedTyped
  <2> HIDE DEF n
  <2>3. 1 <= n + 1
    BY <2>2
  <2> QED BY <1>1, <1>3, <2>3, CountsStayReal DEF n
<1>5. ASSUME ~overlapped
      PROVE  OneByOne' /\ WindowCounts' /\ SpansBounded'
  <2>1. OneByOne /\ WindowCounts /\ SpansBounded
    BY <1>5 DEF RateIInv
  <2>2. /\ window' = [start |-> now, count |-> 1] /\ clock' = clock
        /\ admitted' = admitted \union {NewlyAdmitted}
    BY <1>1 DEF Admit, NewlyAdmitted
  <2>3. window.start >= 0 /\ checks[r].start = window.start /\ window.start \in Int
    BY <1>1, <1>2, <1>3, <2>1, RateBounds DEF OneByOne, RateTyped, now
  <2>4. OneByOne'
    <3>1. \A other \in Requesters : checks'[other].step = "idle"
      BY <1>1, <1>2, <2>1, EndedCheck DEF OneByOne
    <3> QED BY <3>1 DEF OneByOne
  <2>5. \A a \in admitted : a.at <= now /\ a.at \in Nat
    BY <1>1, <1>2, <2>1 DEF OneByOne, AdmittedTyped, now
  <2> DEFINE n == Cardinality(admitted)
             m == Cardinality(admitted')
             Old(a) == a.number <= m - window'.count
             current == {a \in admitted' : ~Old(a)}
             before == {a \in admitted' : Old(a) /\ window'.start - RateWindow <= a.at}
             new == NewlyAdmitted
  <2>6. n \in Nat /\ m = n + 1
    BY <1>1, <1>2, <2>2, OneMore DEF AdmittedTyped
  <2>7. \A a \in admitted : a.number \in Nat /\ a.number <= n
    BY <1>2 DEF AdmittedTyped
  <2>8. new.number = n + 1
    BY DEF NewlyAdmitted
  <2>9. window'.count = 1 /\ window'.start = now
    BY <2>2
  <2> HIDE DEF n, m, new
  <2>10. /\ \A a \in admitted : Old(a)
         /\ ~Old(new)
    BY <2>6, <2>7, <2>8, <2>9
  <2>11. current = {new}
    BY <2>2, <2>10 DEF new
  <2>12. Cardinality(current) = 1
    BY <2>11, FS_Singleton
  <2>13. before \in SUBSET OfWindow
    <3> SUFFICES ASSUME NEW a \in before
                 PROVE  a \in OfWindow
      OBVIOUS
    <3>1. a \in admitted /\ now - RateWindow <= a.at
      BY <2>2, <2>9, <2>10 DEF new
    <3>2. window.start < a.at
      BY <1>1, <1>3, <2>3, <2>5, <3>1, RateBounds
    <3>3. Earlier(a) => a.at <= window.start
      BY <2>1, <3>1 DEF WindowCounts
    <3>4. ~Earlier(a)
      BY <2>3, <2>5, <3>1, <3>2, <3>3
    <3> QED BY <3>1, <3>4 DEF OfWindow
  <2>14. Cardinality(before) <= RateMax
    <3> DEFINE few == Cardinality(before)
               many == Cardinality(OfWindow)
    <3>1. OfWindow \in SUBSET admitted
      BY DEF OfWindow
    <3>2. IsFiniteSet(OfWindow) /\ many \in Nat
      BY <1>2, <3>1, AdmittedFinite DEF AdmittedTyped
    <3>3. IsFiniteSet(before) /\ few <= many
      BY <2>13, <3>2, FS_Subset
    <3>4. few \in Nat
      BY <3>3, FS_CardinalityType
    <3>5. many <= window.count /\ window.count <= RateMax /\ window.count \in Nat
      BY <1>2, <2>1 DEF WindowCounts, RateTyped
    <3> HIDE DEF few, many
    <3>6. few <= RateMax
      BY <3>2, <3>3, <3>4, <3>5, RateBounds
    <3> QED BY <3>6 DEF few
  <2>15. RateMax > 0
    BY <1>2, <2>1, <2>3, RateBounds DEF WindowCounts, RateTyped
  <2>16. OfWindow' = current /\ BeforeWindow' = before
    BY DEF OfWindow, BeforeWindow, Earlier, m
  <2> HIDE DEF current, before
  <2>17. \A a \in admitted' : Earlier(a)' => a.at <= now
    <3>1. \A a \in admitted' : Earlier(a)' <=> Old(a)
      BY DEF Earlier, m
    <3> QED BY <2>2, <2>5, <2>10, <3>1 DEF new
  <2>18. WindowCounts'
    <3>1. window'.count <= RateMax /\ window'.start \in Nat /\ ~(window'.start < 0) /\ window'.count > 0
      BY <1>3, <2>9, <2>15, RateBounds
    <3> QED BY <2>9, <2>12, <2>14, <2>16, <2>17, <3>1 DEF WindowCounts
  <2>19. \A a \in admitted' : clock - RateWindow < a.at => a \in current \union before
    <3> SUFFICES ASSUME NEW a \in admitted', clock - RateWindow < a.at
                 PROVE  a \in current \union before
      OBVIOUS
    <3>1. a.at \in Nat
      BY <1>4 DEF AdmittedTyped
    <3>2. now - RateWindow <= a.at
      BY <1>3, <3>1, RateBounds
    <3> QED BY <2>9, <3>2 DEF current, before
  <2>20. current \in SUBSET admitted' /\ before \in SUBSET admitted'
    BY DEF current, before
  <2>21. Cardinality(current) <= RateMax
    BY <2>12, <2>15, RateBounds
  <2>22. SpansBounded'
    BY <1>2, <1>4, <2>1, <2>2, <2>14, <2>19, <2>20, <2>21, SpansStay
  <2> QED BY <2>4, <2>18, <2>22
<1> QED BY <1>1, <1>4, <1>5 DEF RateIInv

LEMMA CountKeeps ==
  ASSUME RateIInv, NEW r \in Requesters, CountRequest(r)
  PROVE  RateIInv'
<1> DEFINE start == checks[r].start
           count == checks[r].count
<1>1. /\ EndCheck(r) /\ checks[r].step = "read" /\ ~(count >= RateMax)
      /\ Admit(start, count + 1) /\ UNCHANGED <<clock, overlapped>>
  BY DEF CountRequest, EndCheck, Exhausted
<1>2. RateTyped /\ AdmittedTyped /\ CountsAreReal
  BY DEF RateIInv
<1>3. start \in Nat /\ start <= clock /\ count \in Nat /\ count + 1 \in Nat /\ clock \in Nat
  BY <1>2 DEF RateTyped, CheckRecords
<1>4. RateTyped' /\ AdmittedTyped' /\ CountsAreReal'
  <2> DEFINE n == Cardinality(AdmittedSince(start))
  <2>1. AdmittedSince(start) \in SUBSET admitted
    BY DEF AdmittedSince
  <2>2. n \in Nat
    BY <1>2, <2>1, AdmittedFinite DEF AdmittedTyped
  <2>3. count <= n
    BY <1>1, <1>2 DEF CountsAreReal
  <2> HIDE DEF n, start, count
  <2>4. count + 1 <= n + 1
    BY <1>3, <2>2, <2>3
  <2> QED BY <1>1, <1>3, <2>4, CountsStayReal DEF n
<1>5. ASSUME ~overlapped
      PROVE  OneByOne' /\ WindowCounts' /\ SpansBounded'
  <2>1. OneByOne /\ WindowCounts /\ SpansBounded
    BY <1>5 DEF RateIInv
  <2>2. /\ window' = [start |-> start, count |-> count + 1] /\ clock' = clock
        /\ admitted' = admitted \union {NewlyAdmitted}
    BY <1>1 DEF Admit, NewlyAdmitted
  <2>3. /\ count = window.count
        /\ window.start >= 0 => start = window.start
        /\ window.start < 0 => admitted = {}
        /\ window.start \in Int
    BY <1>1, <1>2, <2>1 DEF OneByOne, RateTyped, WindowCounts
  <2>4. OneByOne'
    <3>1. \A other \in Requesters : checks'[other].step = "idle"
      BY <1>1, <1>2, <2>1, EndedCheck DEF OneByOne
    <3> QED BY <3>1 DEF OneByOne
  <2> HIDE DEF start, count
  <2> DEFINE n == Cardinality(admitted)
             m == Cardinality(admitted')
             Old(a) == a.number <= m - window'.count
             current == {a \in admitted' : ~Old(a)}
             before == {a \in admitted' : Old(a) /\ window'.start - RateWindow <= a.at}
             new == NewlyAdmitted
  <2>6. n \in Nat /\ m = n + 1 /\ new \notin admitted /\ IsFiniteSet(admitted)
    BY <1>1, <1>2, <2>2, OneMore DEF AdmittedTyped
  <2>7. /\ \A a \in admitted : /\ a.number \in Nat /\ a.number > 0 /\ a.number <= n
                               /\ a.at \in Nat /\ a.at <= clock
        /\ new.at = clock
    BY <1>2 DEF AdmittedTyped, NewlyAdmitted
  <2>8. new.number = n + 1
    BY DEF NewlyAdmitted
  <2>9. window'.count = count + 1 /\ window'.start = start
    BY <2>2
  <2> HIDE DEF n, m, new
  <2>10. /\ \A a \in admitted : Old(a) <=> a.number <= n - count
         /\ ~Old(new)
    BY <1>3, <2>6, <2>7, <2>8, <2>9
  <2>11. \A a \in admitted : Old(a) <=> Earlier(a)
    BY <2>3, <2>10 DEF Earlier, n
  <2>12. current = OfWindow \union {new}
    BY <2>2, <2>10, <2>11 DEF OfWindow, new
  <2>13. before \in SUBSET BeforeWindow
    <3> SUFFICES ASSUME NEW a \in before
                 PROVE  a \in BeforeWindow
      OBVIOUS
    <3>1. a \in admitted /\ Earlier(a) /\ start - RateWindow <= a.at
      BY <2>2, <2>9, <2>10, <2>11 DEF new
    <3>2. start = window.start
      BY <2>3, <3>1
    <3> QED BY <3>1, <3>2 DEF BeforeWindow
  <2>14. Cardinality(before) <= RateMax
    <3> DEFINE few == Cardinality(before)
               many == Cardinality(BeforeWindow)
    <3>1. BeforeWindow \in SUBSET admitted
      BY DEF BeforeWindow
    <3>2. IsFiniteSet(BeforeWindow) /\ many \in Nat
      BY <1>2, <3>1, AdmittedFinite DEF AdmittedTyped
    <3>3. IsFiniteSet(before) /\ few <= many
      BY <2>13, <3>2, FS_Subset
    <3>4. few \in Nat
      BY <3>3, FS_CardinalityType
    <3>5. many <= RateMax
      BY <2>1 DEF WindowCounts
    <3> HIDE DEF few, many
    <3>6. few <= RateMax
      BY <3>2, <3>3, <3>4, <3>5, RateBounds
    <3> QED BY <3>6 DEF few
  <2>15. Cardinality(current) <= count + 1
    <3> DEFINE k == Cardinality(OfWindow)
    <3>1. OfWindow \in SUBSET admitted
      BY DEF OfWindow
    <3>2. IsFiniteSet(OfWindow) /\ k \in Nat /\ new \notin OfWindow
      BY <2>6, <3>1, AdmittedFinite
    <3>3. Cardinality(OfWindow \union {new}) = k + 1
      BY <3>2, FS_AddElement
    <3>4. k <= count
      BY <2>1, <2>3 DEF WindowCounts
    <3> HIDE DEF k
    <3>5. k + 1 <= count + 1
      BY <1>3, <3>2, <3>4
    <3> QED BY <2>12, <3>3, <3>5
  <2>16. OfWindow' = current /\ BeforeWindow' = before
    BY DEF OfWindow, BeforeWindow, Earlier, m
  <2>17. \A a \in admitted' : Earlier(a)' => a.at <= start
    <3>1. \A a \in admitted' : Earlier(a)' <=> Old(a)
      BY DEF Earlier, m
    <3> SUFFICES ASSUME NEW a \in admitted', Old(a)
                 PROVE  a.at <= start
      BY <3>1
    <3>2. a \in admitted /\ Earlier(a)
      BY <2>2, <2>10, <2>11 DEF new
    <3>3. a.at <= window.start
      BY <2>1, <3>2 DEF WindowCounts
    <3> QED BY <2>3, <3>2, <3>3
  <2> HIDE DEF current, before
  <2>18. count + 1 <= RateMax
    BY <1>1, <1>3, RateBounds
  <2>19. WindowCounts'
    <3>1. window'.count <= RateMax /\ ~(window'.start < 0) /\ window'.count > 0
      BY <1>3, <2>9, <2>18
    <3> QED BY <2>9, <2>14, <2>15, <2>16, <2>17, <3>1 DEF WindowCounts
  <2>20. \A a \in admitted' : clock - RateWindow < a.at => a \in current \union before
    <3> SUFFICES ASSUME NEW a \in admitted', clock - RateWindow < a.at
                 PROVE  a \in current \union before
      OBVIOUS
    <3>1. a.at \in Nat
      BY <1>4 DEF AdmittedTyped
    <3>2. start - RateWindow <= a.at
      BY <1>3, <3>1, RateBounds
    <3> QED BY <2>9, <3>2 DEF current, before
  <2>21. current \in SUBSET admitted' /\ before \in SUBSET admitted'
    BY DEF current, before
  <2>22. Cardinality(current) <= RateMax
    <3>1. Cardinality(current) \in Nat
      BY <1>4, <2>21, FS_Subset, FS_CardinalityType DEF AdmittedTyped
    <3> QED BY <1>3, <2>15, <2>18, <3>1, RateBounds
  <2>23. SpansBounded'
    BY <1>2, <1>4, <2>1, <2>2, <2>14, <2>20, <2>21, <2>22, SpansStay
  <2> QED BY <2>4, <2>19, <2>23
<1> QED BY <1>1, <1>4, <1>5 DEF RateIInv

LEMMA StepRate == RateIInv /\ [RateNext]_rateVars => RateIInv'
<1> SUFFICES ASSUME RateIInv, [RateNext]_rateVars
             PROVE  RateIInv'
  OBVIOUS
<1>1. CASE UNCHANGED rateVars
  <2>1. UNCHANGED <<clock, window, checks, admitted, refused, overlapped>>
    BY <1>1 DEF rateVars
  <2> QED BY <2>1, NothingAdmitted
        DEF RateIInv, RateTyped, AdmittedTyped, CountsAreReal, OneByOne
<1>2. ASSUME NEW r \in Requesters, NEW where \in {"loop", "thread"}, BeginCheck(r, where)
      PROVE  RateIInv'
  BY <1>2, BeginKeeps
<1>3. ASSUME NEW r \in Requesters, ReadWindow(r) \/ OpenWindow(r) \/ CountRequest(r) \/ Refuse(r)
      PROVE  RateIInv'
  BY <1>3, ReadKeepsRate, OpenKeeps, CountKeeps, RefuseKeeps
<1>4. CASE RateClockTicks
  BY <1>4, TimeKeepsRate
<1> QED BY <1>1, <1>2, <1>3, <1>4 DEF RateNext

(* For any number of requests checked at a time, any windows and limits: a *)
(* request is refused only when the limit was let through since the window *)
(* it saw began, and when checks do not overlap, no span as long as a      *)
(* window sees more than twice the limit (ingest.py 67-81).                *)
THEOREM RateStaysBounded == RateSpec => []RateIsBounded
<1>1. RateIInv => RateIsBounded
  <2> SUFFICES ASSUME RateIInv
               PROVE  RateIsBounded
    OBVIOUS
  <2>1. 0..LastTime \subseteq Nat
    BY RateBounds
  <2>2. ASSUME NEW start \in refused
        PROVE  Cardinality(AdmittedSince(start)) >= RateMax
    <3> DEFINE n == Cardinality(AdmittedSince(start))
    <3>1. AdmittedSince(start) \in SUBSET admitted
      BY DEF AdmittedSince
    <3>2. n \in Nat
      BY <3>1, AdmittedFinite DEF RateIInv, AdmittedTyped
    <3>3. RateMax <= n
      BY DEF RateIInv, CountsAreReal
    <3> HIDE DEF n
    <3>4. n >= RateMax
      BY <3>2, <3>3, RateBounds
    <3> QED BY <3>4 DEF n
  <2>3. ~overlapped =>
          \A t \in 0..LastTime : Cardinality(AdmittedBetween(t, t + RateWindow)) <= 2 * RateMax
    BY <2>1 DEF RateIInv, SpansBounded
  <2> QED BY <2>2, <2>3 DEF RateIsBounded
<1> QED BY InitRate, StepRate, <1>1, PTL DEF RateSpec

-----------------------------------------------------------------------------
(* What an export and a failed call are.                                   *)
OtlpCall ==
  lastCall.route = "otlp" =>
    \E transport \in Transports, export \in Exports : lastCall.body = <<transport, export>>

BulkCall ==
  lastCall.route = "bulk" /\ lastCall.answer = 200 =>
    lastCall.body \in BulkBodies /\ lastCall.taken = Documents(lastCall.body)

CallInv == FailedCallsLeaveNothing /\ OtlpCall /\ BulkCall

OtlpBody(route, body) ==
  route = "otlp" => \E transport \in Transports, export \in Exports : body = <<transport, export>>
BulkBody(route, body, taken) ==
  route = "bulk" => body \in BulkBodies /\ taken = Documents(body)

(* The bodies on which the pipeline raises.                                *)
Raises(route, body) ==
  \/ route = "json" /\ Has(body, "farend")
  \/ route = "otlp" /\ EndsTooLate(body[1], body[2])

LEMMA ReplyKeeps ==
  ASSUME NEW route, NEW body, NEW taken, NEW n, NEW answer,
         IngestReply(route, body, taken, n, answer),
         answer >= 400 => n = 0 \/ Raises(route, body),
         OtlpBody(route, body), answer = 200 => BulkBody(route, body, taken)
  PROVE  CallInv'
<1>1. /\ lastCall'.route = route /\ lastCall'.body = body /\ lastCall'.taken = taken
      /\ lastCall'.accepted = n /\ lastCall'.answer = answer
  BY DEF IngestReply
<1>2. FailedCallsLeaveNothing'
  BY <1>1 DEF FailedCallsLeaveNothing, EndsBeyondDatetime, Raises
<1>3. OtlpCall' /\ BulkCall'
  BY <1>1 DEF OtlpCall, OtlpBody, BulkCall, BulkBody
<1> QED BY <1>2, <1>3 DEF CallInv

LEMMA DeliverKeeps ==
  ASSUME NEW route, NEW body, NEW taken, Deliver(route, body, taken),
         OtlpBody(route, body), BulkBody(route, body, taken)
  PROVE  CallInv'
<1>1. PICK n \in 0..Len(taken) : IngestReply(route, body, taken, n, 200)
  BY DEF Deliver
<1>2. ~(200 >= 400)
  OBVIOUS
<1> QED BY <1>1, <1>2, ReplyKeeps

LEMMA RaiseKeeps ==
  ASSUME NEW route, NEW body, NEW taken, NEW answer, RaiseAfter(route, body, taken, answer),
         answer # 200, Raises(route, body), OtlpBody(route, body)
  PROVE  CallInv'
<1>1. PICK n \in 1..Len(taken) : IngestReply(route, body, taken, n, answer)
  BY DEF RaiseAfter
<1> QED BY <1>1, ReplyKeeps

LEMMA FailedKeeps ==
  ASSUME NEW route, NEW body, NEW answer, Failed(route, body, answer), answer # 200,
         OtlpBody(route, body)
  PROVE  CallInv'
BY ReplyKeeps DEF Failed

LEMMA CheckedKeeps ==
  ASSUME NEW route, NEW body, NEW serve, CheckRateLimit(route, body, serve),
         serve => CallInv', OtlpBody(route, body)
  PROVE  CallInv'
<1>1. Failed(route, body, 429) \/ serve
  BY DEF CheckRateLimit
<1>2. 429 # 200
  OBVIOUS
<1> QED BY <1>1, <1>2, FailedKeeps

LEMMA OtherRoutes ==
  ASSUME NEW route \in {"json", "hec", "loki", "prometheus"}, NEW body, NEW taken
  PROVE  OtlpBody(route, body) /\ BulkBody(route, body, taken)
BY DEF OtlpBody, BulkBody

LEMMA StepCall == CallInv /\ [IngestNext]_ingestVars => CallInv'
<1> SUFFICES ASSUME CallInv, [IngestNext]_ingestVars
             PROVE  CallInv'
  OBVIOUS
<1>1. ASSUME NEW body, IngestJson(body)
      PROVE  CallInv'
  <2> DEFINE kept == Keep(body, {"entry", "farend"})
             serve == IF Has(body, "badlevel") THEN Failed("json", body, 500)
                      ELSE \/ Deliver("json", body, kept)
                           \/ Has(body, "farend") /\ RaiseAfter("json", body, kept, 500)
  <2>1. Failed("json", body, 422) \/ CheckRateLimit("json", body, serve)
    BY <1>1 DEF IngestJson
  <2>2. serve => CallInv'
    <3>1. Has(body, "farend") => Raises("json", body)
      BY DEF Raises
    <3>2. Has(body, "farend") /\ RaiseAfter("json", body, kept, 500) => CallInv'
      <4>1. 500 # 200
        OBVIOUS
      <4> HIDE DEF kept
      <4> QED BY <3>1, <4>1, OtherRoutes, RaiseKeeps
    <3> QED BY <3>2, OtherRoutes, FailedKeeps, DeliverKeeps
  <2> HIDE DEF serve
  <2> QED BY <2>1, <2>2, OtherRoutes, FailedKeeps, CheckedKeeps
<1>2. ASSUME NEW body, SplunkHec(body)
      PROVE  CallInv'
  <2> DEFINE events == Keep(body, {"entry", "badlevel", "farend"})
             serve == IF Has(body, "badtime") THEN Failed("hec", body, 500)
                      ELSE IF events = <<>> THEN Failed("hec", body, 400)
                      ELSE Deliver("hec", body, events)
  <2>1. CheckRateLimit("hec", body, serve)
    BY <1>2 DEF SplunkHec
  <2>2. serve => CallInv'
    BY OtherRoutes, FailedKeeps, DeliverKeeps
  <2> HIDE DEF serve
  <2> QED BY <2>1, <2>2, OtherRoutes, CheckedKeeps
<1>3. ASSUME NEW body, LokiPush(body)
      PROVE  CallInv'
  <2> DEFINE entries == Keep(body, {"entry", "badtime", "farend"})
             serve == \/ Failed("loki", body, 400)
                      \/ IF Has(body, "badlevel") THEN Failed("loki", body, 500)
                         ELSE IF entries = <<>> THEN Failed("loki", body, 400)
                         ELSE Deliver("loki", body, entries)
  <2>1. CheckRateLimit("loki", body, serve)
    BY <1>3 DEF LokiPush
  <2>2. serve => CallInv'
    BY OtherRoutes, FailedKeeps, DeliverKeeps
  <2> HIDE DEF serve
  <2> QED BY <2>1, <2>2, OtherRoutes, CheckedKeeps
<1>4. ASSUME NEW body, PrometheusWrite(body)
      PROVE  CallInv'
  <2>1. IngestReply("prometheus", body, <<>>, 0, 204) => CallInv'
    BY OtherRoutes, ReplyKeeps
  <2> QED BY <1>4, <2>1, OtherRoutes, CheckedKeeps DEF PrometheusWrite
<1>5. ASSUME NEW body \in BulkBodies, ElasticsearchBulk(body)
      PROVE  CallInv'
  <2> DEFINE serve == IF Documents(body) = <<>> THEN Failed("bulk", body, 400)
                      ELSE Deliver("bulk", body, Documents(body))
  <2>1. CheckRateLimit("bulk", body, serve)
    BY <1>5 DEF ElasticsearchBulk
  <2>2. OtlpBody("bulk", body) /\ BulkBody("bulk", body, Documents(body))
    BY DEF OtlpBody, BulkBody
  <2>3. serve => CallInv'
    BY <2>2, FailedKeeps, DeliverKeeps
  <2> HIDE DEF serve
  <2> QED BY <2>1, <2>2, <2>3, CheckedKeeps
<1>6. ASSUME NEW transport \in Transports, NEW export \in Exports, OtlpHttp(transport, export)
      PROVE  CallInv'
  <2> DEFINE body == <<transport, export>>
             taken == Convert(transport, export)
             serve == \/ Failed("otlp", body, 400)
                      \/ \E n \in 0..Len(taken) :
                           IngestReply("otlp", body, taken, n, IF n > 0 THEN 200 ELSE 400)
                      \/ EndsTooLate(transport, export) /\ RaiseAfter("otlp", body, taken, 400)
  <2>1. CheckRateLimit("otlp", body, serve)
    BY <1>6 DEF OtlpHttp
  <2>2. OtlpBody("otlp", body) /\ BulkBody("otlp", body, taken)
    BY DEF OtlpBody, BulkBody
  <2>4. EndsTooLate(transport, export) => Raises("otlp", body)
    BY DEF Raises
  <2> HIDE DEF body, taken
  <2>3. serve => CallInv'
    <3>1. ASSUME NEW n \in 0..Len(taken),
                 IngestReply("otlp", body, taken, n, IF n > 0 THEN 200 ELSE 400)
          PROVE  CallInv'
      <4>1. (IF n > 0 THEN 200 ELSE 400) >= 400 => n = 0
        OBVIOUS
      <4> QED BY <2>2, <3>1, <4>1, ReplyKeeps
    <3>2. Failed("otlp", body, 400) => CallInv'
      BY <2>2, FailedKeeps
    <3>3. EndsTooLate(transport, export) /\ RaiseAfter("otlp", body, taken, 400) => CallInv'
      <4>1. 400 # 200
        OBVIOUS
      <4> QED BY <2>2, <2>4, <4>1, RaiseKeeps
    <3> QED BY <3>1, <3>2, <3>3
  <2> HIDE DEF serve
  <2> QED BY <2>1, <2>2, <2>3, CheckedKeeps
<1>7. ASSUME NEW export \in Exports, OtlpGrpc(export)
      PROVE  CallInv'
  <2>1. Deliver("otlp", <<"grpc", export>>, Convert("grpc", export))
    BY <1>7 DEF OtlpGrpc
  <2>2. /\ OtlpBody("otlp", <<"grpc", export>>)
        /\ BulkBody("otlp", <<"grpc", export>>, Convert("grpc", export))
    BY DEF Transports, OtlpBody, BulkBody
  <2> QED BY <2>1, <2>2, DeliverKeeps
<1>8. CASE Respond
  BY <1>8 DEF Respond, CallInv, FailedCallsLeaveNothing, EndsBeyondDatetime, OtlpCall, BulkCall, NoCall
<1>9. CASE UNCHANGED lastCall
  BY <1>9 DEF CallInv, FailedCallsLeaveNothing, EndsBeyondDatetime, OtlpCall, BulkCall
<1> QED BY <1>1, <1>2, <1>3, <1>4, <1>5, <1>6, <1>7, <1>8, <1>9 DEF IngestNext, ingestVars

(* The converters differ in what Common excludes and in nothing else.      *)
LEMMA PlainValues ==
  ASSUME NEW t \in Transports
  PROVE  /\ \A v \in PlainAttributes : AttributeValue(t, v) = AttributeValue("grpc", v)
         /\ \A id \in PlainIds : Identifier(t, id) = Identifier("grpc", id)
BY DEF PlainAttributes, PlainIds, AttributeValue, Identifier

LEMMA ConvertersAgree ==
  ASSUME NEW export \in Exports, Common(export), NEW t \in Transports
  PROVE  Convert(t, export) = Convert("grpc", export)
<1> DEFINE record(by, item) == CASE export.signal = "logs" -> LogOf(by, item)
                                 [] export.signal = "metrics" -> PointOf(by, item)
                                 [] export.signal = "traces" -> SpanOf(by, item)
<1>1. export.signal \in {"logs", "metrics", "traces"}
  BY IngestAssumption DEF IngestAssumption
<1>2. ASSUME NEW i \in DOMAIN export.items
      PROVE  record(t, export.items[i]) = record("grpc", export.items[i])
  <2> DEFINE item == export.items[i]
  <2> HIDE DEF item
  <2>1. CASE export.signal = "logs"
    <3>1. /\ item.severity \in RangeStarts \union {0} /\ item.body = "text"
          /\ item.attribute \in PlainAttributes /\ item.trace \in PlainIds
      BY <2>1 DEF Common, item
    <3>2. Severity(t, item.severity) = Severity("grpc", item.severity)
      BY <3>1 DEF Severity, RangeStarts
    <3>3. AttributeValue(t, item.attribute) = AttributeValue("grpc", item.attribute)
      BY <3>1, PlainValues
    <3>4. Identifier(t, item.trace) = Identifier("grpc", item.trace)
      BY <3>1, PlainValues
    <3>5. BodyText(t, item.body) = BodyText("grpc", item.body)
      BY <3>1 DEF BodyText
    <3> QED BY <2>1, <3>2, <3>3, <3>4, <3>5 DEF LogOf, item
  <2>2. CASE export.signal = "metrics"
    <3>1. /\ item.kind \notin {"histogram", "summary"} /\ ~item.described
          /\ item.label \in PlainAttributes \union {"integer"}
      BY <2>2 DEF Common, item
    <3>2. Label(t, item.label) = Label("grpc", item.label)
      BY <3>1, PlainValues DEF Label
    <3>3. (t = "grpc" /\ item.described) = ("grpc" = "grpc" /\ item.described)
      BY <3>1
    <3>4. PointOf(t, item) = PointOf("grpc", item)
      BY <3>1, <3>2, <3>3 DEF PointOf
    <3> QED BY <2>2, <3>4 DEF item
  <2>3. CASE export.signal = "traces"
    <3>1. item.parent \in PlainIds /\ item.attribute \in PlainAttributes /\ ~item.links
      BY <2>3 DEF Common, item
    <3>2. /\ Identifier(t, item.parent) = Identifier("grpc", item.parent)
          /\ AttributeValue(t, item.attribute) = AttributeValue("grpc", item.attribute)
      BY <3>1, PlainValues
    <3>3. SpanOf(t, item) = SpanOf("grpc", item)
      BY <3>1, <3>2 DEF SpanOf
    <3> QED BY <2>3, <3>3 DEF item
  <2> QED BY <1>1, <2>1, <2>2, <2>3
<1> DEFINE mine == [i \in DOMAIN export.items |-> record(t, export.items[i])]
           theirs == [i \in DOMAIN export.items |-> record("grpc", export.items[i])]
<1>3. mine = theirs
  <2> HIDE DEF record
  <2> QED BY <1>2
<1>4. Convert(t, export) = FlattenSeq(mine)
  BY Zenon DEF Convert
<1>5. Convert("grpc", export) = FlattenSeq(theirs)
  BY Zenon DEF Convert
<1> HIDE DEF mine, theirs
<1> QED BY <1>3, <1>4, <1>5

-----------------------------------------------------------------------------
(* The documents of a bulk body.  Documents as a walk over the lines.      *)
Pairings == [expect : {"action", "document", "ignored"}, docs : Seq(Nat)]
FirstLine == [expect |-> "action", docs |-> <<>>]

LEMMA NextLineType ==
  ASSUME NEW at \in Pairings, NEW i \in Nat, NEW line
  PROVE  NextLine(at, i, line) \in Pairings
<1>1. Append(at.docs, i) \in Seq(Nat)
  BY DEF Pairings
<1>2. \/ NextLine(at, i, line) = [at EXCEPT !.expect = "action"]
      \/ NextLine(at, i, line) = [at EXCEPT !.expect = "ignored"]
      \/ NextLine(at, i, line) = [at EXCEPT !.expect = "document"]
      \/ NextLine(at, i, line) = at
      \/ NextLine(at, i, line) = [expect |-> "action", docs |-> Append(at.docs, i)]
  BY DEF NextLine
<1>3. /\ [at EXCEPT !.expect = "action"] \in Pairings
      /\ [at EXCEPT !.expect = "ignored"] \in Pairings
      /\ [at EXCEPT !.expect = "document"] \in Pairings
  BY DEF Pairings
<1>4. [expect |-> "action", docs |-> Append(at.docs, i)] \in Pairings
  BY <1>1 DEF Pairings
<1> QED BY <1>2, <1>3, <1>4

LEMMA DocumentsWalk ==
  ASSUME NEW body \in Seq(BulkLines)
  PROVE  \E g \in [0..Len(body) -> Pairings] :
           /\ g[0] = FirstLine
           /\ \A k \in 1..Len(body) : g[k] = NextLine(g[k - 1], k, body[k])
           /\ Documents(body) = g[Len(body)].docs
<1> DEFINE n == Len(body)
           seq == Positions(body)
           Take(at, i) == NextLine(at, i, body[i])
           P(iter) == iter = [s \in SUBSET (1..n) |->
                                IF s = {} THEN FirstLine
                                ELSE Take(iter[s \ {Max(s)}], seq[Max(s)])]
           iter == CHOOSE f : P(f)
           step == [k \in 1..n |-> [at \in Pairings |-> Take(at, k)]]
<1>0. n \in Nat /\ DOMAIN seq = 1..n /\ \A k \in 1..n : seq[k] = k
  BY DEF Positions
<1>1. Documents(body) = iter[1..n].docs
  <2>1. FoldLeft(Take, FirstLine, seq) = iter[1..n]
    BY <1>0 DEF FoldLeft, MapThenFoldSet
  <2>2. Documents(body) = FoldLeft(Take, FirstLine, seq).docs
    BY Zenon DEF Documents, FirstLine
  <2> QED BY <2>1, <2>2
<1>2. FirstLine \in Pairings
  BY DEF FirstLine, Pairings
<1>3. step \in [1..n -> [Pairings -> Pairings]]
  BY <1>0, NextLineType
<1>4. \A k \in 1..n : seq[k] = k /\ \A at \in Pairings : step[k][at] = Take(at, k)
  BY <1>0
<1> HIDE DEF step, seq, n, Take
<1>5. PICK some \in [SUBSET (1..n) -> Pairings] : FoldsUp(n, FirstLine, step, some)
  BY <1>0, <1>2, <1>3, FoldExists
<1>6. P(some)
  <2>1. ASSUME NEW s \in SUBSET (1..n), s # {}
        PROVE  step[Max(s)][some[s \ {Max(s)}]] = Take(some[s \ {Max(s)}], seq[Max(s)])
    <3>1. Max(s) \in 1..n
      BY <1>0, <2>1, LargestOf
    <3> QED BY <1>4, <3>1
  <2> QED BY <1>5, <2>1 DEF FoldsUp
<1>7. P(iter)
  BY <1>6
<1> HIDE DEF iter
<1>8. GoesOn(n, Pairings, FirstLine, step, iter)
  <2>0. iter[{}] = FirstLine
    BY <1>7
  <2> SUFFICES ASSUME NEW s \in SUBSET (1..n), s # {}, iter[s \ {Max(s)}] \in Pairings
               PROVE  iter[s] = step[Max(s)][iter[s \ {Max(s)}]]
    BY <2>0 DEF GoesOn
  <2>1. Max(s) \in 1..n
    BY <1>0, LargestOf
  <2>2. iter[s] = Take(iter[s \ {Max(s)}], seq[Max(s)])
    BY <1>7
  <2> QED BY <1>4, <2>1, <2>2
<1>9. PICK g \in [0..n -> Pairings] : IsWalk(n, FirstLine, step, g) /\ g[n] = iter[1..n]
  BY <1>0, <1>2, <1>3, <1>8, FoldWalks
<1>10. ASSUME NEW k \in 1..n PROVE g[k] = NextLine(g[k - 1], k, body[k])
  <2>1. g[k - 1] \in Pairings
    BY <1>0, <1>9
  <2>2. g[k] = Take(g[k - 1], k)
    BY <1>4, <1>9, <2>1 DEF IsWalk
  <2> QED BY <2>2 DEF Take
<1> QED BY <1>1, <1>9, <1>10 DEF IsWalk, n

(* What WellFormed says of its operations; each line is its own operation  *)
(* or the second line of the one before.                                   *)
OperationsOf(body, starts) ==
  /\ \A i \in starts : OperationAt(body, i) # 0
  /\ \A i \in 1..Len(body) :
       Cardinality({s \in starts : s <= i /\ i < s + OperationAt(body, s)}) = 1

LEMMA OperationIs ==
  ASSUME NEW body \in Seq(BulkLines), NEW i \in 1..Len(body), OperationAt(body, i) # 0
  PROVE  \/ body[i] = "delete" /\ OperationAt(body, i) = 1
         \/ /\ body[i] \in {"index", "update"} /\ i + 1 \in 1..Len(body)
            /\ body[i + 1] \in {"doc", "junk"} /\ OperationAt(body, i) = 2
<1>1. i < Len(body) => i + 1 \in 1..Len(body)
  OBVIOUS
<1> QED BY <1>1 DEF OperationAt

LEMMA OperationsFollow ==
  ASSUME NEW body \in Seq(BulkLines), NEW starts \in SUBSET (1..Len(body)),
         OperationsOf(body, starts), NEW k \in Nat, k + 1 \in 1..Len(body)
  PROVE  \/ k + 1 \in starts
         \/ k \in starts /\ OperationAt(body, k) = 2
<1> DEFINE over == {s \in starts : s <= k + 1 /\ k + 1 < s + OperationAt(body, s)}
<1>1. over \in SUBSET (1..Len(body)) /\ Cardinality(over) = 1
  BY DEF OperationsOf
<1>2. IsFiniteSet(over)
  BY <1>1, FS_Interval, FS_Subset
<1>3. over # {}
  <2> HIDE DEF over
  <2> QED BY <1>1, <1>2, FS_EmptySet
<1>4. PICK s \in starts : s <= k + 1 /\ k + 1 < s + OperationAt(body, s)
  BY <1>3
<1>5. OperationAt(body, s) \in {1, 2}
  BY OperationIs DEF OperationsOf
<1>6. s \in Nat
  OBVIOUS
<1>7. s = k + 1 \/ (s = k /\ OperationAt(body, s) = 2)
  BY <1>4, <1>5, <1>6
<1> QED BY <1>4, <1>7

(* What the first k lines lead to: the documents sent so far, and whether  *)
(* an operation is under way.                                              *)
SentBy(body, k) == {i \in 2..k : body[i] = "doc" /\ body[i - 1] = "index"}
Taking(docs, sent) ==
  /\ {docs[n] : n \in DOMAIN docs} = sent
  /\ \A n \in 2..Len(docs) : docs[n - 1] < docs[n]
PairedUpTo(body, starts, k, at) ==
  /\ Taking(at.docs, SentBy(body, k))
  /\ at.expect = "action" => k = Len(body) \/ k + 1 \in starts
  /\ at.expect # "action" => /\ k \in starts /\ OperationAt(body, k) = 2
                             /\ body[k] = IF at.expect = "document" THEN "index" ELSE "update"

LEMMA TakeOne ==
  ASSUME NEW k \in Nat, NEW docs \in Seq(Nat), NEW sent \in SUBSET (1..k), Taking(docs, sent)
  PROVE  Taking(Append(docs, k + 1), sent \union {k + 1})
<1> DEFINE more == Append(docs, k + 1)
<1>1. /\ Len(docs) \in Nat /\ Len(more) = Len(docs) + 1 /\ more[Len(docs) + 1] = k + 1
      /\ \A n \in 1..Len(docs) : more[n] = docs[n]
  OBVIOUS
<1>2. DOMAIN more = 1..(Len(docs) + 1) /\ DOMAIN docs = 1..Len(docs)
  OBVIOUS
<1> HIDE DEF more
<1>3. \A n \in 1..Len(docs) : docs[n] \in 1..k
  BY <1>2 DEF Taking
<1>4. {more[n] : n \in DOMAIN more} = sent \union {k + 1}
  <2>1. {docs[n] : n \in 1..Len(docs)} = sent
    BY <1>2 DEF Taking
  <2>2. \A n \in DOMAIN more : n \in 1..Len(docs) \/ n = Len(docs) + 1
    BY <1>1, <1>2
  <2>3. Len(docs) + 1 \in DOMAIN more /\ \A n \in 1..Len(docs) : n \in DOMAIN more
    BY <1>1, <1>2
  <2> QED BY <1>1, <2>1, <2>2, <2>3
<1>5. ASSUME NEW n \in 2..Len(more) PROVE more[n - 1] < more[n]
  <2>1. CASE n = Len(docs) + 1
    <3>1. n - 1 \in 1..Len(docs)
      BY <1>1, <2>1
    <3> QED BY <1>1, <1>3, <2>1, <3>1
  <2>2. CASE n # Len(docs) + 1
    <3>1. n \in 2..Len(docs) /\ n \in 1..Len(docs) /\ n - 1 \in 1..Len(docs)
      BY <1>1, <2>2
    <3> QED BY <1>1, <3>1 DEF Taking
  <2> QED BY <2>1, <2>2
<1> QED BY <1>4, <1>5 DEF Taking, more

LEMMA OneMoreLine ==
  ASSUME NEW body \in Seq(BulkLines), NEW starts \in SUBSET (1..Len(body)),
         OperationsOf(body, starts), NEW k \in Nat, k + 1 \in 1..Len(body),
         NEW at \in Pairings, PairedUpTo(body, starts, k, at)
  PROVE  PairedUpTo(body, starts, k + 1, NextLine(at, k + 1, body[k + 1]))
<1> DEFINE line == body[k + 1]
           next == NextLine(at, k + 1, line)
           again == k + 1 = Len(body) \/ (k + 1) + 1 \in starts
<1>0. /\ line \in BulkLines /\ Len(body) \in Nat /\ at.docs \in Seq(Nat)
      /\ at.expect \in {"action", "document", "ignored"}
  BY DEF Pairings
<1>1. OperationAt(body, k + 1) # 2 \/ k + 1 \notin starts => again
  <2>1. k + 1 # Len(body) => (k + 1) + 1 \in 1..Len(body)
    BY <1>0
  <2> QED BY <2>1, OperationsFollow
<1>2. SentBy(body, k + 1) = IF k >= 1 /\ line = "doc" /\ body[k] = "index"
                            THEN SentBy(body, k) \union {k + 1} ELSE SentBy(body, k)
  <2>1. \A i \in 2..(k + 1) : i \in 2..k \/ (i = k + 1 /\ k >= 1)
    OBVIOUS
  <2>2. (k + 1) - 1 = k /\ (k >= 1 => k + 1 \in 2..(k + 1)) /\ \A i \in 2..k : i \in 2..(k + 1)
    OBVIOUS
  <2>3. k + 1 \notin 2..k
    OBVIOUS
  <2> QED BY <2>1, <2>2, <2>3 DEF SentBy
<1>3. CASE at.expect = "action"
  <2>1. k + 1 \in starts
    BY <1>3 DEF PairedUpTo
  <2>2. \/ line = "delete" /\ OperationAt(body, k + 1) = 1
        \/ line \in {"index", "update"} /\ OperationAt(body, k + 1) = 2
    BY <2>1, OperationIs DEF OperationsOf
  <2>3. SentBy(body, k + 1) = SentBy(body, k)
    BY <1>2, <2>2
  <2>4. /\ line = "delete" => next = at
        /\ line = "update" => next = [at EXCEPT !.expect = "ignored"]
        /\ line = "index" => next = [at EXCEPT !.expect = "document"]
    BY <1>3 DEF NextLine
  <2>5. /\ next.docs = at.docs
        /\ next.expect = CASE line = "delete" -> "action"
                           [] line = "update" -> "ignored"
                           [] line = "index" -> "document"
    BY <1>3, <2>2, <2>4 DEF Pairings
  <2> HIDE DEF next
  <2>6. line = "delete" => again
    BY <1>1, <2>2
  <2>7. PairedUpTo(body, starts, k + 1, next)
    <3> HIDE DEF line, again
    <3>1. Taking(next.docs, SentBy(body, k + 1))
      BY <2>3, <2>5 DEF PairedUpTo
    <3>2. CASE line = "delete"
      <4>1. next.expect = "action" /\ again
        BY <2>5, <2>6, <3>2
      <4> QED BY <3>1, <4>1 DEF PairedUpTo, again
    <3>3. CASE line # "delete"
      <4>1. /\ next.expect # "action" /\ OperationAt(body, k + 1) = 2
            /\ body[k + 1] = IF next.expect = "document" THEN "index" ELSE "update"
        BY <2>2, <2>5, <3>3 DEF line
      <4> QED BY <2>1, <3>1, <4>1 DEF PairedUpTo
    <3> QED BY <3>2, <3>3
  <2> QED BY <2>7 DEF next, line
<1>4. CASE at.expect # "action"
  <2>1. /\ k \in starts /\ OperationAt(body, k) = 2
        /\ body[k] = IF at.expect = "document" THEN "index" ELSE "update"
    BY <1>4 DEF PairedUpTo
  <2>2. line \in {"doc", "junk"} /\ k >= 1
    BY <2>1, OperationIs
  <2>3. k + 1 \notin starts
    BY <2>2, OperationIs DEF OperationsOf
  <2>4. again
    BY <1>1, <2>3
  <2>5. CASE at.expect = "document" /\ line = "doc"
    <3>1. next = [expect |-> "action", docs |-> Append(at.docs, k + 1)]
      BY <2>5 DEF NextLine
    <3>2. SentBy(body, k + 1) = SentBy(body, k) \union {k + 1}
      BY <1>2, <2>1, <2>2, <2>5
    <3>3. SentBy(body, k) \in SUBSET (1..k)
      BY DEF SentBy
    <3>4. Taking(Append(at.docs, k + 1), SentBy(body, k) \union {k + 1})
      BY <1>0, <3>3, TakeOne DEF PairedUpTo
    <3>5. next.docs = Append(at.docs, k + 1) /\ next.expect = "action"
      BY <3>1
    <3> HIDE DEF next
    <3>6. PairedUpTo(body, starts, k + 1, next)
      BY <2>4, <3>2, <3>4, <3>5 DEF PairedUpTo
    <3> QED BY <3>6 DEF next
  <2>6. CASE ~(at.expect = "document" /\ line = "doc")
    <3>1. next = [at EXCEPT !.expect = "action"]
      BY <1>0, <1>4, <2>2, <2>6 DEF NextLine
    <3>2. SentBy(body, k + 1) = SentBy(body, k)
      BY <1>0, <1>2, <1>4, <2>1, <2>2, <2>6
    <3>3. next.docs = at.docs /\ next.expect = "action"
      BY <3>1 DEF Pairings
    <3> QED BY <2>4, <3>2, <3>3 DEF PairedUpTo
  <2> QED BY <2>5, <2>6
<1> QED BY <1>3, <1>4

LEMMA DocumentsOfOperations ==
  ASSUME NEW body \in Seq(BulkLines), WellFormed(body)
  PROVE  Taking(Documents(body), SentBy(body, Len(body)))
<1>1. PICK starts \in SUBSET (1..Len(body)) : OperationsOf(body, starts)
  BY DEF WellFormed, OperationsOf
<1>2. PICK g \in [0..Len(body) -> Pairings] :
        /\ g[0] = FirstLine
        /\ \A k \in 1..Len(body) : g[k] = NextLine(g[k - 1], k, body[k])
        /\ Documents(body) = g[Len(body)].docs
  BY DocumentsWalk
<1> DEFINE H == {k \in Nat : k <= Len(body) => PairedUpTo(body, starts, k, g[k])}
<1>3. 0 \in H
  <2>1. SentBy(body, 0) = {} /\ DOMAIN <<>> = {} /\ Len(<<>>) = 0
    BY DEF SentBy
  <2>2. Taking(<<>>, SentBy(body, 0))
    BY <2>1 DEF Taking
  <2>3. 0 \notin starts /\ Len(body) \in Nat /\ 0 + 1 = 1
    OBVIOUS
  <2>4. 0 = Len(body) \/ 0 + 1 \in starts
    BY <2>3, OperationsFollow, <1>1
  <2> QED BY <1>2, <2>2, <2>4 DEF PairedUpTo, FirstLine
<1>4. ASSUME NEW k \in Nat, k \in H PROVE k + 1 \in H
  <2> SUFFICES ASSUME k + 1 <= Len(body)
               PROVE  PairedUpTo(body, starts, k + 1, g[k + 1])
    OBVIOUS
  <2>1. k \in 0..Len(body) /\ k <= Len(body) /\ k + 1 \in 1..Len(body) /\ (k + 1) - 1 = k
    OBVIOUS
  <2>2. g[k + 1] = NextLine(g[k], k + 1, body[k + 1]) /\ g[k] \in Pairings
    BY <1>2, <2>1
  <2>3. PairedUpTo(body, starts, k, g[k])
    BY <1>4, <2>1
  <2> QED BY <1>1, <2>1, <2>2, <2>3, OneMoreLine
<1> HIDE DEF H
<1>5. Nat \subseteq H
  BY <1>3, <1>4, CountingUp
<1>6. Len(body) \in H
  BY <1>5
<1> QED BY <1>2, <1>6 DEF H, PairedUpTo

(* For any exports and bodies: a call that failed left nothing, a bulk     *)
(* body of well-formed operations leads to the documents its index lines   *)
(* announce, and what the three transports have in common they convert     *)
(* alike (compat.py 101-160, ingest.py, grpc/server.py).                   *)
THEOREM CallsAreUnderstood == IngestSpec => []BatchesAreUnderstood
<1>1. IngestInit => CallInv
  BY DEF IngestInit, NoCall, CallInv, FailedCallsLeaveNothing, EndsBeyondDatetime, OtlpCall, BulkCall
<1>2. CallInv => TransportsAgree
  <2> SUFFICES ASSUME CallInv, lastCall.route = "otlp", Common(lastCall.body[2]), NEW t \in Transports
               PROVE  Convert(t, lastCall.body[2]) = Convert("grpc", lastCall.body[2])
    BY DEF CallInv, TransportsAgree
  <2>1. PICK transport \in Transports, export \in Exports : lastCall.body = <<transport, export>>
    BY DEF CallInv, OtlpCall
  <2>2. lastCall.body[2] = export
    BY <2>1
  <2> QED BY <2>2, ConvertersAgree
<1>3. CallInv => BulkTakesDocuments
  <2> SUFFICES ASSUME CallInv, lastCall.route = "bulk", lastCall.answer = 200,
                      WellFormed(lastCall.body)
               PROVE  Taking(lastCall.taken, SentBy(lastCall.body, Len(lastCall.body)))
    BY DEF BulkTakesDocuments, Taking, SentBy
  <2>1. lastCall.body \in BulkBodies /\ lastCall.taken = Documents(lastCall.body)
    BY DEF CallInv, BulkCall
  <2>2. lastCall.body \in Seq(BulkLines)
    BY <2>1, IngestAssumption DEF IngestAssumption
  <2> QED BY <2>1, <2>2, DocumentsOfOperations
<1>4. CallInv => BatchesAreUnderstood
  BY <1>2, <1>3 DEF BatchesAreUnderstood, CallInv
<1> QED BY <1>1, <1>4, StepCall, PTL DEF IngestSpec

-----------------------------------------------------------------------------
(* Experiments.  First: of averages that are rounded the greater was       *)
(* greater, and no more than a unit is lost.                               *)
LEMMA DivBounds ==
  ASSUME NEW x \in Nat, NEW n \in Nat, n > 0
  PROVE  /\ x \div n \in Int
         /\ n * (x \div n) <= x
         /\ x < n * (x \div n) + n
OBVIOUS

LEMMA ProductOrder ==
  ASSUME NEW a \in Int, NEW b \in Int, NEW c \in Nat, a <= b
  PROVE  c * a <= c * b
OBVIOUS

LEMMA ProductStrictOrder ==
  ASSUME NEW a \in Int, NEW b \in Int, NEW c \in Nat, a < b, c > 0
  PROVE  c * a < c * b
OBVIOUS

LEMMA NaturalProduct ==
  ASSUME NEW a \in Nat, NEW b \in Nat
  PROVE  a * b \in Nat
OBVIOUS

LEMMA DivNat ==
  ASSUME NEW x \in Nat, NEW n \in Nat, n > 0, NEW k \in Nat, x <= n * k
  PROVE  x \div n \in 0..k
<1> DEFINE q == x \div n
<1>1. q \in Int /\ n * q <= x /\ x < n * q + n
  BY DivBounds
<1> HIDE DEF q
<1>2. ASSUME q > k PROVE FALSE
  <2>1. n * k < n * q
    BY <1>1, <1>2, ProductStrictOrder
  <2>2. n * k \in Int /\ n * q \in Int
    BY <1>1
  <2> QED BY <1>1, <2>1, <2>2
<1>3. ASSUME q < 0 PROVE FALSE
  <2>1. q + 1 <= 0
    BY <1>1, <1>3
  <2>2. n * (q + 1) <= n * 0
    BY <1>1, <2>1, ProductOrder
  <2>3. n * (q + 1) = n * q + n /\ n * 0 = 0
    BY <1>1
  <2>4. n * q \in Int
    BY <1>1
  <2> QED BY <1>1, <2>2, <2>3, <2>4
<1>4. q \in 0..k
  BY <1>1, <1>2, <1>3
<1> QED BY <1>4 DEF q

IsFigure(x) == x.sum \in Nat /\ x.over \in Nat

LEMMA RoundedBounds ==
  ASSUME NEW x, IsFigure(x), x.over > 0
  PROVE  /\ Rounded(x) \in Int
         /\ 2 * (x.over * Rounded(x)) <= 2 * x.sum + x.over
         /\ 2 * x.sum + x.over < 2 * (x.over * Rounded(x)) + 2 * x.over
<1> DEFINE n == x.over
           m == 2 * n
           k == 2 * x.sum + n
           q == k \div m
<1>1. n \in Nat /\ n > 0 /\ m \in Nat /\ m > 0 /\ k \in Nat /\ m = 2 * n
  BY DEF IsFigure
<1>2. Rounded(x) = q
  BY DEF Rounded
<1> HIDE DEF m, k
<1>3. q \in Int /\ m * q <= k /\ k < m * q + m
  BY <1>1, DivBounds
<1> HIDE DEF q, n
<1>4. m * q = 2 * (n * q)
  BY <1>1, <1>3
<1> QED BY <1>1, <1>2, <1>3, <1>4 DEF n, k

LEMMA RoundedOrder ==
  ASSUME NEW x, NEW y, IsFigure(x), IsFigure(y), x.over > 0, y.over > 0
  PROVE  /\ Rounded(x) < Rounded(y) => Excess(y, x) > 0
         /\ Rounded(x) <= Rounded(y) => Excess(x, y) <= x.over * y.over
<1> DEFINE n == x.over
           m == y.over
           q == Rounded(x)
           p == Rounded(y)
           s == x.sum
           t == y.sum
<1>1. n \in Nat /\ m \in Nat /\ n > 0 /\ m > 0 /\ s \in Nat /\ t \in Nat
  BY DEF IsFigure
<1>2. /\ q \in Int /\ 2 * s + n < 2 * (n * q) + 2 * n
      /\ p \in Int /\ 2 * (m * p) <= 2 * t + m
  BY RoundedBounds
<1>3. Excess(y, x) = t * n - s * m /\ Excess(x, y) = s * m - t * n
  BY DEF Excess
<1> HIDE DEF n, m, q, p, s, t
<1> DEFINE nq == n * q
           np == n * p
           mp == m * p
           k == n * (m * p)
           sm == s * m
           tn == t * n
           nm == n * m
<1>4. nq \in Int /\ np \in Int /\ mp \in Int /\ k \in Int /\ sm \in Int /\ tn \in Int /\ nm \in Int
  BY <1>1, <1>2
<1>5. m * np = k
  BY <1>1, <1>2
<1>6. 2 * k <= 2 * tn + nm
  <2>1. 2 * mp \in Int /\ 2 * t + m \in Int
    BY <1>1, <1>4
  <2>2. n * (2 * mp) <= n * (2 * t + m)
    BY <1>1, <1>2, <2>1, ProductOrder
  <2>3. n * (2 * mp) = 2 * k /\ n * (2 * t + m) = 2 * tn + nm
    BY <1>1, <1>2
  <2> QED BY <2>2, <2>3
<1>7. ASSUME q < p
      PROVE  sm < tn
  <2>1. nq + n <= np
    <3>1. q + 1 <= p /\ q + 1 \in Int
      BY <1>2, <1>7
    <3>2. n * (q + 1) <= n * p
      BY <1>1, <1>2, <3>1, ProductOrder
    <3>3. n * (q + 1) = nq + n
      BY <1>1, <1>2
    <3> QED BY <3>2, <3>3
  <2>2. 2 * s + n < 2 * np /\ 2 * s + n \in Int /\ 2 * np \in Int
    BY <1>1, <1>2, <1>4, <2>1
  <2>3. m * (2 * s + n) < m * (2 * np)
    BY <1>1, <2>2, ProductStrictOrder
  <2>4. m * (2 * s + n) = 2 * sm + nm /\ m * (2 * np) = 2 * (m * np)
    BY <1>1, <1>4
  <2> HIDE DEF nq, np, mp, k, sm, tn, nm
  <2> QED BY <1>4, <1>5, <1>6, <2>3, <2>4
<1>8. ASSUME q <= p
      PROVE  sm - tn <= nm
  <2>1. nq <= np
    BY <1>1, <1>2, <1>8, ProductOrder
  <2>2. 2 * s + n < 2 * np + 2 * n /\ 2 * s + n \in Int /\ 2 * np + 2 * n \in Int
    BY <1>1, <1>2, <1>4, <2>1
  <2>3. m * (2 * s + n) < m * (2 * np + 2 * n)
    BY <1>1, <2>2, ProductStrictOrder
  <2>4. m * (2 * s + n) = 2 * sm + nm /\ m * (2 * np + 2 * n) = 2 * (m * np) + 2 * nm
    BY <1>1, <1>4
  <2> HIDE DEF nq, np, mp, k, sm, tn, nm
  <2> QED BY <1>4, <1>5, <1>6, <2>3, <2>4
<1> QED BY <1>3, <1>4, <1>7, <1>8 DEF n, m, q, p

LEMMA Distributes ==
  ASSUME NEW s \in Int, NEW p \in Int, NEW q \in Int
  PROVE  s * p + s * q = s * (p + q) /\ s * p - q * p = (s - q) * p
OBVIOUS

LEMMA EqualRatios ==
  ASSUME NEW a \in OutcomeSums, NEW b \in OutcomeSums, a.n > 0, b.n > 0,
         a.ok * b.n = b.ok * a.n
  PROVE  Share(a) = Share(b)
<1>1. a.ok \in Nat /\ b.ok \in Nat /\ a.n \in Nat /\ b.n \in Nat /\ RateScale \in Nat
  BY ExperimentAssumption DEF OutcomeSums, ExperimentAssumption
<1> DEFINE x == Successes(a)
           y == Successes(b)
<1>2. /\ x.sum = a.ok * RateScale /\ x.over = a.n /\ y.sum = b.ok * RateScale /\ y.over = b.n
      /\ IsFigure(x) /\ IsFigure(y)
  BY <1>1 DEF Successes, IsFigure
<1> HIDE DEF x, y
<1>3. Excess(x, y) = 0 /\ Excess(y, x) = 0
  <2>1. x.sum * y.over = RateScale * (a.ok * b.n) /\ y.sum * x.over = RateScale * (b.ok * a.n)
    <3>1. \A r, p, k \in Nat : (p * r) * k = r * (p * k)
      OBVIOUS
    <3>2. (a.ok * RateScale) * b.n = RateScale * (a.ok * b.n) /\ (b.ok * RateScale) * a.n = RateScale * (b.ok * a.n)
      BY <1>1, <3>1
    <3> QED BY <1>2, <3>2
  <2>2. x.sum * y.over = y.sum * x.over /\ x.sum * y.over \in Int
    BY <1>1, <1>2, <2>1
  <2> QED BY <2>2 DEF Excess
<1>4. Rounded(x) \in Int /\ Rounded(y) \in Int
  BY <1>2, RoundedBounds
<1>5. Rounded(x) = Rounded(y)
  BY <1>2, <1>3, <1>4, RoundedOrder
<1> QED BY <1>5 DEF Share, x, y

LEMMA ShareRange ==
  ASSUME NEW a \in OutcomeSums, a.n > 0
  PROVE  Share(a) \in 0..RateScale
<1> DEFINE least == RateScale \div 1000
           share == Rounded(Successes(a))
<1>1. RateScale \in Nat /\ RateScale >= 1000
  BY ExperimentAssumption DEF ExperimentAssumption
<1>2. least \in Int /\ 1000 * least <= RateScale /\ RateScale < 1000 * least + 1000
  BY <1>1, DivBounds
<1>3. IsFigure(Successes(a)) /\ Successes(a).over > 0
  BY <1>1 DEF Successes, IsFigure, OutcomeSums
<1>4. share \in Int
  BY <1>3, RoundedBounds
<1>5. Share(a) = IF share < least THEN least
                 ELSE IF share > RateScale - least THEN RateScale - least ELSE share
  BY DEF Share
<1> HIDE DEF least, share
<1> QED BY <1>1, <1>2, <1>4, <1>5

(* A significant difference is one, of at least five executions each.      *)
LEMMA SignificantDiffers ==
  ASSUME NEW a \in OutcomeSums, NEW b \in OutcomeSums, IsSignificant(a, b)
  PROVE  a.n >= 5 /\ b.n >= 5 /\ a.ok * b.n # b.ok * a.n
<1>1. a.n \in Nat /\ b.n \in Nat /\ a.n >= 5 /\ b.n >= 5
  BY DEF OutcomeSums, IsSignificant
<1>2. ASSUME a.ok * b.n = b.ok * a.n
      PROVE  FALSE
  <2> DEFINE n == a.n + b.n
             s == Share(a)
             sum == Share(a) * a.n + Share(b) * b.n
             variance == sum * (RateScale * n - sum)
  <2>1. Share(b) = s /\ s \in 0..RateScale
    BY <1>1, <1>2, EqualRatios, ShareRange
  <2>2. n \in Nat /\ RateScale \in Nat
    BY <1>1, ExperimentAssumption DEF ExperimentAssumption
  <2>3. sum = s * n /\ RateScale * n - sum = (RateScale - s) * n
    <3> HIDE DEF s
    <3>1. sum = s * a.n + s * b.n
      BY <2>1 DEF s
    <3>2. s * a.n + s * b.n = s * n
      BY <1>1, <2>1, Distributes
    <3> HIDE DEF n
    <3>3. RateScale * n - s * n = (RateScale - s) * n
      BY <2>1, <2>2, Distributes
    <3>4. sum = s * n
      BY <3>1, <3>2 DEF n
    <3> HIDE DEF s, sum
    <3> QED BY <3>3, <3>4
  <2>4. sum \in Nat /\ RateScale * n - sum \in Nat
    <3>1. RateScale - s \in Nat /\ s \in Nat
      <4> HIDE DEF s
      <4> QED BY <2>1, <2>2
    <3> HIDE DEF n, s, sum
    <3> QED BY <2>2, <2>3, <3>1, NaturalProduct
  <2>5. variance \in Nat
    <3> HIDE DEF n, sum
    <3> QED BY <2>4, NaturalProduct
  <2>6. /\ (Share(a) - Share(b)) * (Share(a) - Share(b)) * n * a.n * b.n
              > 4 * variance - (variance \div 25) * 4
    BY DEF IsSignificant
  <2>7. (Share(a) - Share(b)) * (Share(a) - Share(b)) * n * a.n * b.n = 0
    <3> DEFINE d == Share(a) - Share(b)
    <3>1. d = 0
      BY <2>1
    <3> HIDE DEF d, n
    <3>2. d * d = 0
      BY <3>1
    <3>3. 0 * n = 0 /\ 0 * a.n = 0 /\ 0 * b.n = 0
      BY <1>1, <2>2
    <3>4. d * d * n * a.n * b.n = 0
      BY <3>2, <3>3
    <3> QED BY <3>4 DEF d
  <2> HIDE DEF variance, n
  <2>8. 0 > 4 * variance - (variance \div 25) * 4
    BY <2>6, <2>7
  <2>9. variance \div 25 \in Int /\ 25 * (variance \div 25) <= variance
    BY <2>5, DivBounds
  <2> QED BY <2>5, <2>8, <2>9
<1> QED BY <1>1, <1>2

-----------------------------------------------------------------------------
InquirySet ==
  [step : {"idle", "readA", "readB", "send", "answered", "failed"}, concludes : BOOLEAN,
   metric : SuccessMetrics \union {""}, a : OutcomeSums, b : OutcomeSums, winner : {"", "A", "B"}]

ExperimentTyped ==
  /\ experiment \in [split : Int, metric : SuccessMetrics, status : {"none", "running", "concluded"},
                     winner : {"", "inconclusive", "A", "B"}]
  /\ assigned \in [Trials -> SUBSET Variants]
  /\ outcomes \in [Variants -> OutcomeSums]
  /\ inquiries \in [Inquirers -> InquirySet]
  /\ mutations \in Seq({"inconclusive", "A", "B"})

(* Nobody is assigned before there is an experiment, whose split stays.    *)
OneVariant ==
  \A t \in Trials : assigned[t] \subseteq IF experiment.status = "none" THEN {} ELSE {VariantOf(t)}

(* An inquiry read no more than there is, and judged what it read.         *)
ReadsAreOld(q) == q.a.n <= outcomes["A"].n /\ q.b.n <= outcomes["B"].n
Judged(q) ==
  q.winner # "" =>
    /\ q.winner \in Variants /\ q.metric \in SuccessMetrics
    /\ IsSignificant(q.a, q.b)
    /\ q.winner = "A" <=> IsBetter(q.metric, q.a, q.b)
InquiryFits(q) ==
  /\ ReadsAreOld(q) /\ Judged(q)
  /\ q.step \in {"idle", "readA", "readB"} => q.winner = ""
  /\ q.metric # "" => experiment.status # "none"
  /\ q.step \in {"readA", "readB"} => q.metric # ""
  /\ q.step = "send" => q.concludes

(* The winners on the row and on their way to it are answers.              *)
ConclusionsKept ==
  /\ experiment.status = "concluded" =>
       \E i \in Inquirers : Concluded(i) /\ experiment.winner = Answer(i)
  /\ \A k \in 1..Len(mutations) :
       \E i \in Inquirers : Concluded(i) /\ mutations[k] = Answer(i)
  /\ \A i \in Inquirers :
       Concluded(i) /\ inquiries[i].metric # "" =>
         experiment.status = "concluded" \/ mutations # <<>>

ExperimentIInv ==
  ExperimentTyped /\ OneVariant /\ (\A i \in Inquirers : InquiryFits(inquiries[i])) /\ ConclusionsKept

LEMMA ProductSwaps == \A n, m \in Nat : n * m = m * n
OBVIOUS

LEMMA NothingRead == NoOutcomes \in OutcomeSums /\ NoOutcomes.n = 0
BY DEF NoOutcomes, OutcomeSums

LEMMA NotAskedFits ==
  /\ NotAsked \in InquirySet /\ NotAsked.step = "idle" /\ NotAsked.winner = "" /\ NotAsked.metric = ""
  /\ NotAsked.a.n = 0 /\ NotAsked.b.n = 0
<1>1. NotAsked = [step |-> "idle", concludes |-> FALSE, metric |-> "", a |-> NoOutcomes,
                   b |-> NoOutcomes, winner |-> ""]
  BY DEF NotAsked
<1>2. FALSE \in BOOLEAN /\ "" \in SuccessMetrics \union {""}
  OBVIOUS
<1> QED BY <1>1, <1>2, NothingRead DEF InquirySet

LEMMA InitExperiment == ExperimentInit => ExperimentIInv
<1> SUFFICES ASSUME ExperimentInit
             PROVE  ExperimentIInv
  OBVIOUS
<1>1. experiment = [split |-> 5, metric |-> "other", status |-> "none", winner |-> ""]
  BY DEF ExperimentInit, NoExperiment
<1>2. /\ \A t \in Trials : assigned[t] = {}
      /\ assigned \in [Trials -> SUBSET Variants]
  BY DEF ExperimentInit
<1>3. outcomes \in [Variants -> OutcomeSums] /\ outcomes["A"] = NoOutcomes /\ outcomes["B"] = NoOutcomes
  BY NothingRead DEF ExperimentInit, Variants
<1>4. /\ inquiries \in [Inquirers -> InquirySet]
      /\ \A i \in Inquirers : inquiries[i] = NotAsked
  BY NotAskedFits DEF ExperimentInit
<1>5. mutations = <<>>
  BY DEF ExperimentInit
<1>6. ExperimentTyped
  <2>1. "other" \in SuccessMetrics
    BY DEF SuccessMetrics
  <2>2. experiment \in [split : Int, metric : SuccessMetrics, status : {"none", "running", "concluded"},
                        winner : {"", "inconclusive", "A", "B"}]
    <3> DEFINE winners == {"", "inconclusive", "A", "B"}
               statuses == {"none", "running", "concluded"}
    <3>1. "" \in winners /\ "none" \in statuses /\ 5 \in Int
      OBVIOUS
    <3> HIDE DEF winners, statuses
    <3>2. experiment \in [split : Int, metric : SuccessMetrics, status : statuses, winner : winners]
      BY <1>1, <2>1, <3>1
    <3> QED BY <3>2 DEF winners, statuses
  <2>3. mutations \in Seq({"inconclusive", "A", "B"})
    BY <1>5
  <2> QED BY <1>2, <1>3, <1>4, <2>2, <2>3 DEF ExperimentTyped
<1>7. OneVariant
  BY <1>2 DEF OneVariant
<1>8. InquiryFits(NotAsked)
  <2>1. ReadsAreOld(NotAsked)
    <3>1. outcomes["A"].n = 0 /\ outcomes["B"].n = 0
      BY <1>3, NothingRead
    <3>2. NotAsked.a.n = 0 /\ NotAsked.b.n = 0
      BY NotAskedFits
    <3> QED BY <3>1, <3>2 DEF ReadsAreOld
  <2> QED BY <2>1, NotAskedFits DEF InquiryFits, Judged
<1>9. ConclusionsKept
  <2>1. \A i \in Inquirers : ~Concluded(i)
    BY <1>4, NotAskedFits DEF Concluded
  <2>2. 1..Len(mutations) = {}
    BY <1>5
  <2> QED BY <1>1, <2>1, <2>2 DEF ConclusionsKept
<1> QED BY <1>4, <1>6, <1>7, <1>8, <1>9 DEF ExperimentIInv

LEMMA CreateKeeps ==
  ASSUME ExperimentIInv, CreateExperiment
  PROVE  ExperimentIInv'
<1>1. PICK split \in TrafficSplits, metric \in SuccessMetrics :
        experiment' = [split |-> split, metric |-> metric, status |-> "running", winner |-> ""]
  BY DEF CreateExperiment
<1>2. /\ experiment.status = "none"
      /\ UNCHANGED <<assigned, outcomes, inserted, inquiries, mutations>>
  BY DEF CreateExperiment
<1>3. split \in Int
  BY ExperimentAssumption DEF ExperimentAssumption
<1>4. ExperimentTyped'
  BY <1>1, <1>2, <1>3 DEF ExperimentTyped, ExperimentIInv
<1>5. OneVariant'
  BY <1>2 DEF OneVariant, ExperimentIInv
<1>6. experiment'.status = "running"
  BY <1>1
<1>7. (\A i \in Inquirers : InquiryFits(inquiries[i]))'
  BY <1>2, <1>6 DEF InquiryFits, ReadsAreOld, ExperimentIInv
<1>8. ConclusionsKept'
  BY <1>2, <1>6 DEF ConclusionsKept, Concluded, Answer, ExperimentIInv
<1> QED BY <1>4, <1>5, <1>7, <1>8 DEF ExperimentIInv

LEMMA AssignKeeps ==
  ASSUME ExperimentIInv, NEW t \in Trials, Assign(t)
  PROVE  ExperimentIInv'
<1>1. /\ experiment.status # "none"
      /\ assigned' = [assigned EXCEPT ![t] = @ \cup {VariantOf(t)}]
      /\ UNCHANGED <<experiment, outcomes, inserted, inquiries, mutations>>
  BY DEF Assign
<1>2. VariantOf(t) \in Variants
  BY DEF VariantOf, Variants
<1>3. ExperimentTyped'
  BY <1>1, <1>2 DEF ExperimentTyped, ExperimentIInv
<1>4. OneVariant'
  <2> SUFFICES ASSUME NEW u \in Trials
               PROVE  assigned'[u] \subseteq {VariantOf(u)'}
    BY <1>1 DEF OneVariant
  <2>1. VariantOf(u)' = VariantOf(u)
    BY <1>1 DEF VariantOf
  <2>2. assigned[u] \subseteq {VariantOf(u)}
    BY <1>1 DEF OneVariant, ExperimentIInv
  <2> QED BY <1>1, <2>1, <2>2 DEF ExperimentTyped, ExperimentIInv
<1>5. (\A i \in Inquirers : InquiryFits(inquiries[i]))'
  BY <1>1 DEF InquiryFits, ReadsAreOld, ExperimentIInv
<1>6. ConclusionsKept'
  BY <1>1 DEF ConclusionsKept, Concluded, Answer, ExperimentIInv
<1> QED BY <1>3, <1>4, <1>5, <1>6 DEF ExperimentIInv

LEMMA AddedSums ==
  ASSUME NEW s \in OutcomeSums, NEW o \in OutcomeSums
  PROVE  Add(s, o) \in OutcomeSums /\ Add(s, o).n = s.n + o.n
<1>1. /\ s.n \in Nat /\ s.ok \in Nat /\ o.n \in Nat /\ o.ok \in Nat
      /\ \A m \in Figured : /\ s.figures[m].sum \in Nat /\ s.figures[m].over \in Nat
                            /\ o.figures[m].sum \in Nat /\ o.figures[m].over \in Nat
  BY DEF OutcomeSums
<1> DEFINE f == [m \in Figured |-> [sum |-> s.figures[m].sum + o.figures[m].sum,
                                    over |-> s.figures[m].over + o.figures[m].over]]
<1>2. f \in [Figured -> [sum : Nat, over : Nat]]
  BY <1>1
<1>3. Add(s, o) = [n |-> s.n + o.n, ok |-> s.ok + o.ok, figures |-> f]
  BY DEF Add
<1> HIDE DEF f
<1> QED BY <1>1, <1>2, <1>3 DEF OutcomeSums

LEMMA RecordKeeps ==
  ASSUME ExperimentIInv, NEW t \in Trials, RecordOutcome(t)
  PROVE  ExperimentIInv'
<1>0. ExperimentTyped /\ OneVariant /\ (\A i \in Inquirers : InquiryFits(inquiries[i])) /\ ConclusionsKept
  BY DEF ExperimentIInv
<1>1. PICK v \in assigned[t], o \in TrialOutcomes : outcomes' = [outcomes EXCEPT ![v] = Add(@, o)]
  BY DEF RecordOutcome
<1>2. UNCHANGED <<experiment, assigned, inquiries, mutations>>
  BY DEF RecordOutcome
<1>3. v \in Variants /\ o \in OutcomeSums
  BY <1>0, ExperimentAssumption DEF ExperimentAssumption, ExperimentTyped
<1>4. outcomes[v] \in OutcomeSums
  BY <1>0, <1>3 DEF ExperimentTyped
<1>5. /\ Add(outcomes[v], o) \in OutcomeSums
      /\ Add(outcomes[v], o).n = outcomes[v].n + o.n
  BY <1>3, <1>4, AddedSums
<1>6. outcomes' \in [Variants -> OutcomeSums]
  BY <1>0, <1>1, <1>3, <1>5 DEF ExperimentTyped
<1>7. \A w \in Variants : outcomes[w].n <= outcomes'[w].n
  <2> SUFFICES ASSUME NEW w \in Variants
               PROVE  outcomes[w].n <= outcomes'[w].n
    OBVIOUS
  <2>1. outcomes[w].n \in Nat /\ o.n \in Nat
    BY <1>0, <1>3 DEF ExperimentTyped, OutcomeSums
  <2>2. CASE w = v
    <3>1. outcomes'[w].n = outcomes[w].n + o.n
      BY <1>0, <1>1, <1>3, <1>5, <2>2 DEF ExperimentTyped
    <3> QED BY <2>1, <3>1
  <2>3. CASE w # v
    <3>1. outcomes'[w] = outcomes[w]
      BY <1>0, <1>1, <2>3 DEF ExperimentTyped
    <3> QED BY <2>1, <3>1
  <2> QED BY <2>2, <2>3
<1>8. \A w \in Variants : outcomes[w].n \in Nat /\ outcomes'[w].n \in Nat
  BY <1>0, <1>6 DEF ExperimentTyped, OutcomeSums
<1>9. ExperimentTyped'
  BY <1>0, <1>2, <1>6 DEF ExperimentTyped
<1>10. OneVariant'
  BY <1>0, <1>2 DEF OneVariant, VariantOf
<1>11. ASSUME NEW i \in Inquirers
       PROVE  ReadsAreOld(inquiries[i])'
  <2>1. inquiries[i].a.n \in Nat /\ inquiries[i].b.n \in Nat /\ "A" \in Variants /\ "B" \in Variants
    BY <1>0 DEF ExperimentTyped, InquirySet, OutcomeSums, Variants
  <2>2. inquiries[i].a.n <= outcomes["A"].n /\ inquiries[i].b.n <= outcomes["B"].n
    BY <1>0 DEF InquiryFits, ReadsAreOld
  <2>3. inquiries[i].a.n <= outcomes'["A"].n /\ inquiries[i].b.n <= outcomes'["B"].n
    BY <1>7, <1>8, <2>1, <2>2
  <2> QED BY <1>2, <2>3 DEF ReadsAreOld
<1>12. (\A i \in Inquirers : InquiryFits(inquiries[i]))'
  BY <1>0, <1>2, <1>11 DEF InquiryFits
<1>13. ConclusionsKept'
  BY <1>0, <1>2 DEF ConclusionsKept, Concluded, Answer
<1> QED BY <1>9, <1>10, <1>12, <1>13 DEF ExperimentIInv

(* An inquiry goes on without concluding, the others stay where they are.  *)
LEMMA InquiryStep ==
  ASSUME ExperimentIInv, NEW i \in Inquirers, NEW q \in InquirySet,
         inquiries' = [inquiries EXCEPT ![i] = q],
         UNCHANGED <<experiment, assigned, outcomes, mutations>>,
         inquiries[i].step # "answered", ~(q.concludes /\ q.step = "answered"), InquiryFits(q)
  PROVE  ExperimentIInv'
<1>0. ExperimentTyped /\ OneVariant /\ (\A k \in Inquirers : InquiryFits(inquiries[k])) /\ ConclusionsKept
  BY DEF ExperimentIInv
<1>1. /\ inquiries'[i] = q /\ \A k \in Inquirers : k # i => inquiries'[k] = inquiries[k]
      /\ inquiries' \in [Inquirers -> InquirySet]
  BY <1>0 DEF ExperimentTyped
<1>2. ExperimentTyped'
  BY <1>0, <1>1 DEF ExperimentTyped
<1>3. OneVariant'
  BY <1>0 DEF OneVariant, VariantOf
<1>4. \A k \in Inquirers : InquiryFits(inquiries'[k])
  BY <1>0, <1>1
<1>5. (\A k \in Inquirers : InquiryFits(inquiries[k]))'
  BY <1>4 DEF InquiryFits, ReadsAreOld
<1>6. \A k \in Inquirers : /\ Concluded(k)' <=> Concluded(k)
                           /\ Concluded(k) => Answer(k)' = Answer(k) /\ inquiries'[k] = inquiries[k]
  BY <1>1 DEF Concluded, Answer
<1>7. ConclusionsKept'
  <2>1. /\ experiment.status = "concluded" =>
             \E k \in Inquirers : Concluded(k) /\ experiment.winner = Answer(k)
        /\ \A n \in 1..Len(mutations) :
             \E k \in Inquirers : Concluded(k) /\ mutations[n] = Answer(k)
        /\ \A k \in Inquirers : Concluded(k) /\ inquiries[k].metric # "" =>
             experiment.status = "concluded" \/ mutations # <<>>
    BY <1>0 DEF ConclusionsKept
  <2>2. experiment'.status = "concluded" =>
             \E k \in Inquirers : Concluded(k)' /\ experiment'.winner = Answer(k)'
    BY <2>1, <1>6
  <2>3. \A n \in 1..Len(mutations') :
             \E k \in Inquirers : Concluded(k)' /\ mutations'[n] = Answer(k)'
    BY <2>1, <1>6
  <2>4. \A k \in Inquirers : Concluded(k)' /\ inquiries'[k].metric # "" =>
             experiment'.status = "concluded" \/ mutations' # <<>>
    BY <2>1, <1>6
  <2> QED BY <2>2, <2>3, <2>4 DEF ConclusionsKept
<1> QED BY <1>2, <1>3, <1>5, <1>7 DEF ExperimentIInv

LEMMA InquireKeeps ==
  ASSUME ExperimentIInv, NEW i \in Inquirers, Inquire(i)
  PROVE  ExperimentIInv'
<1>0. ExperimentTyped
  BY DEF ExperimentIInv
<1>1. PICK concludes \in BOOLEAN :
        inquiries' = [inquiries EXCEPT ![i] =
          IF experiment.status = "none"
          THEN [NotAsked EXCEPT !.concludes = concludes, !.step = AfterVerdict(concludes)]
          ELSE [NotAsked EXCEPT !.concludes = concludes, !.step = "readA", !.metric = experiment.metric]]
  BY DEF Inquire
<1>2. inquiries[i].step = "idle" /\ UNCHANGED <<experiment, assigned, outcomes, mutations>>
  BY DEF Inquire
<1> DEFINE q == IF experiment.status = "none"
          THEN [NotAsked EXCEPT !.concludes = concludes, !.step = AfterVerdict(concludes)]
          ELSE [NotAsked EXCEPT !.concludes = concludes, !.step = "readA", !.metric = experiment.metric]
<1>3. experiment.metric \in SuccessMetrics /\ experiment.metric # ""
  BY <1>0 DEF ExperimentTyped, SuccessMetrics, Figured
<1>4. AfterVerdict(concludes) = IF concludes THEN "send" ELSE "answered"
  BY DEF AfterVerdict
<1>5. q = [step |-> IF experiment.status = "none" THEN AfterVerdict(concludes) ELSE "readA",
           concludes |-> concludes,
           metric |-> IF experiment.status = "none" THEN "" ELSE experiment.metric,
           a |-> NoOutcomes, b |-> NoOutcomes, winner |-> ""]
  BY DEF NotAsked
<1>6. inquiries' = [inquiries EXCEPT ![i] = q]
  BY <1>1
<1> HIDE DEF q
<1>7. q \in InquirySet /\ ~(q.concludes /\ q.step = "answered")
  BY <1>3, <1>4, <1>5, NothingRead DEF InquirySet
<1>8. InquiryFits(q)
  <2>1. ReadsAreOld(q)
    <3>1. \A w \in Variants : outcomes[w].n \in Nat
      BY <1>0 DEF ExperimentTyped, OutcomeSums
    <3>2. q.a.n = 0 /\ q.b.n = 0
      BY <1>5, NothingRead
    <3> QED BY <3>1, <3>2 DEF ReadsAreOld, Variants
  <2>2. q.winner = "" /\ (q.metric # "" <=> experiment.status # "none")
    BY <1>3, <1>5
  <2>3. q.step \in {"readA", "readB"} => experiment.status # "none"
    BY <1>4, <1>5
  <2>4. q.step = "send" => q.concludes
    BY <1>4, <1>5
  <2>5. Judged(q)
    BY <2>2 DEF Judged
  <2> QED BY <2>1, <2>2, <2>3, <2>4, <2>5 DEF InquiryFits
<1> QED BY <1>2, <1>6, <1>7, <1>8, InquiryStep

LEMMA ReadAKeeps ==
  ASSUME ExperimentIInv, NEW i \in Inquirers, ReadA(i)
  PROVE  ExperimentIInv'
<1>0. ExperimentTyped /\ InquiryFits(inquiries[i]) /\ inquiries[i] \in InquirySet
  BY DEF ExperimentIInv, ExperimentTyped
<1>1. /\ inquiries[i].step = "readA"
      /\ inquiries' = [inquiries EXCEPT ![i].step = "readB", ![i].a = outcomes["A"]]
      /\ UNCHANGED <<experiment, assigned, outcomes, mutations>>
  BY DEF ReadA
<1> DEFINE q == [inquiries[i] EXCEPT !.step = "readB", !.a = outcomes["A"]]
<1>2. inquiries' = [inquiries EXCEPT ![i] = q]
  BY <1>0, <1>1 DEF ExperimentTyped
<1>3. outcomes["A"] \in OutcomeSums /\ outcomes["A"].n \in Nat
  BY <1>0 DEF ExperimentTyped, Variants, OutcomeSums
<1>4. /\ q \in InquirySet /\ q.step = "readB" /\ q.a = outcomes["A"]
      /\ q.b = inquiries[i].b /\ q.metric = inquiries[i].metric /\ q.winner = inquiries[i].winner
  BY <1>0, <1>3 DEF InquirySet
<1> HIDE DEF q
<1>5. inquiries[i].winner = "" /\ inquiries[i].metric # "" /\ experiment.status # "none"
  BY <1>0, <1>1 DEF InquiryFits
<1>6. ReadsAreOld(q)
  <2>1. inquiries[i].a.n <= outcomes["A"].n /\ inquiries[i].b.n <= outcomes["B"].n
    BY <1>0 DEF InquiryFits, ReadsAreOld
  <2>2. q.b.n <= outcomes["B"].n
    BY <1>4, <2>1
  <2>3. q.a.n <= outcomes["A"].n
    BY <1>3, <1>4
  <2> QED BY <2>2, <2>3 DEF ReadsAreOld
<1>7. InquiryFits(q)
  BY <1>4, <1>5, <1>6 DEF InquiryFits, Judged
<1> QED BY <1>1, <1>2, <1>4, <1>7, InquiryStep

LEMMA ReadBKeeps ==
  ASSUME ExperimentIInv, NEW i \in Inquirers, ReadBAndJudge(i)
  PROVE  ExperimentIInv'
<1>0. ExperimentTyped /\ InquiryFits(inquiries[i]) /\ inquiries[i] \in InquirySet
  BY DEF ExperimentIInv, ExperimentTyped
<1> DEFINE winner == Verdict(inquiries[i].metric, inquiries[i].a, outcomes["B"])
           step == AfterVerdict(inquiries[i].concludes)
           q == [inquiries[i] EXCEPT !.b = outcomes["B"], !.winner = winner, !.step = step]
<1>1. /\ inquiries[i].step = "readB"
      /\ inquiries' = [inquiries EXCEPT ![i].b = outcomes["B"], ![i].winner = winner, ![i].step = step]
      /\ UNCHANGED <<experiment, assigned, outcomes, mutations>>
  BY DEF ReadBAndJudge
<1>2. inquiries' = [inquiries EXCEPT ![i] = q]
  BY <1>0, <1>1 DEF ExperimentTyped
<1>3. outcomes["B"] \in OutcomeSums /\ outcomes["B"].n \in Nat
  BY <1>0 DEF ExperimentTyped, Variants, OutcomeSums
<1>4. /\ winner \in {"", "A", "B"}
      /\ winner # "" => /\ IsSignificant(inquiries[i].a, outcomes["B"])
                        /\ winner = "A" <=> IsBetter(inquiries[i].metric, inquiries[i].a, outcomes["B"])
  BY DEF Verdict
<1>5. step \in {"send", "answered"} /\ (inquiries[i].concludes <=> step = "send")
  BY <1>0 DEF AfterVerdict, InquirySet
<1>6. inquiries[i].metric # "" /\ inquiries[i].metric \in SuccessMetrics /\ experiment.status # "none"
  BY <1>0, <1>1 DEF InquiryFits, InquirySet
<1> HIDE DEF winner, step
<1>7. /\ q \in InquirySet /\ q.step = step /\ q.a = inquiries[i].a
      /\ q.b = outcomes["B"] /\ q.metric = inquiries[i].metric /\ q.winner = winner
      /\ q.concludes = inquiries[i].concludes
  BY <1>0, <1>3, <1>4, <1>5 DEF InquirySet
<1> HIDE DEF q
<1>8. ReadsAreOld(q)
  <2>1. inquiries[i].a.n <= outcomes["A"].n /\ inquiries[i].b.n <= outcomes["B"].n
    BY <1>0 DEF InquiryFits, ReadsAreOld
  <2>2. q.a.n <= outcomes["A"].n
    BY <1>7, <2>1
  <2>3. q.b.n <= outcomes["B"].n
    BY <1>3, <1>7
  <2> QED BY <2>2, <2>3 DEF ReadsAreOld
<1>9. Judged(q)
  BY <1>4, <1>6, <1>7 DEF Judged, Variants
<1>10. InquiryFits(q)
  BY <1>5, <1>6, <1>7, <1>8, <1>9 DEF InquiryFits
<1> QED BY <1>1, <1>2, <1>5, <1>7, <1>10, InquiryStep

LEMMA FailsKeeps ==
  ASSUME ExperimentIInv, NEW i \in Inquirers, InquiryFails(i)
  PROVE  ExperimentIInv'
<1>0. ExperimentTyped /\ InquiryFits(inquiries[i]) /\ inquiries[i] \in InquirySet
  BY DEF ExperimentIInv, ExperimentTyped
<1> DEFINE q == [inquiries[i] EXCEPT !.step = "failed"]
<1>1. /\ inquiries[i].step \in {"readA", "readB", "send"}
      /\ inquiries' = [inquiries EXCEPT ![i].step = "failed"]
      /\ UNCHANGED <<experiment, assigned, outcomes, mutations>>
  BY DEF InquiryFails
<1>2. inquiries' = [inquiries EXCEPT ![i] = q]
  BY <1>0, <1>1 DEF ExperimentTyped
<1>3. /\ q \in InquirySet /\ q.step = "failed" /\ q.a = inquiries[i].a
      /\ q.b = inquiries[i].b /\ q.metric = inquiries[i].metric /\ q.winner = inquiries[i].winner
  BY <1>0 DEF InquirySet
<1> HIDE DEF q
<1>4. InquiryFits(q)
  BY <1>0, <1>3 DEF InquiryFits, ReadsAreOld, Judged
<1> QED BY <1>1, <1>2, <1>3, <1>4, InquiryStep

(* A conclusion is sent off with its answer.                               *)
LEMMA SendKeeps ==
  ASSUME ExperimentIInv, NEW i \in Inquirers, Send(i)
  PROVE  ExperimentIInv'
<1>0. ExperimentTyped /\ OneVariant /\ (\A k \in Inquirers : InquiryFits(inquiries[k])) /\ ConclusionsKept
  BY DEF ExperimentIInv
<1> DEFINE q == [inquiries[i] EXCEPT !.step = "answered"]
<1>1. /\ inquiries[i].step = "send"
      /\ mutations' = Append(mutations, Answer(i))
      /\ inquiries' = [inquiries EXCEPT ![i].step = "answered"]
      /\ UNCHANGED <<experiment, assigned, outcomes>>
  BY DEF Send
<1>2. inquiries[i] \in InquirySet
  BY <1>0 DEF ExperimentTyped
<1>3. inquiries' = [inquiries EXCEPT ![i] = q]
  BY <1>0, <1>1 DEF ExperimentTyped
<1>4. /\ q \in InquirySet /\ q.step = "answered" /\ q.a = inquiries[i].a /\ q.b = inquiries[i].b
      /\ q.metric = inquiries[i].metric /\ q.winner = inquiries[i].winner
      /\ q.concludes = inquiries[i].concludes
  BY <1>2 DEF InquirySet
<1> HIDE DEF q
<1>5. /\ inquiries'[i] = q /\ \A k \in Inquirers : k # i => inquiries'[k] = inquiries[k]
      /\ inquiries' \in [Inquirers -> InquirySet]
  BY <1>0, <1>3, <1>4 DEF ExperimentTyped
<1>6. Answer(i) \in {"inconclusive", "A", "B"} /\ mutations \in Seq({"inconclusive", "A", "B"})
  BY <1>0, <1>2 DEF Answer, InquirySet, ExperimentTyped
<1>7. /\ mutations' \in Seq({"inconclusive", "A", "B"}) /\ mutations' # <<>>
      /\ Len(mutations) \in Nat /\ Len(mutations') = Len(mutations) + 1
      /\ mutations'[Len(mutations) + 1] = Answer(i)
      /\ \A n \in 1..Len(mutations) : mutations'[n] = mutations[n]
  BY <1>1, <1>6
<1>8. ExperimentTyped'
  BY <1>0, <1>1, <1>5, <1>7 DEF ExperimentTyped
<1>9. OneVariant'
  BY <1>0, <1>1 DEF OneVariant, VariantOf
<1>10. InquiryFits(q)
  BY <1>0, <1>4 DEF InquiryFits, ReadsAreOld, Judged
<1>11. \A k \in Inquirers : InquiryFits(inquiries'[k])
  BY <1>0, <1>5, <1>10
<1>12. (\A k \in Inquirers : InquiryFits(inquiries[k]))'
  BY <1>1, <1>11 DEF InquiryFits, ReadsAreOld
<1>13. \A k \in Inquirers : /\ Concluded(k) => Concluded(k)'
                            /\ Answer(k)' = Answer(k)
  BY <1>1, <1>4, <1>5 DEF Concluded, Answer
<1>14. Concluded(i)'
  <2>1. inquiries[i].concludes
    BY <1>0, <1>1 DEF InquiryFits
  <2> QED BY <2>1, <1>4, <1>5 DEF Concluded
<1>15. ConclusionsKept'
  <2>1. /\ experiment.status = "concluded" =>
             \E k \in Inquirers : Concluded(k) /\ experiment.winner = Answer(k)
        /\ \A n \in 1..Len(mutations) :
             \E k \in Inquirers : Concluded(k) /\ mutations[n] = Answer(k)
    BY <1>0 DEF ConclusionsKept
  <2>2. experiment'.status = "concluded" =>
             \E k \in Inquirers : Concluded(k)' /\ experiment'.winner = Answer(k)'
    BY <2>1, <1>1, <1>13
  <2>3. \A n \in 1..Len(mutations') :
             \E k \in Inquirers : Concluded(k)' /\ mutations'[n] = Answer(k)'
    <3>1. \A n \in 1..Len(mutations') : n \in 1..Len(mutations) \/ n = Len(mutations) + 1
      BY <1>7
    <3> QED BY <3>1, <2>1, <1>7, <1>13, <1>14
  <2> QED BY <2>2, <2>3, <1>7 DEF ConclusionsKept
<1> QED BY <1>8, <1>9, <1>12, <1>15 DEF ExperimentIInv

LEMMA MutationKeeps ==
  ASSUME ExperimentIInv, MutationRuns
  PROVE  ExperimentIInv'
<1>0. ExperimentTyped /\ OneVariant /\ (\A i \in Inquirers : InquiryFits(inquiries[i])) /\ ConclusionsKept
  BY DEF ExperimentIInv
<1>1. /\ mutations # <<>> /\ mutations' = Tail(mutations)
      /\ experiment' = IF experiment.status = "none" THEN experiment
                       ELSE [experiment EXCEPT !.status = "concluded", !.winner = Head(mutations)]
      /\ UNCHANGED <<assigned, outcomes, inquiries>>
  BY DEF MutationRuns
<1>2. mutations \in Seq({"inconclusive", "A", "B"})
  BY <1>0 DEF ExperimentTyped
<1>3. /\ Head(mutations) \in {"inconclusive", "A", "B"} /\ Head(mutations) = mutations[1]
      /\ mutations' \in Seq({"inconclusive", "A", "B"})
      /\ Len(mutations) \in Nat /\ Len(mutations) >= 1 /\ Len(mutations') = Len(mutations) - 1
      /\ \A n \in 1..Len(mutations') : mutations'[n] = mutations[n + 1]
  BY <1>1, <1>2
<1>4. ExperimentTyped'
  BY <1>0, <1>1, <1>3 DEF ExperimentTyped
<1>5. /\ experiment'.split = experiment.split
      /\ experiment'.status = "none" <=> experiment.status = "none"
      /\ experiment.status # "none" => experiment'.status = "concluded" /\ experiment'.winner = mutations[1]
      /\ experiment.status = "none" => experiment'.status = "none"
  BY <1>0, <1>1, <1>3 DEF ExperimentTyped
<1>6. OneVariant'
  <2>1. \A t \in Trials : VariantOf(t)' = VariantOf(t)
    BY <1>5 DEF VariantOf
  <2> QED BY <1>0, <1>1, <1>5, <2>1 DEF OneVariant
<1>7. (\A i \in Inquirers : InquiryFits(inquiries[i]))'
  BY <1>0, <1>1, <1>5 DEF InquiryFits, ReadsAreOld
<1>8. \A k \in Inquirers : (Concluded(k)' <=> Concluded(k)) /\ Answer(k)' = Answer(k)
  BY <1>1 DEF Concluded, Answer
<1>9. /\ \A n \in 1..Len(mutations) : \E k \in Inquirers : Concluded(k) /\ mutations[n] = Answer(k)
      /\ \A i \in Inquirers : inquiries[i].metric # "" => experiment.status # "none"
  BY <1>0 DEF ConclusionsKept, InquiryFits
<1>10. experiment'.status = "concluded" =>
             \E k \in Inquirers : Concluded(k)' /\ experiment'.winner = Answer(k)'
  <2>1. 1 \in 1..Len(mutations)
    BY <1>3
  <2> QED BY <2>1, <1>5, <1>8, <1>9
<1>11. \A n \in 1..Len(mutations') : \E k \in Inquirers : Concluded(k)' /\ mutations'[n] = Answer(k)'
  <2>1. \A n \in 1..Len(mutations') : n + 1 \in 1..Len(mutations)
    BY <1>3
  <2> QED BY <2>1, <1>3, <1>8, <1>9
<1>12. \A k \in Inquirers : Concluded(k)' /\ inquiries'[k].metric # "" =>
             experiment'.status = "concluded" \/ mutations' # <<>>
  BY <1>1, <1>5, <1>9
<1>13. ConclusionsKept'
  BY <1>10, <1>11, <1>12 DEF ConclusionsKept
<1> QED BY <1>4, <1>6, <1>7, <1>13 DEF ExperimentIInv

LEMMA StepExperiment == ExperimentIInv /\ [ExperimentNext]_experimentVars => ExperimentIInv'
<1> SUFFICES ASSUME ExperimentIInv, [ExperimentNext]_experimentVars
             PROVE  ExperimentIInv'
  OBVIOUS
<1>1. CASE UNCHANGED experimentVars
  <2>1. UNCHANGED <<experiment, assigned, outcomes, inquiries, mutations>>
    BY <1>1 DEF experimentVars
  <2>2. \A t \in Trials : VariantOf(t)' = VariantOf(t)
    BY <2>1 DEF VariantOf
  <2>3. ExperimentTyped' /\ OneVariant'
    BY <2>1, <2>2 DEF ExperimentIInv, ExperimentTyped, OneVariant
  <2>4. (\A i \in Inquirers : InquiryFits(inquiries[i]))'
    BY <2>1 DEF ExperimentIInv, InquiryFits, ReadsAreOld
  <2>5. ConclusionsKept'
    BY <2>1 DEF ExperimentIInv, ConclusionsKept, Concluded, Answer
  <2> QED BY <2>3, <2>4, <2>5 DEF ExperimentIInv
<1> QED BY <1>1, CreateKeeps, AssignKeeps, RecordKeeps, InquireKeeps, ReadAKeeps, ReadBKeeps, FailsKeeps,
           SendKeeps, MutationKeeps DEF ExperimentNext

(* Who wins leads, by the unrounded averages: B at least but for a unit.   *)
LEMMA WinnersLead ==
  ASSUME NEW q \in InquirySet, Judged(q), q.winner # ""
  PROVE  WinnerLeads(q)
<1> DEFINE x == FigureOf(q.metric, q.a)
           y == FigureOf(q.metric, q.b)
           lead == IF q.metric \in LowerIsBetter THEN Excess(y, x) ELSE Excess(x, y)
<1>1. q.a \in OutcomeSums /\ q.b \in OutcomeSums /\ q.winner \in {"A", "B"}
      /\ (q.winner = "A" <=> IsBetter(q.metric, q.a, q.b))
  BY DEF InquirySet, Judged, Variants
<1>2. IsFigure(x) /\ IsFigure(y)
  <2>1. \A o \in OutcomeSums : IsFigure(Successes(o))
    BY NaturalProduct, ExperimentAssumption DEF ExperimentAssumption, Successes, IsFigure, OutcomeSums
  <2>2. \A o \in OutcomeSums : \A m \in Figured : IsFigure(o.figures[m])
    BY DEF OutcomeSums, IsFigure
  <2> QED BY <1>1, <2>1, <2>2 DEF FigureOf
<1>3. IsBetter(q.metric, q.a, q.b) <=>
        /\ x.over > 0 /\ y.over > 0
        /\ IF q.metric \in LowerIsBetter THEN Rounded(x) < Rounded(y) ELSE Rounded(y) < Rounded(x)
  BY DEF IsBetter
<1>4. WinnerLeads(q) <=> /\ q.winner = "A" => lead > 0
                         /\ q.winner = "B" => \/ x.over = 0 \/ y.over = 0
                                              \/ lead <= x.over * y.over
  BY DEF WinnerLeads
<1>5. x.over \in Nat /\ y.over \in Nat /\ x.over * y.over = y.over * x.over
  <2>1. x.over \in Nat /\ y.over \in Nat
    BY <1>2 DEF IsFigure
  <2> HIDE DEF x, y
  <2> QED BY <2>1, ProductSwaps
<1> HIDE DEF x, y
<1>6. CASE q.winner = "A"
  BY <1>1, <1>2, <1>3, <1>4, <1>6, RoundedOrder
<1>7. CASE q.winner = "B" /\ x.over > 0 /\ y.over > 0
  <2>1. Rounded(x) \in Int /\ Rounded(y) \in Int
    BY <1>2, <1>7, RoundedBounds
  <2>2. CASE q.metric \in LowerIsBetter
    <3>1. Rounded(y) <= Rounded(x)
      BY <1>1, <1>3, <1>7, <2>1, <2>2
    <3>2. Excess(y, x) <= y.over * x.over
      BY <1>2, <1>7, <3>1, RoundedOrder
    <3> QED BY <1>4, <1>5, <1>7, <2>2, <3>2
  <2>3. CASE q.metric \notin LowerIsBetter
    <3>1. Rounded(x) <= Rounded(y)
      BY <1>1, <1>3, <1>7, <2>1, <2>3
    <3>2. Excess(x, y) <= x.over * y.over
      BY <1>2, <1>7, <3>1, RoundedOrder
    <3> QED BY <1>4, <1>7, <2>3, <3>2
  <2> QED BY <2>2, <2>3
<1>8. CASE q.winner = "B" /\ ~(x.over > 0 /\ y.over > 0)
  BY <1>4, <1>5, <1>8
<1> QED BY <1>1, <1>6, <1>7, <1>8

(* For any executions, hashes, splits, outcomes and overlapping inquiries: *)
(* one variant for each execution, no winner without a difference or       *)
(* against the metric, and no conclusion lost or made up.                  *)
THEOREM ExperimentsStayFair == ExperimentSpec => []ExperimentsAreFair
<1>1. ExperimentIInv => ExperimentsAreFair
  <2> SUFFICES ASSUME ExperimentIInv
               PROVE  ExperimentsAreFair
    OBVIOUS
  <2>0. ExperimentTyped /\ OneVariant /\ (\A i \in Inquirers : InquiryFits(inquiries[i])) /\ ConclusionsKept
    BY DEF ExperimentIInv
  <2>1. \A t \in Trials : Cardinality(assigned[t]) <= 1
    <3> SUFFICES ASSUME NEW t \in Trials
                 PROVE  Cardinality(assigned[t]) <= 1
      OBVIOUS
    <3>1. assigned[t] \in SUBSET {VariantOf(t)}
      BY <2>0 DEF OneVariant
    <3>2. IsFiniteSet({VariantOf(t)}) /\ Cardinality({VariantOf(t)}) = 1
      BY FS_Singleton
    <3>3. Cardinality(assigned[t]) <= Cardinality({VariantOf(t)})
      BY <3>1, <3>2, FS_Subset
    <3> QED BY <3>2, <3>3
  <2>2. ASSUME NEW i \in Inquirers, inquiries[i].winner # ""
        PROVE  WinnerIsFound(inquiries[i])
    <3> DEFINE q == inquiries[i]
    <3>1. q \in InquirySet /\ ReadsAreOld(q) /\ Judged(q) /\ q.winner # ""
      BY <2>0, <2>2 DEF ExperimentTyped, InquiryFits
    <3> HIDE DEF q
    <3>2. q.a \in OutcomeSums /\ q.b \in OutcomeSums /\ IsSignificant(q.a, q.b)
      BY <3>1 DEF InquirySet, Judged
    <3>3. q.a.n >= 5 /\ q.b.n >= 5 /\ q.a.ok * q.b.n # q.b.ok * q.a.n
      BY <3>2, SignificantDiffers
    <3>4. WinnerLeads(q)
      BY <3>1, WinnersLead
    <3>5. WinnerIsFound(q)
      BY <3>1, <3>3, <3>4 DEF WinnerIsFound, ReadsAreOld
    <3> QED BY <3>5 DEF q
  <2>3. \A i \in Inquirers : WinnerIsFound(inquiries[i])
    BY <2>2 DEF WinnerIsFound
  <2> QED BY <2>0, <2>1, <2>3 DEF ExperimentsAreFair, ConclusionsKept
<1> QED BY InitExperiment, StepExperiment, <1>1, PTL DEF ExperimentSpec

-----------------------------------------------------------------------------
(* Objectives.  Everything but the counting is arithmetic of four numbers: *)
(* the events of the window, those that failed, the budget and the target. *)
SloTyped ==
  /\ objective \in Objectives
  /\ sloEvents \in [MyOutcomes -> [Bands -> Nat]]

(* What any query may answer.                                              *)
CountsFit(c) ==
  /\ c.good \in Nat /\ c.bad \in Nat /\ c.all \in Nat
  /\ c.all >= c.good + c.bad
  /\ objective.of = "service" => c.all = c.good + c.bad

SloCounts == [good : 0..MaxEvents, bad : 0..MaxEvents, all : 0..MaxEvents]

(* The answers read so far are counts, of the events as they are if        *)
(* nothing has moved since the first.                                      *)
ReadsFit ==
  /\ reads \in Seq(SloCounts) /\ Len(reads) <= Len(Queries)
  /\ moves \in 0..MaxMoves
  /\ \A i \in 1..Len(reads) : CountsFit(reads[i])
  /\ moves = 0 => \A i \in 1..Len(reads) : reads[i] = Counted(Queries[i])

SloIInv == SloTyped /\ InWindow.all <= MaxEvents /\ ReadsFit

LEMMA SloFacts ==
  ASSUME objective \in Objectives
  PROVE  /\ objective.of \in {"service", "agent"}
         /\ objective.target \in Int /\ objective.target <= 100 /\ objective.target >= 0
         /\ AllowedPercent \in Nat /\ AllowedPercent <= 100
         /\ AllowedPercent = 100 - objective.target
         /\ MyOutcomes = IF objective.of = "service" THEN {"good", "bad"}
                         ELSE {"good", "bad", "other"}
<1>1. objective \in [of : {"service", "agent"}, target : 0..100]
  BY SloAssumption DEF SloAssumption, Objectives
<1>2. objective.of \in {"service", "agent"} /\ objective.target \in 0..100
  BY <1>1
<1> QED BY <1>2 DEF AllowedPercent, MyOutcomes, OutcomesOf

(* The events of a window are counted by their outcome, and are no more    *)
(* than those of the whole window.                                         *)
LEMMA WithinBounds ==
  ASSUME SloTyped, NEW w, NEW o \in MyOutcomes
  PROVE  Within(o, w) \in Nat /\ Within(o, <<1, 4>>) \in Nat /\ Within(o, w) <= Within(o, <<1, 4>>)
<1>1. \A c \in Bands : sloEvents[o][c] \in Nat
  BY DEF SloTyped
<1>2. 1 \in Bands /\ 2 \in Bands /\ 3 \in Bands /\ 4 \in Bands
  BY DEF Bands
<1>3. \A c \in Bands : InBand(o, c, <<1, 4>>) = sloEvents[o][c]
  BY DEF InBand, Bands
<1>4. \A c \in Bands : InBand(o, c, w) = sloEvents[o][c] \/ InBand(o, c, w) = 0
  BY DEF InBand
<1>5. \A c \in Bands : InBand(o, c, w) \in Nat /\ InBand(o, c, w) <= sloEvents[o][c]
  BY <1>1, <1>4
<1>6. Within(o, <<1, 4>>) = sloEvents[o][1] + sloEvents[o][2] + sloEvents[o][3] + sloEvents[o][4]
  BY <1>2, <1>3 DEF Within
<1>7. Within(o, w) = InBand(o, 1, w) + InBand(o, 2, w) + InBand(o, 3, w) + InBand(o, 4, w)
  BY DEF Within
<1> QED BY <1>1, <1>2, <1>5, <1>6, <1>7

LEMMA Counts ==
  ASSUME SloTyped, NEW w
  PROVE  /\ CountsFit(Counted(w))
         /\ Counted(w).good = Within("good", w) /\ Counted(w).bad = Within("bad", w)
         /\ Counted(w).all <= InWindow.all /\ InWindow.all \in Nat
         /\ DOMAIN Counted(w) = {"good", "bad", "all"}
<1>1. "good" \in MyOutcomes /\ "bad" \in MyOutcomes
      /\ ("other" \in MyOutcomes <=> objective.of # "service")
  BY SloFacts DEF SloTyped
<1> DEFINE more(v) == IF "other" \in MyOutcomes THEN Within("other", v) ELSE 0
<1>2. more(w) \in Nat /\ more(<<1, 4>>) \in Nat /\ more(w) <= more(<<1, 4>>)
  BY WithinBounds
<1>3. objective.of = "service" => more(w) = 0
  BY <1>1
<1>4. /\ Counted(w).good = Within("good", w) /\ Counted(w).bad = Within("bad", w)
      /\ Counted(w).all = Within("good", w) + Within("bad", w) + more(w)
      /\ InWindow.all = Within("good", <<1, 4>>) + Within("bad", <<1, 4>>) + more(<<1, 4>>)
  BY DEF Counted, InWindow
<1>5. /\ Within("good", w) \in Nat /\ Within("bad", w) \in Nat
      /\ Within("good", <<1, 4>>) \in Nat /\ Within("bad", <<1, 4>>) \in Nat
      /\ Within("good", w) <= Within("good", <<1, 4>>) /\ Within("bad", w) <= Within("bad", <<1, 4>>)
  BY <1>1, WithinBounds
<1> HIDE DEF more
<1>6. CountsFit(Counted(w)) /\ Counted(w).all <= InWindow.all /\ InWindow.all \in Nat
  BY <1>2, <1>3, <1>4, <1>5 DEF CountsFit
<1>7. DOMAIN Counted(w) = {"good", "bad", "all"}
  BY DEF Counted
<1> QED BY <1>4, <1>6, <1>7

LEMMA ServiceVerdict ==
  ASSUME objective \in Objectives, NEW c, CountsFit(c), objective.of = "service"
  PROVE  /\ IsBreaching(c) => BudgetLeft(c).num = 0
         /\ BudgetLeft(c).num \in Nat /\ BudgetLeft(c).den \in Nat /\ BudgetLeft(c).den > 0
         /\ BudgetLeft(c).num <= BudgetLeft(c).den
<1> DEFINE n == c.all
           good == c.good
           bad == c.bad
           a == AllowedPercent
           t == objective.target
           left == BudgetLeft(c)
<1>1. n \in Nat /\ good \in Nat /\ bad \in Nat /\ n = good + bad
  BY DEF CountsFit
<1>2. a \in Nat /\ t \in Int /\ a = 100 - t
  BY SloFacts
<1>3. left = IF a > 0
                   THEN IF 100 * bad < a * n THEN [num |-> a * n - 100 * bad, den |-> a * n]
                                             ELSE [num |-> 0, den |-> 1]
                   ELSE [num |-> IF bad > 0 THEN 0 ELSE 1, den |-> 1]
  BY DEF BudgetLeft
<1>4. IsBreaching(c) <=> n > 0 /\ 100 * good < t * n
  BY DEF IsBreaching
<1> HIDE DEF n, good, bad, a, t, left
<1>5. a * n \in Nat /\ t * n \in Int /\ a * n = 100 * n - t * n
  BY <1>1, <1>2
<1> DEFINE p == a * n
           q == t * n
<1>6. p \in Nat /\ q \in Int /\ p = 100 * n - q
  BY <1>5
<1>7. /\ left = IF a > 0
                      THEN IF 100 * bad < p THEN [num |-> p - 100 * bad, den |-> p]
                                            ELSE [num |-> 0, den |-> 1]
                      ELSE [num |-> IF bad > 0 THEN 0 ELSE 1, den |-> 1]
      /\ IsBreaching(c) <=> n > 0 /\ 100 * good < q
      /\ a = 0 => p = 0
  BY <1>1, <1>3, <1>4
<1> HIDE DEF p, q
<1>8. IsBreaching(c) => left.num = 0
  <2> SUFFICES ASSUME IsBreaching(c)
               PROVE  left.num = 0
    OBVIOUS
  <2>1. 100 * bad > p
    BY <1>1, <1>6, <1>7
  <2>2. a = 0 => bad > 0
    BY <2>1, <1>1, <1>6, <1>7
  <2> QED BY <2>1, <2>2, <1>1, <1>2, <1>6, <1>7
<1>9. left.num \in Nat /\ left.den \in Nat /\ left.den > 0
      /\ left.num <= left.den
  BY <1>1, <1>2, <1>6, <1>7
<1> QED BY <1>8, <1>9 DEF left

LEMMA BandsOfBurn == \A b \in 1..3 : BandHours[b] \in Nat /\ BandHours[b] > 0
BY DEF BandHours

LEMMA ServicePrediction ==
  ASSUME objective \in Objectives, objective.of = "service",
         NEW c, CountsFit(c), NEW six, CountsFit(six), Prediction(c, six).is = "breach"
  PROVE  /\ BudgetLeft(c).num > 0 /\ six.bad > 0
         /\ Prediction(c, six).num < Prediction(c, six).den
<1> DEFINE left == BudgetLeft(c)
           bad == six.bad
           n == six.all
           a == AllowedPercent
           h == BandHours[2]
           num == BurnRate(six, 2).num
           den == BurnRate(six, 2).den
<1>1. /\ left.num \in Nat /\ left.den \in Nat /\ left.den > 0 /\ left.num <= left.den
  BY ServiceVerdict
<1>2. bad \in Nat /\ n \in Nat /\ a \in Nat /\ h \in Nat /\ WindowHours \in Nat
  BY SloFacts, SloAssumption, BandsOfBurn DEF CountsFit, SloAssumption
<1>3. /\ num = IF a > 0 THEN 100 * bad * WindowHours ELSE bad
      /\ den = IF a > 0 THEN n * a * h ELSE IF bad > 0 THEN 0 ELSE 1
  BY DEF BurnRate
<1>4. /\ left.num # 0
      /\ ~(num = 0 /\ den = 0) \/ ~(left.num > 0)
      /\ ~(left.num > 0 /\ num <= den /\ den > 0)
      /\ Prediction(c, six) = [is |-> "breach", num |-> left.num * den, den |-> left.den * num]
  BY DEF Prediction
<1> HIDE DEF left, bad, n, a, h, num, den
<1>5. num \in Nat /\ den \in Nat
  <2>1. 100 * bad * WindowHours \in Nat /\ n * a * h \in Nat
    BY <1>2
  <2> QED BY <2>1, <1>2, <1>3
<1>6. num > 0 /\ den < num /\ left.num > 0
  BY <1>1, <1>4, <1>5
<1>7. bad > 0
  <2>1. bad = 0 => 100 * bad * WindowHours = 0
    BY <1>2
  <2> QED BY <2>1, <1>2, <1>3, <1>6
<1>8. left.num * den < left.den * num
  <2>1. left.num * den < left.num * num
    BY <1>1, <1>5, <1>6, ProductStrictOrder
  <2>2. num * left.num <= num * left.den
    BY <1>1, <1>5, ProductOrder
  <2>3. /\ num * left.num = left.num * num /\ num * left.den = left.den * num
        /\ left.num * den \in Int /\ left.num * num \in Int /\ left.den * num \in Int
    BY <1>1, <1>5
  <2> QED BY <2>1, <2>2, <2>3
<1> QED BY <1>4, <1>6, <1>7, <1>8 DEF left, bad

LEMMA AgentVerdict ==
  ASSUME objective \in Objectives, NEW c, CountsFit(c)
  PROVE  /\ IsMeeting(c) /\ AgentBudgetLeft(c).num = 0 => 100 * c.bad = AllowedPercent * c.all
         /\ ~IsMeeting(c) /\ c.all = c.good + c.bad /\ c.all > 0 /\ AllowedPercent > 0 =>
              AgentBudgetLeft(c).num = 0
         /\ 100 * c.bad > AllowedPercent * c.all /\ AllowedPercent > 0 => AgentBudgetLeft(c).num = 0
<1> DEFINE n == c.all
           good == c.good
           bad == c.bad
           a == AllowedPercent
           t == objective.target
<1>1. n \in Nat /\ good \in Nat /\ bad \in Nat /\ n >= good + bad
  BY DEF CountsFit
<1>2. a \in Nat /\ t \in Int /\ a = 100 - t /\ t >= 0
  BY SloFacts
<1>3. AgentBudgetLeft(c) = CASE a * n = 0 -> [num |-> 1, den |-> 1]
                          [] a * n > 0 /\ 100 * bad < a * n -> [num |-> a * n - 100 * bad, den |-> a * n]
                          [] OTHER -> [num |-> 0, den |-> 1]
  BY DEF AgentBudgetLeft
<1>4. IsMeeting(c) <=> IF n = 0 THEN t = 0 ELSE 100 * good >= t * n
  BY DEF IsMeeting
<1> HIDE DEF n, good, bad, a, t
<1> DEFINE p == a * n
           q == t * n
<1>5. p \in Nat /\ q \in Int /\ p = 100 * n - q /\ (n > 0 /\ a > 0 => p > 0)
  BY <1>1, <1>2
<1>6. /\ p = 0 => AgentBudgetLeft(c).num = 1
      /\ p > 0 /\ 100 * bad < p => AgentBudgetLeft(c).num = p - 100 * bad
      /\ p > 0 /\ ~(100 * bad < p) => AgentBudgetLeft(c).num = 0
  BY <1>3, <1>5
<1>7. n = 0 => p = 0
  BY <1>2
<1>8. IsMeeting(c) => n = 0 \/ 100 * good >= q
  BY <1>4
<1>9. ~IsMeeting(c) /\ n > 0 => 100 * good < q
  BY <1>1, <1>2, <1>4, <1>5
<1> HIDE DEF p, q
<1>10. IsMeeting(c) /\ AgentBudgetLeft(c).num = 0 => 100 * bad = p
  BY <1>1, <1>5, <1>6, <1>7, <1>8
<1>11. ~IsMeeting(c) /\ n = good + bad /\ n > 0 /\ a > 0 => AgentBudgetLeft(c).num = 0
  BY <1>1, <1>5, <1>6, <1>9
<1>12. 100 * bad > p /\ a > 0 => AgentBudgetLeft(c).num = 0
  <2>1. 100 * bad > p => n > 0
    BY <1>1, <1>5
  <2> QED BY <2>1, <1>1, <1>2, <1>5, <1>6
<1> QED BY <1>10, <1>11, <1>12 DEF n, good, bad, a, p

(* Of two halves the better is no worse than both together.                *)
LEMMA HalfAndWhole ==
  ASSUME NEW g \in Nat, NEW n \in Nat, NEW h \in Nat, NEW m \in Nat
  PROVE  /\ 100 * g * m > 105 * h * n => g * (n + m) >= (g + h) * n
         /\ 100 * g * m < 95 * h * n => g * (n + m) <= (g + h) * n
         /\ n = 0 => g * m = 0 \/ g > 0
<1> DEFINE x == g * m
           y == h * n
           z == g * n
<1>1. x \in Nat /\ y \in Nat /\ z \in Nat
  OBVIOUS
<1>2. g * (n + m) = z + x /\ (g + h) * n = z + y /\ 100 * g * m = 100 * x /\ 105 * h * n = 105 * y
      /\ 95 * h * n = 95 * y
  OBVIOUS
<1>3. n = 0 => g * m = 0 \/ g > 0
  OBVIOUS
<1> HIDE DEF x, y, z
<1> QED BY <1>1, <1>2, <1>3

LEMMA AgentTrend ==
  ASSUME objective \in Objectives, NEW c, CountsFit(c), NEW half, CountsFit(half), NEW before, CountsFit(before),
         c.good = half.good + before.good, c.all = half.all + before.all
  PROVE  /\ Trend(half, before) = "improving" => half.good * c.all >= c.good * half.all
         /\ Trend(half, before) = "degrading" => half.good * c.all <= c.good * half.all
<1> DEFINE g == half.good
           n == half.all
           h == before.good
           m == before.all
           now == IF n = 0 THEN [num |-> 0, den |-> 1] ELSE [num |-> g, den |-> n]
<1>1. g \in Nat /\ n \in Nat /\ h \in Nat /\ m \in Nat /\ n >= g
  BY DEF CountsFit
<1>2. /\ Trend(half, before) = "improving" => 100 * now.num * m > 105 * h * now.den
      /\ Trend(half, before) = "degrading" => 100 * now.num * m < 95 * h * now.den
  BY DEF Trend
<1>3. n = 0 => g = 0 /\ now.num = 0 /\ now.den = 1
  BY <1>1
<1>4. n # 0 => now.num = g /\ now.den = n
  OBVIOUS
<1>5. c.good = g + h /\ c.all = n + m
  OBVIOUS
<1> HIDE DEF g, n, h, m, now
<1>6. CASE n = 0
  BY <1>1, <1>3, <1>5, <1>6 DEF g, n
<1>7. CASE n # 0
  <2>1. Trend(half, before) = "improving" => g * (n + m) >= (g + h) * n
    BY <1>1, <1>2, <1>4, <1>7, HalfAndWhole
  <2>2. Trend(half, before) = "degrading" => g * (n + m) <= (g + h) * n
    BY <1>1, <1>2, <1>4, <1>7, HalfAndWhole
  <2> QED BY <2>1, <2>2, <1>5 DEF g, n
<1> QED BY <1>6, <1>7

(* The two halves make up the window.                                      *)
LEMMA HalvesAddUp ==
  ASSUME SloTyped
  PROVE  /\ InWindow.good = Counted(<<1, 3>>).good + Counted(<<4, 4>>).good
         /\ InWindow.all = Counted(<<1, 3>>).all + Counted(<<4, 4>>).all
<1>1. \A o \in MyOutcomes : Within(o, <<1, 4>>) = Within(o, <<1, 3>>) + Within(o, <<4, 4>>)
  <2> SUFFICES ASSUME NEW o \in MyOutcomes
               PROVE  Within(o, <<1, 4>>) = Within(o, <<1, 3>>) + Within(o, <<4, 4>>)
    OBVIOUS
  <2>1. \A c \in Bands : sloEvents[o][c] \in Nat
    BY DEF SloTyped
  <2>2. 1 \in Bands /\ 2 \in Bands /\ 3 \in Bands /\ 4 \in Bands
    BY DEF Bands
  <2>3. Within(o, <<1, 4>>) = sloEvents[o][1] + sloEvents[o][2] + sloEvents[o][3] + sloEvents[o][4]
    BY DEF Within, InBand
  <2>4. Within(o, <<1, 3>>) = sloEvents[o][1] + sloEvents[o][2] + sloEvents[o][3] + 0
    BY DEF Within, InBand
  <2>5. Within(o, <<4, 4>>) = 0 + 0 + 0 + sloEvents[o][4]
    BY DEF Within, InBand
  <2> QED BY <2>1, <2>2, <2>3, <2>4, <2>5
<1>2. "good" \in MyOutcomes /\ "bad" \in MyOutcomes
  BY SloFacts DEF SloTyped
<1>3. \A o \in MyOutcomes : \A w \in {<<1, 4>>, <<1, 3>>, <<4, 4>>} : Within(o, w) \in Nat
  BY WithinBounds
<1> QED BY <1>1, <1>2, <1>3 DEF InWindow, Counted

LEMMA Verdicts == SloIInv => AnswersAgree
<1> SUFFICES ASSUME SloIInv, Answered
             PROVE  IF objective.of = "service" THEN ServiceAnswerAgrees ELSE AgentAnswerAgrees
  BY DEF AnswersAgree
<1>1. /\ objective \in Objectives /\ SloTyped /\ Len(reads) = Len(Queries)
      /\ \A i \in 1..Len(reads) : CountsFit(reads[i])
      /\ moves = 0 => \A i \in 1..Len(reads) : reads[i] = Counted(Queries[i])
  BY DEF SloIInv, SloTyped, ReadsFit, Answered
<1>2. CASE objective.of = "service"
  <2>1. Len(reads) = 4
    BY <1>1, <1>2 DEF Queries, ServiceQueries
  <2>2. CountsFit(reads[1]) /\ CountsFit(reads[3])
    BY <2>1, <1>1
  <2> QED BY <1>1, <1>2, <2>2, ServiceVerdict, ServicePrediction DEF ServiceAnswerAgrees
<1>3. CASE objective.of # "service"
  <2> SUFFICES ASSUME moves = 0
               PROVE  AgentAnswerAgrees
    BY <1>3 DEF AgentAnswerAgrees
  <2>1. Len(reads) = 6 /\ Queries = AgentQueries
    BY <1>1, <1>3 DEF Queries, AgentQueries
  <2>2. /\ reads[1] = InWindow /\ reads[2] = InWindow
        /\ reads[5] = Counted(<<1, 3>>) /\ reads[6] = Counted(<<4, 4>>)
    BY <2>1, <1>1 DEF AgentQueries, InWindow
  <2>3. CountsFit(reads[1]) /\ CountsFit(reads[4]) /\ CountsFit(reads[5]) /\ CountsFit(reads[6])
    BY <2>1, <1>1
  <2>4. reads[1].good = reads[5].good + reads[6].good /\ reads[1].all = reads[5].all + reads[6].all
    BY <1>1, <2>2, HalvesAddUp
  <2>5. reads[2] = reads[1]
    BY <2>2
  <2> HIDE DEF AnswersAgree
  <2>6. /\ Trend(reads[5], reads[6]) = "improving" =>
             reads[5].good * reads[1].all >= reads[1].good * reads[5].all
        /\ Trend(reads[5], reads[6]) = "degrading" =>
             reads[5].good * reads[1].all <= reads[1].good * reads[5].all
    BY <1>1, <2>3, <2>4, AgentTrend
  <2>7. /\ IsMeeting(reads[1]) /\ AgentBudgetLeft(reads[1]).num = 0 =>
             100 * reads[1].bad = AllowedPercent * reads[1].all
        /\ ~IsMeeting(reads[1]) /\ reads[1].all = reads[1].good + reads[1].bad
             /\ reads[1].all > 0 /\ AllowedPercent > 0 => AgentBudgetLeft(reads[1]).num = 0
        /\ 100 * reads[1].bad > AllowedPercent * reads[1].all /\ AllowedPercent > 0 =>
             AgentBudgetLeft(reads[1]).num = 0
    BY <1>1, <2>3, AgentVerdict
  <2>8. AgentBurnsTooFast(reads[4]) /\ reads[4] = reads[1] =>
             100 * reads[1].bad > AllowedPercent * reads[1].all
    BY DEF AgentBurnsTooFast
  <2> QED BY <2>5, <2>6, <2>7, <2>8 DEF AgentAnswerAgrees
<1> QED BY <1>2, <1>3

(* Who fails takes budget away and who succeeds does not: with n events,   *)
(* of which bad failed, and a percent of them allowed to.                  *)
LEMMA FailureTakesBudget ==
  ASSUME NEW n \in Nat, NEW bad \in Nat, NEW a \in Nat, a <= 100,
         100 * (bad + 1) < a * (n + 1)
  PROVE  /\ 100 * bad < a * n
         /\ (a * n - 100 * bad) * (a * (n + 1)) >= (a * (n + 1) - 100 * (bad + 1)) * (a * n)
<1> DEFINE d == a * n
           x == d - 100 * bad
<1>1. d \in Nat /\ a * (n + 1) = d + a
  OBVIOUS
<1>2. x \in Int /\ a * (n + 1) - 100 * (bad + 1) = x + a - 100 /\ a * n - 100 * bad = x
  BY <1>1
<1>3. x > 100 - a
  BY <1>1, <1>2
<1> HIDE DEF d, x
<1>4. x * (d + a) = x * d + a * x /\ (x + a - 100) * d = x * d - (100 - a) * d
  BY <1>1, <1>2
<1>5. a * x >= 0 /\ (100 - a) * d >= 0 /\ x * d \in Int /\ a * x \in Int /\ (100 - a) * d \in Int
  BY <1>1, <1>2, <1>3
<1>6. x * (d + a) >= (x + a - 100) * d
  BY <1>4, <1>5
<1> QED BY <1>1, <1>2, <1>3, <1>6 DEF d, x

LEMMA SuccessTakesNone ==
  ASSUME NEW n \in Nat, NEW bad \in Nat, NEW a \in Nat,
         100 * bad < a * n
  PROVE  /\ 100 * bad < a * (n + 1)
         /\ (a * (n + 1) - 100 * bad) * (a * n) >= (a * n - 100 * bad) * (a * (n + 1))
<1> DEFINE d == a * n
           x == d - 100 * bad
<1>1. d \in Nat /\ a * (n + 1) = d + a
  OBVIOUS
<1>2. x \in Int /\ x <= d /\ x > 0 /\ a * (n + 1) - 100 * bad = x + a /\ a * n - 100 * bad = x
  BY <1>1
<1>3. 100 * bad < a * (n + 1)
  BY <1>1
<1> HIDE DEF d, x
<1>4. (x + a) * d = x * d + a * d /\ x * (d + a) = x * d + a * x
  BY <1>1, <1>2
<1>5. a * x <= a * d /\ x * d \in Int /\ a * x \in Int /\ a * d \in Int
  BY <1>1, <1>2, ProductOrder
<1>6. (x + a) * d >= x * (d + a)
  BY <1>4, <1>5
<1> QED BY <1>1, <1>2, <1>3, <1>6 DEF d, x

(* MyBudgetLeft as a function of these numbers.                            *)
BudgetOf(of, a, n, bad) ==
  IF of = "service"
  THEN IF a > 0 THEN IF 100 * bad < a * n THEN [num |-> a * n - 100 * bad, den |-> a * n]
                                          ELSE [num |-> 0, den |-> 1]
                ELSE [num |-> IF bad > 0 THEN 0 ELSE 1, den |-> 1]
  ELSE CASE a * n = 0 -> [num |-> 1, den |-> 1]
         [] a * n > 0 /\ 100 * bad < a * n -> [num |-> a * n - 100 * bad, den |-> a * n]
         [] OTHER -> [num |-> 0, den |-> 1]

LEMMA BudgetCases ==
  ASSUME NEW of, NEW n \in Nat, NEW bad \in Nat, NEW a \in Nat, bad <= n
  PROVE  LET b == BudgetOf(of, a, n, bad)
         IN  /\ a > 0 /\ 100 * bad < a * n => b.num = a * n - 100 * bad /\ b.den = a * n
             /\ a > 0 /\ ~(100 * bad < a * n) /\ n > 0 => b.num = 0 /\ b.den = 1
             /\ a > 0 /\ n = 0 => b.den = 1 /\ b.num = IF of = "service" THEN 0 ELSE 1
             /\ a = 0 => b.den = 1 /\ b.num = IF of = "service" /\ bad > 0 THEN 0 ELSE 1
             /\ b.num \in Nat /\ b.den \in Nat /\ b.num <= b.den
<1> DEFINE p == a * n
<1>1. p \in Nat /\ (a = 0 => p = 0) /\ (n = 0 => p = 0) /\ (a > 0 /\ n > 0 => p > 0)
  OBVIOUS
<1>2. BudgetOf(of, a, n, bad) =
        IF of = "service"
        THEN IF a > 0 THEN IF 100 * bad < p THEN [num |-> p - 100 * bad, den |-> p]
                                            ELSE [num |-> 0, den |-> 1]
                      ELSE [num |-> IF bad > 0 THEN 0 ELSE 1, den |-> 1]
        ELSE CASE p = 0 -> [num |-> 1, den |-> 1]
               [] p > 0 /\ 100 * bad < p -> [num |-> p - 100 * bad, den |-> p]
               [] OTHER -> [num |-> 0, den |-> 1]
  BY DEF BudgetOf
<1> HIDE DEF p
<1> DEFINE b == BudgetOf(of, a, n, bad)
<1>3. CASE of = "service"
  <2>1. b = IF a > 0 THEN IF 100 * bad < p THEN [num |-> p - 100 * bad, den |-> p]
                                           ELSE [num |-> 0, den |-> 1]
                     ELSE [num |-> IF bad > 0 THEN 0 ELSE 1, den |-> 1]
    BY <1>2, <1>3
  <2> HIDE DEF b
  <2>2. /\ a > 0 /\ 100 * bad < p => b.num = p - 100 * bad /\ b.den = p
        /\ a > 0 /\ ~(100 * bad < p) => b.num = 0 /\ b.den = 1
        /\ a = 0 => b.den = 1 /\ b.num = IF bad > 0 THEN 0 ELSE 1
    BY <2>1
  <2>3. b.num \in Nat /\ b.den \in Nat /\ b.num <= b.den
    BY <2>2, <1>1
  <2> QED BY <2>2, <2>3, <1>1, <1>3 DEF b, p
<1>4. CASE of # "service"
  <2>1. b = CASE p = 0 -> [num |-> 1, den |-> 1]
              [] p > 0 /\ 100 * bad < p -> [num |-> p - 100 * bad, den |-> p]
              [] OTHER -> [num |-> 0, den |-> 1]
    BY <1>2, <1>4
  <2> HIDE DEF b
  <2>2. /\ p = 0 => b.num = 1 /\ b.den = 1
        /\ p > 0 /\ 100 * bad < p => b.num = p - 100 * bad /\ b.den = p
        /\ p > 0 /\ ~(100 * bad < p) => b.num = 0 /\ b.den = 1
    BY <2>1
  <2>3. b.num \in Nat /\ b.den \in Nat /\ b.num <= b.den
    BY <2>2, <1>1
  <2> QED BY <2>2, <2>3, <1>1, <1>4 DEF b, p
<1> QED BY <1>3, <1>4

LEMMA FailureNeverGives ==
  ASSUME NEW of, NEW n \in Nat, NEW bad \in Nat, NEW a \in Nat, a <= 100, bad <= n
  PROVE  AtLeast(BudgetOf(of, a, n, bad), BudgetOf(of, a, n + 1, bad + 1))
<1> DEFINE p == BudgetOf(of, a, n, bad)
           q == BudgetOf(of, a, n + 1, bad + 1)
<1>1. p.num \in Nat /\ p.den \in Nat /\ q.num \in Nat /\ q.den \in Nat
  BY BudgetCases
<1>2. CASE a > 0 /\ 100 * (bad + 1) < a * (n + 1)
  <2>1. 100 * bad < a * n
    BY <1>2, FailureTakesBudget
  <2>2. p.num = a * n - 100 * bad /\ p.den = a * n
    BY <1>2, <2>1, BudgetCases
  <2>3. q.num = a * (n + 1) - 100 * (bad + 1) /\ q.den = a * (n + 1)
    BY <1>2, BudgetCases
  <2>4. p.num * q.den >= q.num * p.den
    BY <1>2, <2>2, <2>3, FailureTakesBudget
  <2> QED BY <2>4 DEF AtLeast
<1>3. CASE a > 0 /\ ~(100 * (bad + 1) < a * (n + 1))
  <2>1. q.num = 0
    BY <1>3, BudgetCases
  <2> HIDE DEF p, q
  <2>2. p.num * q.den >= 0 /\ q.num * p.den = 0
    BY <2>1, <1>1
  <2> QED BY <2>2 DEF AtLeast, p, q
<1>4. CASE a = 0
  <2>1. p.den = 1 /\ q.den = 1 /\ q.num <= p.num
    <3>1. p.den = 1 /\ p.num = IF of = "service" /\ bad > 0 THEN 0 ELSE 1
      BY <1>4, BudgetCases
    <3>2. q.den = 1 /\ q.num = IF of = "service" /\ bad + 1 > 0 THEN 0 ELSE 1
      BY <1>4, BudgetCases
    <3> HIDE DEF p, q
    <3> QED BY <3>1, <3>2
  <2> HIDE DEF p, q
  <2>2. p.num * q.den >= q.num * p.den
    BY <2>1, <1>1
  <2> QED BY <2>2 DEF AtLeast, p, q
<1> QED BY <1>2, <1>3, <1>4

LEMMA SuccessNeverTakes ==
  ASSUME NEW of, NEW n \in Nat, NEW bad \in Nat, NEW a \in Nat, bad <= n
  PROVE  AtLeast(BudgetOf(of, a, n + 1, bad), BudgetOf(of, a, n, bad))
<1> DEFINE p == BudgetOf(of, a, n + 1, bad)
           q == BudgetOf(of, a, n, bad)
<1>1. /\ p.num \in Nat /\ p.den \in Nat /\ p.num <= p.den
      /\ q.num \in Nat /\ q.den \in Nat /\ q.num <= q.den
  BY BudgetCases
<1>2. CASE a > 0 /\ 100 * bad < a * n
  <2>1. 100 * bad < a * (n + 1)
    BY <1>2, SuccessTakesNone
  <2>2. p.num = a * (n + 1) - 100 * bad /\ p.den = a * (n + 1)
    BY <1>2, <2>1, BudgetCases
  <2>3. q.num = a * n - 100 * bad /\ q.den = a * n
    BY <1>2, BudgetCases
  <2>4. p.num * q.den >= q.num * p.den
    BY <1>2, <2>2, <2>3, SuccessTakesNone
  <2> QED BY <2>4 DEF AtLeast
<1>3. CASE a > 0 /\ ~(100 * bad < a * n) /\ n > 0
  <2>1. q.num = 0
    BY <1>3, BudgetCases
  <2> HIDE DEF p, q
  <2>2. p.num * q.den >= 0 /\ q.num * p.den = 0
    BY <2>1, <1>1
  <2> QED BY <2>2 DEF AtLeast, p, q
<1>4. CASE a > 0 /\ n = 0
  <2>1. bad = 0 /\ 100 * bad < a * (n + 1) /\ a * (n + 1) = a
    BY <1>4
  <2>2. p.num = a * (n + 1) - 100 * bad /\ p.den = a * (n + 1)
    BY <1>4, <2>1, BudgetCases
  <2>3. p.num = p.den
    BY <2>1, <2>2
  <2>4. q.den = 1 /\ q.num <= 1
    BY <1>1, <1>4, BudgetCases
  <2> HIDE DEF p, q
  <2>5. q.num = 0 \/ q.num = 1
    BY <2>4, <1>1
  <2>6. p.num * q.den >= q.num * p.den
    BY <2>3, <2>4, <2>5, <1>1
  <2> QED BY <2>6 DEF AtLeast, p, q
<1>5. CASE a = 0
  <2>1. p.den = 1 /\ p.num = IF of = "service" /\ bad > 0 THEN 0 ELSE 1
    BY <1>5, BudgetCases
  <2>2. q.den = 1 /\ q.num = IF of = "service" /\ bad > 0 THEN 0 ELSE 1
    BY <1>5, BudgetCases
  <2> HIDE DEF p, q
  <2>3. p.num * q.den >= q.num * p.den
    BY <2>1, <2>2, <1>1
  <2> QED BY <2>3 DEF AtLeast, p, q
<1> QED BY <1>2, <1>3, <1>4, <1>5

LEMMA MyBudget ==
  MyBudgetLeft = BudgetOf(objective.of, AllowedPercent, InWindow.all, InWindow.bad)
BY DEF MyBudgetLeft, BudgetLeft, AgentBudgetLeft, BudgetOf

(* What an event and the passing of time do to the counts.                 *)
LEMMA RecordCounts ==
  ASSUME SloTyped, NEW o \in MyOutcomes, Record(o)
  PROVE  /\ SloTyped' /\ UNCHANGED objective
         /\ InWindow'.all = InWindow.all + 1
         /\ InWindow'.bad = IF o = "bad" THEN InWindow.bad + 1 ELSE InWindow.bad
<1>1. /\ UNCHANGED objective /\ MyOutcomes' = MyOutcomes
      /\ sloEvents' = [sloEvents EXCEPT ![o][1] = @ + 1]
  BY DEF Record, Moves, MyOutcomes
<1>2. SloTyped'
  BY <1>1 DEF SloTyped, Bands
<1>3. \A k \in MyOutcomes : \A c \in Bands :
        /\ sloEvents[k][c] \in Nat
        /\ sloEvents'[k][c] = IF k = o /\ c = 1 THEN sloEvents[k][c] + 1 ELSE sloEvents[k][c]
  BY <1>1 DEF SloTyped, Bands
<1>4. 1 \in Bands /\ 2 \in Bands /\ 3 \in Bands /\ 4 \in Bands
  BY DEF Bands
<1>5. \A k \in MyOutcomes : /\ Within(k, <<1, 4>>) \in Nat
        /\ Within(k, <<1, 4>>)' = IF k = o THEN Within(k, <<1, 4>>) + 1 ELSE Within(k, <<1, 4>>)
  BY <1>3, <1>4 DEF Within, InBand
<1>6. "good" \in MyOutcomes /\ "bad" \in MyOutcomes /\ MyOutcomes \subseteq {"good", "bad", "other"}
  BY SloFacts DEF SloTyped
<1> DEFINE more == IF "other" \in MyOutcomes THEN Within("other", <<1, 4>>) ELSE 0
<1>7. /\ InWindow.all = Within("good", <<1, 4>>) + Within("bad", <<1, 4>>) + more
      /\ InWindow.bad = Within("bad", <<1, 4>>)
  BY DEF InWindow, Counted
<1>8. /\ InWindow'.all = Within("good", <<1, 4>>)' + Within("bad", <<1, 4>>)' + more'
      /\ InWindow'.bad = Within("bad", <<1, 4>>)'
  BY DEF InWindow, Counted
<1>9. more \in Nat /\ more' = IF o = "other" THEN more + 1 ELSE more
  BY <1>1, <1>5
<1> HIDE DEF more
<1>10. InWindow'.bad = IF o = "bad" THEN InWindow.bad + 1 ELSE InWindow.bad
  BY <1>5, <1>6, <1>7, <1>8
<1>11. InWindow'.all = InWindow.all + 1
  BY <1>5, <1>6, <1>7, <1>8, <1>9
<1> QED BY <1>1, <1>2, <1>10, <1>11

LEMMA AgesCounts ==
  ASSUME SloTyped, NEW o \in MyOutcomes, NEW b \in Bands, Ages(o, b)
  PROVE  SloTyped' /\ UNCHANGED objective /\ InWindow'.all <= InWindow.all /\ InWindow'.all \in Nat
<1>1. /\ UNCHANGED objective /\ MyOutcomes' = MyOutcomes
      /\ sloEvents[o][b] > 0
      /\ sloEvents' = [sloEvents EXCEPT ![o] = [c \in Bands |-> CASE c = b -> @[c] - 1
                                                              [] c = b + 1 -> @[c] + 1
                                                              [] OTHER -> @[c]]]
  BY DEF Ages, Moves, MyOutcomes
<1>2. \A k \in MyOutcomes : \A c \in Bands : sloEvents[k][c] \in Nat
  BY DEF SloTyped
<1>3. \A k \in MyOutcomes : k # o => sloEvents'[k] = sloEvents[k]
  BY <1>1 DEF SloTyped
<1>4. sloEvents'[o] = [c \in Bands |-> CASE c = b -> sloEvents[o][c] - 1
                                         [] c = b + 1 -> sloEvents[o][c] + 1
                                         [] OTHER -> sloEvents[o][c]]
  BY <1>1 DEF SloTyped
<1>5. \A c \in Bands : /\ c = b => sloEvents'[o][c] = sloEvents[o][c] - 1
                       /\ c = b + 1 => sloEvents'[o][c] = sloEvents[o][c] + 1
                       /\ c # b /\ c # b + 1 => sloEvents'[o][c] = sloEvents[o][c]
  BY <1>4 DEF Bands
<1>6. \A c \in Bands : sloEvents'[o][c] \in Nat
  BY <1>1, <1>2, <1>5 DEF Bands
<1>7. sloEvents' \in [MyOutcomes -> [Bands -> Nat]]
  <2>1. sloEvents'[o] \in [Bands -> Nat]
    BY <1>4, <1>6
  <2>2. sloEvents' = [sloEvents EXCEPT ![o] = sloEvents'[o]]
    BY <1>1, <1>3, <1>4 DEF SloTyped
  <2> QED BY <2>1, <2>2 DEF SloTyped
<1>8. SloTyped'
  BY <1>1, <1>7 DEF SloTyped
<1>9. 1 \in Bands /\ 2 \in Bands /\ 3 \in Bands /\ 4 \in Bands /\ b \in {1, 2, 3, 4}
  BY DEF Bands
<1>10. \A k \in MyOutcomes : /\ Within(k, <<1, 4>>) \in Nat /\ Within(k, <<1, 4>>)' \in Nat
                             /\ Within(k, <<1, 4>>)' <= Within(k, <<1, 4>>)
  <2>1. \A k \in MyOutcomes : k # o =>
          Within(k, <<1, 4>>)' = Within(k, <<1, 4>>) /\ Within(k, <<1, 4>>) \in Nat
    BY <1>2, <1>3, <1>9 DEF Within, InBand
  <2>2. /\ Within(o, <<1, 4>>) \in Nat /\ Within(o, <<1, 4>>)' \in Nat
        /\ Within(o, <<1, 4>>)' <= Within(o, <<1, 4>>)
    BY <1>2, <1>5, <1>6, <1>9 DEF Within, InBand
  <2> QED BY <2>1, <2>2
<1>11. "good" \in MyOutcomes /\ "bad" \in MyOutcomes
  BY SloFacts DEF SloTyped
<1> DEFINE more == IF "other" \in MyOutcomes THEN Within("other", <<1, 4>>) ELSE 0
<1>12. /\ InWindow.all = Within("good", <<1, 4>>) + Within("bad", <<1, 4>>) + more
       /\ InWindow'.all = Within("good", <<1, 4>>)' + Within("bad", <<1, 4>>)' + more'
  BY DEF InWindow, Counted
<1>13. more \in Nat /\ more' \in Nat /\ more' <= more
  BY <1>1, <1>10
<1> HIDE DEF more
<1>14. InWindow'.all <= InWindow.all /\ InWindow'.all \in Nat
  BY <1>10, <1>11, <1>12, <1>13
<1> QED BY <1>1, <1>8, <1>14

(* What a query answers is counted: it fits, and is no more than all       *)
(* events.                                                                 *)
LEMMA CountedFits ==
  ASSUME SloTyped, InWindow.all <= MaxEvents, NEW w
  PROVE  Counted(w) \in SloCounts /\ CountsFit(Counted(w))
<1>1. CountsFit(Counted(w)) /\ Counted(w).all <= InWindow.all /\ InWindow.all \in Nat
  BY Counts
<1>2. MaxEvents \in Nat
  BY SloAssumption DEF SloAssumption
<1>3. /\ Counted(w).good \in 0..MaxEvents /\ Counted(w).bad \in 0..MaxEvents
      /\ Counted(w).all \in 0..MaxEvents
  BY <1>1, <1>2 DEF CountsFit
<1>4. Counted(w) = [good |-> Counted(w).good, bad |-> Counted(w).bad, all |-> Counted(w).all]
  BY DEF Counted
<1> QED BY <1>1, <1>3, <1>4 DEF SloCounts

(* The invariant bounds each band by the bound of all events.              *)
LEMMA BandsBounded ==
  ASSUME SloIInv
  PROVE  SloTypeOK
<1>1. \A k \in MyOutcomes : \A c \in Bands : sloEvents[k][c] \in Nat
  BY DEF SloIInv, SloTyped
<1>2. 1 \in Bands /\ 2 \in Bands /\ 3 \in Bands /\ 4 \in Bands
  BY DEF Bands
<1>3. \A k \in MyOutcomes : \A c \in Bands :
        sloEvents[k][c] <= Within(k, <<1, 4>>) /\ Within(k, <<1, 4>>) \in Nat
  <2> SUFFICES ASSUME NEW k \in MyOutcomes, NEW c \in Bands
               PROVE  sloEvents[k][c] <= Within(k, <<1, 4>>) /\ Within(k, <<1, 4>>) \in Nat
    OBVIOUS
  <2>1. c = 1 \/ c = 2 \/ c = 3 \/ c = 4
    BY DEF Bands
  <2>2. Within(k, <<1, 4>>) = sloEvents[k][1] + sloEvents[k][2] + sloEvents[k][3] + sloEvents[k][4]
    BY DEF Within, InBand
  <2> QED BY <2>1, <2>2, <1>1, <1>2
<1>4. objective \in Objectives /\ InWindow.all <= MaxEvents
  BY DEF SloIInv, SloTyped
<1> DEFINE more == IF "other" \in MyOutcomes THEN Within("other", <<1, 4>>) ELSE 0
<1>5. InWindow.all = Within("good", <<1, 4>>) + Within("bad", <<1, 4>>) + more
  BY DEF InWindow, Counted
<1>6. "good" \in MyOutcomes /\ "bad" \in MyOutcomes /\ MyOutcomes \subseteq {"good", "bad", "other"}
  BY <1>4, SloFacts
<1>7. /\ Within("good", <<1, 4>>) \in Nat /\ Within("bad", <<1, 4>>) \in Nat /\ more \in Nat
      /\ "other" \in MyOutcomes => more = Within("other", <<1, 4>>)
  BY <1>2, <1>3, <1>6
<1> HIDE DEF more
<1>8. \A k \in MyOutcomes : Within(k, <<1, 4>>) <= InWindow.all
  BY <1>5, <1>6, <1>7
<1>9. InWindow.all \in Nat /\ MaxEvents \in Nat
  BY <1>5, <1>7, SloAssumption DEF SloAssumption
<1>10. \A k \in MyOutcomes : \A c \in Bands : sloEvents[k][c] \in 0..MaxEvents
  BY <1>1, <1>3, <1>4, <1>8, <1>9
<1> QED BY <1>10 DEF SloIInv, SloTyped, SloTypeOK, ReadsFit, SloCounts

LEMMA InitSlo == SloInit => SloIInv
<1> SUFFICES ASSUME SloInit
             PROVE  SloIInv
  OBVIOUS
<1>1. objective \in Objectives /\ sloEvents = [o \in MyOutcomes |-> [b \in Bands |-> 0]]
      /\ reads = <<>> /\ moves = 0
  BY DEF SloInit
<1>2. SloTyped
  BY <1>1 DEF SloTyped
<1>3. \A o \in MyOutcomes : \A c \in Bands : sloEvents[o][c] = 0
  BY <1>1
<1>4. \A o \in MyOutcomes : Within(o, <<1, 4>>) = 0
  BY <1>3 DEF Within, InBand, Bands
<1>5. InWindow.all = 0
  BY <1>1, <1>4, SloFacts DEF InWindow, Counted
<1>6. MaxEvents \in Nat /\ MaxMoves \in Nat
  BY SloAssumption DEF SloAssumption
<1>7. Len(Queries) \in Nat
  BY DEF Queries, ServiceQueries, AgentQueries
<1>8. ReadsFit
  BY <1>1, <1>6, <1>7 DEF ReadsFit
<1> QED BY <1>2, <1>5, <1>6, <1>8 DEF SloIInv

(* Traffic leaves what was read alone; once it has moved, the answers need *)
(* not be those of the events as they are.                                 *)
LEMMA MovesKeepReads ==
  ASSUME ReadsFit, Moves, UNCHANGED objective
  PROVE  ReadsFit'
<1>1. /\ reads' = reads /\ Queries' = Queries
      /\ moves' = IF reads = <<>> THEN 0 ELSE moves + 1
      /\ moves < MaxMoves
  BY DEF Moves, Queries
<1>2. /\ reads \in Seq(SloCounts) /\ Len(reads) <= Len(Queries)
      /\ moves \in 0..MaxMoves
      /\ \A i \in 1..Len(reads) : CountsFit(reads[i])
  BY DEF ReadsFit
<1>3. moves' \in 0..MaxMoves /\ (moves' = 0 => reads = <<>>)
  BY <1>1, <1>2, SloAssumption DEF SloAssumption
<1>5. (\A i \in 1..Len(reads) : CountsFit(reads[i]))'
  BY <1>1, <1>2 DEF CountsFit
<1>6. moves' = 0 => 1..Len(reads') = {}
  BY <1>1, <1>3
<1>7. SloCounts' = SloCounts
  BY DEF SloCounts
<1> QED BY <1>1, <1>2, <1>3, <1>5, <1>6, <1>7 DEF ReadsFit

LEMMA AnswerKeepsReads ==
  ASSUME SloIInv, AnswerQuery
  PROVE  ReadsFit'
<1> DEFINE n == Len(reads)
           c == Counted(Queries[n + 1])
<1>1. /\ n < Len(Queries) /\ reads' = Append(reads, c)
      /\ UNCHANGED <<objective, sloEvents, moves>>
  BY DEF AnswerQuery
<1>2. /\ reads \in Seq(SloCounts) /\ n <= Len(Queries)
      /\ moves \in 0..MaxMoves
      /\ \A i \in 1..n : CountsFit(reads[i])
      /\ moves = 0 => \A i \in 1..n : reads[i] = Counted(Queries[i])
      /\ SloTyped /\ InWindow.all <= MaxEvents
  BY DEF ReadsFit, SloIInv
<1>3. c \in SloCounts /\ CountsFit(c)
  BY <1>2, CountedFits
<1>4. Len(Queries) \in Nat /\ n \in Nat
  BY <1>2 DEF Queries, ServiceQueries, AgentQueries
<1>5. c = Counted(Queries[n + 1])
  OBVIOUS
<1>6. Queries' = Queries /\ SloCounts' = SloCounts /\ \A w : Counted(w)' = Counted(w)
  BY <1>1 DEF Queries, SloCounts, Counted, Within, InBand, MyOutcomes
<1> HIDE DEF c
<1>7. /\ reads' \in Seq(SloCounts) /\ Len(reads') = n + 1
      /\ reads'[n + 1] = c /\ \A i \in 1..n : reads'[i] = reads[i]
  BY <1>1, <1>2, <1>3, <1>4
<1> HIDE DEF n
<1>8. \A i \in 1..(n + 1) : i = n + 1 \/ i \in 1..n
  BY <1>4
<1>9. \A i \in 1..Len(reads') : CountsFit(reads'[i])
  BY <1>2, <1>3, <1>7, <1>8
<1>10. (\A i \in 1..Len(reads) : CountsFit(reads[i]))'
  BY <1>1, <1>9 DEF CountsFit
<1>11. moves' = 0 => \A i \in 1..Len(reads') : reads'[i] = Counted(Queries[i])
  BY <1>1, <1>2, <1>5, <1>7, <1>8
<1>12. (moves = 0 => \A i \in 1..Len(reads) : reads[i] = Counted(Queries[i]))'
  BY <1>6, <1>11
<1>13. Len(reads') <= Len(Queries)'
  BY <1>1, <1>4, <1>6, <1>7 DEF n
<1> QED BY <1>1, <1>2, <1>6, <1>7, <1>10, <1>12, <1>13 DEF ReadsFit

LEMMA StepSlo ==
  SloIInv /\ [SloNext]_sloVars => SloIInv'
<1> SUFFICES ASSUME SloIInv, [SloNext]_sloVars
             PROVE  SloIInv'
  OBVIOUS
<1>1. InWindow.all \in Nat /\ MaxEvents \in Nat /\ SloTyped /\ InWindow.all <= MaxEvents /\ ReadsFit
  BY Counts, SloAssumption DEF SloIInv, SloAssumption
<1>2. ASSUME NEW o \in MyOutcomes, Record(o)
      PROVE  SloIInv'
  <2>1. InWindow.all < MaxEvents /\ Moves
    BY <1>2 DEF Record
  <2>2. SloTyped' /\ UNCHANGED objective /\ InWindow'.all = InWindow.all + 1
    BY <1>1, <1>2, RecordCounts
  <2>3. ReadsFit'
    BY <2>1, <2>2, <1>1, MovesKeepReads
  <2> QED BY <2>1, <2>2, <2>3, <1>1 DEF SloIInv
<1>3. ASSUME NEW o \in MyOutcomes, NEW b \in Bands, Ages(o, b)
      PROVE  SloIInv'
  <2>1. SloTyped' /\ UNCHANGED objective /\ InWindow'.all <= InWindow.all /\ InWindow'.all \in Nat
    BY <1>1, <1>3, AgesCounts
  <2>2. ReadsFit'
    BY <2>1, <1>1, <1>3, MovesKeepReads DEF Ages
  <2> QED BY <2>1, <2>2, <1>1 DEF SloIInv
<1>4. CASE AnswerQuery
  <2>1. ReadsFit'
    BY <1>4, AnswerKeepsReads
  <2>2. UNCHANGED <<objective, sloEvents>>
    BY <1>4 DEF AnswerQuery
  <2>3. SloTyped' /\ InWindow' = InWindow
    BY <1>1, <2>2 DEF SloTyped, MyOutcomes, InWindow, Counted, Within, InBand
  <2> QED BY <1>1, <2>1, <2>3 DEF SloIInv
<1>5. CASE Conclude
  <2>1. UNCHANGED <<objective, sloEvents>> /\ reads' = <<>> /\ moves' = 0
    BY <1>5 DEF Conclude
  <2>2. SloTyped' /\ InWindow' = InWindow
    BY <1>1, <2>1 DEF SloTyped, MyOutcomes, InWindow, Counted, Within, InBand
  <2>3. Len(Queries)' \in Nat /\ MaxMoves \in Nat
    BY SloAssumption DEF Queries, ServiceQueries, AgentQueries, SloAssumption
  <2>4. ReadsFit'
    BY <2>1, <2>3 DEF ReadsFit
  <2> QED BY <1>1, <2>2, <2>4 DEF SloIInv
<1>6. CASE UNCHANGED sloVars
  <2>1. UNCHANGED objective /\ UNCHANGED sloEvents /\ UNCHANGED reads /\ UNCHANGED moves
    BY <1>6 DEF sloVars
  <2>2. SloTyped' /\ InWindow' = InWindow
    BY <1>1, <2>1 DEF SloTyped, MyOutcomes, InWindow, Counted, Within, InBand
  <2>3. ReadsFit'
    BY <1>1, <2>1 DEF ReadsFit, CountsFit, Queries, SloCounts, Counted, Within, InBand, MyOutcomes
  <2> QED BY <1>1, <2>2, <2>3 DEF SloIInv
<1> QED BY <1>2, <1>3, <1>4, <1>5, <1>6 DEF SloNext

(* For any targets, windows and traffic, whatever moves between the        *)
(* queries of an evaluation: a failure never gives budget back, a success  *)
(* never takes any, a service's verdict, budget and prediction agree, and  *)
(* an agent's do when nothing moved (apm/slo.py 80-130, agents/slos.py     *)
(* 142-200).                                                               *)
THEOREM BudgetsStayTrue == SloSpec => BudgetsFollowTraffic
<1>1. SloIInv => SloTypeOK /\ AnswersAgree
  BY BandsBounded, Verdicts
<1>2. SloIInv /\ SloTypeOK' /\ AnswersAgree' =>
        [/\ SloTypeOK' /\ AnswersAgree'
         /\ Record("bad") => AtLeast(MyBudgetLeft, MyBudgetLeft')
         /\ Record("good") => AtLeast(MyBudgetLeft', MyBudgetLeft)]_sloVars
  <2> SUFFICES ASSUME SloIInv, SloTypeOK', AnswersAgree'
               PROVE  /\ Record("bad") => AtLeast(MyBudgetLeft, MyBudgetLeft')
                      /\ Record("good") => AtLeast(MyBudgetLeft', MyBudgetLeft)
    OBVIOUS
  <2> DEFINE n == InWindow.all
             bad == InWindow.bad
             a == AllowedPercent
  <2>1. SloTyped
    BY DEF SloIInv
  <2>2. CountsFit(InWindow)
    BY <2>1, Counts DEF InWindow
  <2>3. /\ n \in Nat /\ bad \in Nat /\ bad <= n /\ a \in Nat /\ a <= 100
        /\ "good" \in MyOutcomes /\ "bad" \in MyOutcomes
    BY <2>1, <2>2, SloFacts DEF SloTyped, CountsFit
  <2>4. MyBudgetLeft = BudgetOf(objective.of, a, n, bad)
    BY MyBudget
  <2>5. MyBudgetLeft' = BudgetOf(objective.of', AllowedPercent', InWindow'.all, InWindow'.bad)
    BY DEF MyBudgetLeft, BudgetLeft, AgentBudgetLeft, BudgetOf
  <2>6. ASSUME Record("bad")
        PROVE  AtLeast(MyBudgetLeft, MyBudgetLeft')
    <3>1. /\ UNCHANGED objective /\ InWindow'.all = n + 1 /\ InWindow'.bad = bad + 1
      BY <2>1, <2>3, <2>6, RecordCounts
    <3>2. MyBudgetLeft' = BudgetOf(objective.of, a, n + 1, bad + 1)
      BY <3>1, <2>5 DEF AllowedPercent
    <3> QED BY <2>3, <2>4, <3>2, FailureNeverGives
  <2>7. ASSUME Record("good")
        PROVE  AtLeast(MyBudgetLeft', MyBudgetLeft)
    <3>1. /\ UNCHANGED objective /\ InWindow'.all = n + 1 /\ InWindow'.bad = bad
      BY <2>1, <2>3, <2>7, RecordCounts
    <3>2. MyBudgetLeft' = BudgetOf(objective.of, a, n + 1, bad)
      BY <3>1, <2>5 DEF AllowedPercent
    <3> QED BY <2>3, <2>4, <3>2, SuccessNeverTakes
  <2> QED BY <2>6, <2>7
<1> QED BY InitSlo, StepSlo, <1>1, <1>2, PTL DEF SloSpec, BudgetsFollowTraffic

-----------------------------------------------------------------------------
(* Synthetic checks.  ExtractIncidents as a walk over the rows.            *)
Scans == [start : Nat, incidents : Seq(Nat \X Nat)]
NoneOpen == [start |-> 0, incidents |-> <<>>]
Scan(at, i) ==
  CASE Down(i) /\ at.start = 0 -> [at EXCEPT !.start = i]
    [] ~Down(i) /\ at.start # 0 ->
         [start |-> 0, incidents |-> Append(at.incidents, <<at.start, i>>)]
    [] OTHER -> at
Closing(at) ==
  IF at.start = 0 THEN at.incidents ELSE Append(at.incidents, <<at.start, 0>>)

LEMMA ScanType ==
  ASSUME NEW at \in Scans, NEW i \in Nat
  PROVE  Scan(at, i) \in Scans
<1>1. <<at.start, i>> \in Nat \X Nat
  BY DEF Scans
<1> DEFINE pair == <<at.start, i>>
<1> HIDE DEF pair
<1>2. Append(at.incidents, pair) \in Seq(Nat \X Nat)
  BY <1>1 DEF Scans, pair
<1>3. [at EXCEPT !.start = i] \in Scans
  BY DEF Scans
<1>4. [start |-> 0, incidents |-> Append(at.incidents, pair)] \in Scans
  BY <1>2 DEF Scans
<1>5. \/ Scan(at, i) = [at EXCEPT !.start = i]
      \/ Scan(at, i) = [start |-> 0, incidents |-> Append(at.incidents, pair)]
      \/ Scan(at, i) = at
  BY DEF Scan, pair
<1> QED BY <1>3, <1>4, <1>5

LEMMA IncidentsScan ==
  ASSUME Total \in Nat
  PROVE  \E g \in [0..Total -> Scans] :
           /\ g[0] = NoneOpen
           /\ \A k \in 1..Total : g[k] = Scan(g[k - 1], k)
           /\ ExtractIncidents = Closing(g[Total])
<1> DEFINE seq == [i \in 1..Total |-> i]
           P(iter) == iter = [s \in SUBSET (1..Total) |->
                                IF s = {} THEN NoneOpen
                                ELSE Scan(iter[s \ {Max(s)}], seq[Max(s)])]
           iter == CHOOSE f : P(f)
           step == [k \in 1..Total |-> [at \in Scans |-> Scan(at, k)]]
<1>1. ExtractIncidents = Closing(iter[1..Total])
  <2>1. DOMAIN seq = 1..Total
    OBVIOUS
  <2>2. FoldLeft(Scan, NoneOpen, seq) = iter[1..Total]
    BY <2>1 DEF FoldLeft, MapThenFoldSet
  <2>3. ExtractIncidents = Closing(FoldLeft(Scan, NoneOpen, seq))
    BY Zenon DEF ExtractIncidents, Closing, NoneOpen, Scan
  <2> QED BY <2>2, <2>3
<1>2. NoneOpen \in Scans
  BY DEF NoneOpen, Scans
<1>3. step \in [1..Total -> [Scans -> Scans]]
  BY ScanType
<1>4. \A k \in 1..Total : seq[k] = k /\ \A at \in Scans : step[k][at] = Scan(at, k)
  OBVIOUS
<1> HIDE DEF step, seq
<1>5. PICK some \in [SUBSET (1..Total) -> Scans] : FoldsUp(Total, NoneOpen, step, some)
  BY <1>2, <1>3, FoldExists
<1>6. P(some)
  <2>1. ASSUME NEW s \in SUBSET (1..Total), s # {}
        PROVE  step[Max(s)][some[s \ {Max(s)}]] = Scan(some[s \ {Max(s)}], seq[Max(s)])
    <3>1. Max(s) \in 1..Total
      BY <2>1, LargestOf
    <3> QED BY <1>4, <3>1
  <2> QED BY <1>5, <2>1 DEF FoldsUp
<1>7. P(iter)
  BY <1>6
<1> HIDE DEF iter
<1>9. GoesOn(Total, Scans, NoneOpen, step, iter)
  <2>0. iter[{}] = NoneOpen
    BY <1>7
  <2> SUFFICES ASSUME NEW s \in SUBSET (1..Total), s # {}, iter[s \ {Max(s)}] \in Scans
               PROVE  iter[s] = step[Max(s)][iter[s \ {Max(s)}]]
    BY <2>0 DEF GoesOn
  <2>1. Max(s) \in 1..Total
    BY LargestOf
  <2>2. iter[s] = Scan(iter[s \ {Max(s)}], seq[Max(s)])
    BY <1>7
  <2> QED BY <1>4, <2>1, <2>2
<1>10. PICK g \in [0..Total -> Scans] : /\ IsWalk(Total, NoneOpen, step, g)
                                        /\ g[Total] = iter[1..Total]
  BY <1>2, <1>3, <1>9, FoldWalks
<1>11. ASSUME NEW k \in 1..Total PROVE g[k] = Scan(g[k - 1], k)
  <2>1. g[k - 1] \in Scans
    BY <1>10
  <2> QED BY <1>4, <1>10, <2>1 DEF IsWalk
<1> QED BY <1>1, <1>10, <1>11 DEF IsWalk

-----------------------------------------------------------------------------
(* What has been found after k rows: the runs that ended, in order, and    *)
(* the one that is open.                                                   *)
StartsUpTo(k) == {i \in 1..k : Down(i) /\ (i = 1 \/ ~Down(i - 1))}
IsRun(incident) ==
  /\ incident[1] < incident[2] /\ ~Down(incident[2])
  /\ \A j \in incident[1]..(incident[2] - 1) : Down(j)
FoundUpTo(k, at) ==
  /\ at.start = 0 => k = 0 \/ ~Down(k)
  /\ at.start # 0 => /\ at.start \in StartsUpTo(k) /\ \A j \in at.start..k : Down(j)
                     /\ \A n \in 1..Len(at.incidents) : at.incidents[n][1] < at.start
  /\ \A n \in 1..Len(at.incidents) :
       /\ at.incidents[n][1] \in StartsUpTo(k) /\ at.incidents[n][2] \in 1..k
       /\ IsRun(at.incidents[n])
       /\ \A m \in 1..(n - 1) : at.incidents[m][1] < at.incidents[n][1]
  /\ \A i \in StartsUpTo(k) : \/ i = at.start
                              \/ \E n \in 1..Len(at.incidents) : at.incidents[n][1] = i

LEMMA OneMoreRow ==
  ASSUME NEW k \in Nat, NEW at \in Scans, FoundUpTo(k, at)
  PROVE  FoundUpTo(k + 1, Scan(at, k + 1))
<1> DEFINE inc == at.incidents
           next == Scan(at, k + 1)
<1>0. at.start \in Nat /\ inc \in Seq(Nat \X Nat) /\ Len(inc) \in Nat
  BY DEF Scans
<1>1. \A i \in StartsUpTo(k) : i \in StartsUpTo(k + 1) /\ i \in 1..k
  BY DEF StartsUpTo
<1>2. \A i \in StartsUpTo(k + 1) : i \in StartsUpTo(k) \/ i = k + 1
  BY DEF StartsUpTo
<1>3. \A n \in 1..Len(inc) : inc[n][1] \in Nat /\ inc[n][2] \in Nat
  BY <1>0
<1>4. CASE Down(k + 1) /\ at.start = 0
  <2>1. next.start = k + 1 /\ next.incidents = inc
    BY <1>4 DEF Scan, Scans
  <2>2. k + 1 \in StartsUpTo(k + 1)
    <3>1. k = 0 \/ ~Down(k)
      BY <1>4 DEF FoundUpTo
    <3>2. k + 1 \in 1..(k + 1) /\ (k = 0 => k + 1 = 1) /\ (k + 1) - 1 = k
      OBVIOUS
    <3> QED BY <1>4, <3>1, <3>2 DEF StartsUpTo
  <2>3. \A j \in (k + 1)..(k + 1) : j = k + 1
    OBVIOUS
  <2>4. \A i \in 1..k : i # 0 /\ i < k + 1 /\ i \in 1..(k + 1)
    OBVIOUS
  <2>5. next.start # 0
    BY <2>1
  <2>6. \A n \in 1..Len(inc) : /\ inc[n][1] < k + 1 /\ inc[n][1] \in StartsUpTo(k + 1)
                               /\ inc[n][2] \in 1..(k + 1) /\ IsRun(inc[n])
                               /\ \A m \in 1..(n - 1) : inc[m][1] < inc[n][1]
    BY <1>1, <2>4 DEF FoundUpTo
  <2>7. \A i \in StartsUpTo(k) : \E n \in 1..Len(inc) : inc[n][1] = i
    BY <1>1, <1>4, <2>4 DEF FoundUpTo
  <2> HIDE DEF next, inc
  <2>8. \A i \in StartsUpTo(k + 1) : i = k + 1 \/ \E n \in 1..Len(inc) : inc[n][1] = i
    BY <1>2, <2>7
  <2>9. \A j \in (k + 1)..(k + 1) : Down(j)
    BY <1>4, <2>3
  <2> QED BY <2>1, <2>2, <2>5, <2>6, <2>8, <2>9 DEF FoundUpTo, next
<1>5. CASE ~Down(k + 1) /\ at.start # 0
  <2> DEFINE pair == <<at.start, k + 1>>
  <2>0. pair[1] = at.start /\ pair[2] = k + 1 /\ pair \in Nat \X Nat
    BY <1>0
  <2> HIDE DEF pair
  <2>1. next.start = 0 /\ next.incidents = Append(inc, pair)
    BY <1>5 DEF Scan, pair
  <2> HIDE DEF next, inc
  <2>2. /\ Len(Append(inc, pair)) = Len(inc) + 1
        /\ Append(inc, pair)[Len(inc) + 1] = pair
        /\ \A n \in 1..Len(inc) : Append(inc, pair)[n] = inc[n]
    BY <1>0, <2>0
  <2>3. at.start \in StartsUpTo(k) /\ at.start \in 1..k /\ \A j \in at.start..k : Down(j)
    BY <1>1, <1>5 DEF FoundUpTo
  <2>4. IsRun(pair)
    <3>1. (k + 1) - 1 = k /\ at.start < k + 1
      BY <2>3
    <3> QED BY <1>5, <2>0, <2>3, <3>1 DEF IsRun
  <2>5. k + 1 \notin StartsUpTo(k + 1)
    BY <1>5 DEF StartsUpTo
  <2>6. ASSUME NEW n \in 1..Len(next.incidents)
        PROVE  /\ next.incidents[n][1] \in StartsUpTo(k + 1) /\ next.incidents[n][2] \in 1..(k + 1)
               /\ IsRun(next.incidents[n])
               /\ \A m \in 1..(n - 1) : next.incidents[m][1] < next.incidents[n][1]
    <3>1. CASE n = Len(inc) + 1
      <4>1. next.incidents[n] = pair
        BY <2>1, <2>2, <3>1
      <4>2. \A m \in 1..(n - 1) : m \in 1..Len(inc) /\ next.incidents[m] = inc[m]
        BY <1>0, <2>1, <2>2, <3>1
      <4>3. \A m \in 1..Len(inc) : inc[m][1] < at.start
        BY <1>5 DEF FoundUpTo, inc
      <4>4. k + 1 \in 1..(k + 1)
        OBVIOUS
      <4> QED BY <1>1, <2>0, <2>3, <2>4, <4>1, <4>2, <4>3, <4>4
    <3>2. CASE n # Len(inc) + 1
      <4>1. n \in 1..Len(inc) /\ \A m \in 1..(n - 1) : m \in 1..Len(inc)
        BY <1>0, <2>1, <2>2, <3>2
      <4>2. next.incidents[n] = inc[n] /\ \A m \in 1..(n - 1) : next.incidents[m] = inc[m]
        BY <2>1, <2>2, <4>1
      <4>3. /\ inc[n][1] \in StartsUpTo(k) /\ inc[n][2] \in 1..k /\ IsRun(inc[n])
            /\ \A m \in 1..(n - 1) : inc[m][1] < inc[n][1]
        BY <4>1 DEF FoundUpTo, inc
      <4>4. inc[n][2] \in 1..(k + 1)
        BY <4>3
      <4> QED BY <1>1, <4>2, <4>3, <4>4
    <3> QED BY <3>1, <3>2
  <2>7. ASSUME NEW i \in StartsUpTo(k + 1)
        PROVE  \E n \in 1..Len(next.incidents) : next.incidents[n][1] = i
    <3>1. i \in StartsUpTo(k)
      BY <1>2, <2>5
    <3>2. CASE i = at.start
      <4>1. Len(inc) + 1 \in 1..Len(next.incidents)
        BY <1>0, <2>1, <2>2
      <4> QED BY <2>0, <2>1, <2>2, <3>2, <4>1
    <3>3. CASE i # at.start
      <4>1. PICK n \in 1..Len(inc) : inc[n][1] = i
        BY <3>1, <3>3 DEF FoundUpTo, inc
      <4>2. n \in 1..Len(next.incidents) /\ next.incidents[n] = inc[n]
        BY <1>0, <2>1, <2>2
      <4> QED BY <4>1, <4>2
    <3> QED BY <3>2, <3>3
  <2> QED BY <1>5, <2>1, <2>6, <2>7 DEF FoundUpTo, next
<1>6. CASE Down(k + 1) <=> at.start # 0
  <2>1. next = at
    BY <1>6 DEF Scan
  <2>2. k + 1 \notin StartsUpTo(k + 1)
    <3>1. CASE at.start = 0
      BY <1>6, <3>1 DEF StartsUpTo
    <3>2. CASE at.start # 0
      <4>1. at.start \in 1..k /\ Down(k)
        <5>1. at.start \in 1..k /\ \A j \in at.start..k : Down(j)
          BY <1>1, <3>2 DEF FoundUpTo
        <5> QED BY <5>1
      <4>2. (k + 1) - 1 = k /\ k + 1 # 1
        BY <4>1
      <4> QED BY <4>1, <4>2 DEF StartsUpTo
    <3> QED BY <3>1, <3>2
  <2>3. at.start # 0 => \A j \in at.start..(k + 1) : Down(j)
    <3>1. \A j \in at.start..(k + 1) : j \in at.start..k \/ j = k + 1
      BY <1>0
    <3> QED BY <1>6, <3>1 DEF FoundUpTo
  <2>4. \A i \in 1..k : i \in 1..(k + 1)
    OBVIOUS
  <2> HIDE DEF next
  <2> QED BY <1>1, <1>2, <1>6, <2>1, <2>2, <2>3, <2>4 DEF FoundUpTo, next
<1> QED BY <1>4, <1>5, <1>6

-----------------------------------------------------------------------------
(* A list of different elements counts them.                               *)
LEMMA ListCounts ==
  ASSUME NEW n \in Nat, NEW S, NEW f \in [1..n -> S], \A i, j \in 1..n : f[i] = f[j] => i = j,
         \A x \in S : \E i \in 1..n : f[i] = x
  PROVE  Cardinality(S) = n /\ IsFiniteSet(S)
<1>1. f \in Bijection(1..n, S)
  BY DEF Bijection, Injection, Surjection, IsInjective
<1>2. ExistsBijection(1..n, S)
  BY <1>1 DEF ExistsBijection
<1>3. IsFiniteSet(1..n)
  BY FS_Interval
<1> QED BY <1>2, <1>3, FS_CountingElements, FS_Bijection

LEMMA RowsFound ==
  ASSUME Total \in Nat
  PROVE  \E at \in Scans : FoundUpTo(Total, at) /\ ExtractIncidents = Closing(at)
<1>1. PICK g \in [0..Total -> Scans] : /\ g[0] = NoneOpen
                                       /\ \A k \in 1..Total : g[k] = Scan(g[k - 1], k)
                                       /\ ExtractIncidents = Closing(g[Total])
  BY IncidentsScan
<1> DEFINE H == {k \in Nat : k <= Total => FoundUpTo(k, g[k])}
<1>2. 0 \in H
  <2>1. StartsUpTo(0) = {} /\ Len(<<>>) = 0 /\ 1..0 = {}
    BY DEF StartsUpTo
  <2> QED BY <1>1, <2>1 DEF FoundUpTo, NoneOpen
<1>3. ASSUME NEW k \in Nat, k \in H PROVE k + 1 \in H
  <2> SUFFICES ASSUME k + 1 <= Total
               PROVE  FoundUpTo(k + 1, g[k + 1])
    OBVIOUS
  <2>1. k \in 0..Total /\ k <= Total /\ k + 1 \in 1..Total /\ (k + 1) - 1 = k
    OBVIOUS
  <2>2. g[k] \in Scans /\ g[k + 1] = Scan(g[k], k + 1)
    BY <1>1, <2>1
  <2> QED BY <1>3, <2>1, <2>2, OneMoreRow
<1> HIDE DEF H
<1>4. Nat \subseteq H
  BY <1>2, <1>3, CountingUp
<1>5. Total \in 0..Total
  OBVIOUS
<1> QED BY <1>1, <1>4, <1>5 DEF H

(* Runs, whatever is open at the end.                                      *)
LEMMA RunsAreIncidents ==
  ASSUME Total \in Nat
  PROVE  IncidentsAreRuns
<1>1. PICK at \in Scans : FoundUpTo(Total, at) /\ ExtractIncidents = Closing(at)
  BY RowsFound
<1> DEFINE E == ExtractIncidents
           inc == at.incidents
           starts == StartsUpTo(Total)
           endOf(i) == {j \in i..Total : ~Down(j) /\ \A k \in i..(j - 1) : Down(k)}
<1>2. at.start \in Nat /\ inc \in Seq(Nat \X Nat) /\ Len(inc) \in Nat
  BY DEF Scans
<1>3. \A n \in 1..Len(inc) :
        /\ inc[n][1] \in starts /\ inc[n][2] \in 1..Total /\ IsRun(inc[n])
        /\ \A m \in 1..(n - 1) : inc[m][1] < inc[n][1]
  BY <1>1 DEF FoundUpTo
<1>4. \A i \in starts : i \in 1..Total
  BY DEF StartsUpTo
<1>5. \A n \in 1..Len(inc) : inc[n][2] \in endOf(inc[n][1])
  <2> SUFFICES ASSUME NEW n \in 1..Len(inc)
               PROVE  inc[n][2] \in endOf(inc[n][1])
    OBVIOUS
  <2>1. inc[n][1] \in 1..Total /\ inc[n][2] \in 1..Total /\ IsRun(inc[n])
    BY <1>3, <1>4
  <2> QED BY <2>1 DEF IsRun
<1>6. E \in Seq(Nat \X Nat) /\ Len(E) \in Nat /\ DOMAIN E = 1..Len(E)
  <2> DEFINE pair == <<at.start, 0>>
  <2>1. pair \in Nat \X Nat
    BY <1>2
  <2> HIDE DEF pair
  <2>2. Append(inc, pair) \in Seq(Nat \X Nat)
    BY <1>2, <2>1
  <2>3. E = inc \/ E = Append(inc, pair)
    BY <1>1 DEF Closing, pair
  <2> HIDE DEF E, inc
  <2>4. E \in Seq(Nat \X Nat)
    BY <1>2, <2>2, <2>3
  <2> QED BY <2>4
<1>7. /\ \A n \in 1..Len(E) : /\ E[n][1] \in starts
                              /\ \A m \in 1..(n - 1) : E[m][1] < E[n][1]
                              /\ IF endOf(E[n][1]) = {} THEN E[n][2] = 0 /\ n = Len(E)
                                 ELSE E[n][2] \in endOf(E[n][1])
      /\ \A i \in starts : \E n \in 1..Len(E) : E[n][1] = i
  <2>1. CASE at.start = 0
    <3>1. E = inc
      BY <1>1, <2>1 DEF Closing
    <3>2. \A i \in starts : \E n \in 1..Len(inc) : inc[n][1] = i
      BY <1>1, <1>4, <2>1 DEF FoundUpTo
    <3> HIDE DEF E, inc, endOf, starts
    <3>3. \A n \in 1..Len(inc) : endOf(inc[n][1]) # {}
      BY <1>5
    <3> QED BY <1>3, <1>5, <3>1, <3>2, <3>3
  <2>2. CASE at.start # 0
    <3> DEFINE pair == <<at.start, 0>>
    <3>1. pair \in Nat \X Nat /\ pair[1] = at.start /\ pair[2] = 0
      BY <1>2
    <3> HIDE DEF pair
    <3>2. E = Append(inc, pair)
      BY <1>1, <2>2 DEF Closing, pair
    <3>3. /\ Len(E) = Len(inc) + 1 /\ E[Len(inc) + 1] = pair
          /\ \A n \in 1..Len(inc) : E[n] = inc[n]
      BY <1>2, <3>1, <3>2
    <3>4. /\ at.start \in starts /\ \A j \in at.start..Total : Down(j)
          /\ \A n \in 1..Len(inc) : inc[n][1] < at.start
          /\ \A i \in starts : i = at.start \/ \E n \in 1..Len(inc) : inc[n][1] = i
      BY <1>1, <2>2 DEF FoundUpTo
    <3>5. endOf(at.start) = {}
      BY <3>4
    <3> HIDE DEF E, inc, endOf, starts
    <3>6. ASSUME NEW n \in 1..Len(E)
          PROVE  /\ E[n][1] \in starts
                 /\ \A m \in 1..(n - 1) : E[m][1] < E[n][1]
                 /\ IF endOf(E[n][1]) = {} THEN E[n][2] = 0 /\ n = Len(E)
                    ELSE E[n][2] \in endOf(E[n][1])
      <4>1. CASE n = Len(inc) + 1
        <5>1. \A m \in 1..(n - 1) : E[m] = inc[m] /\ m \in 1..Len(inc)
          BY <1>2, <3>3, <4>1
        <5>2. E[n] = pair /\ n = Len(E)
          BY <3>3, <4>1
        <5> QED BY <3>1, <3>4, <3>5, <5>1, <5>2
      <4>2. CASE n # Len(inc) + 1
        <5>1. n \in 1..Len(inc) /\ \A m \in 1..(n - 1) : m \in 1..Len(inc)
          BY <1>2, <3>3, <4>2
        <5>2. E[n] = inc[n] /\ \A m \in 1..(n - 1) : E[m] = inc[m]
          BY <3>3, <5>1
        <5>3. endOf(inc[n][1]) # {} /\ inc[n][2] \in endOf(inc[n][1])
          BY <1>5, <5>1
        <5> QED BY <1>3, <5>1, <5>2, <5>3
      <4> QED BY <4>1, <4>2
    <3>7. ASSUME NEW i \in starts PROVE \E n \in 1..Len(E) : E[n][1] = i
      <4>1. CASE i = at.start
        <5>1. Len(inc) + 1 \in 1..Len(E)
          BY <1>2, <3>3
        <5> QED BY <3>1, <3>3, <4>1, <5>1
      <4>2. CASE i # at.start
        <5>1. PICK n \in 1..Len(inc) : inc[n][1] = i
          BY <3>4, <4>2
        <5>2. n \in 1..Len(E) /\ E[n] = inc[n]
          BY <1>2, <3>3
        <5> QED BY <5>1, <5>2
      <4> QED BY <4>1, <4>2
    <3> QED BY <3>6, <3>7
  <2> QED BY <2>1, <2>2
<1> HIDE DEF E, inc, endOf, starts
<1>8. Len(E) = Cardinality(starts)
  <2> DEFINE f == [n \in 1..Len(E) |-> E[n][1]]
  <2>1. f \in [1..Len(E) -> starts] /\ \A x \in starts : \E i \in 1..Len(E) : f[i] = x
    BY <1>7
  <2>2. ASSUME NEW i \in 1..Len(E), NEW j \in 1..Len(E), i # j PROVE f[i] # f[j]
    <3>1. f[i] = E[i][1] /\ f[j] = E[j][1] /\ f[i] \in 1..Total /\ f[j] \in 1..Total
      BY <1>4, <1>7
    <3>2. CASE i < j
      <4>1. i \in 1..(j - 1)
        BY <3>2
      <4> QED BY <1>7, <3>1, <4>1
    <3>3. CASE j < i
      <4>1. j \in 1..(i - 1)
        BY <3>3
      <4> QED BY <1>7, <3>1, <4>1
    <3> QED BY <1>6, <2>2, <3>2, <3>3
  <2> HIDE DEF f
  <2> QED BY <1>6, <2>1, <2>2, ListCounts
<1>9. {E[n][1] : n \in DOMAIN E} = starts
  BY <1>6, <1>7
<1>10. \A n \in DOMAIN E : IF endOf(E[n][1]) = {} THEN E[n][2] = 0 /\ n = Len(E)
                           ELSE E[n][2] \in endOf(E[n][1])
  BY <1>6, <1>7
<1> QED BY <1>8, <1>9, <1>10 DEF IncidentsAreRuns, E, endOf, starts, StartsUpTo

LEMMA FiguresMatch ==
  ASSUME Total \in Nat
  PROVE  FiguresAgree
<1> DEFINE up == {i \in 1..Total : checkResults[i].status = "up"}
<1>1. IsFiniteSet(1..Total) /\ Cardinality(1..Total) = Total
  BY FS_Interval
<1>2. IsFiniteSet(up) /\ Passed = Cardinality(up) /\ Passed \in Nat /\ Passed <= Total
      /\ (Passed = Total => up = 1..Total)
  BY <1>1, FS_Subset, FS_CardinalityType DEF Passed
<1>3. ASSUME Uptime = 10000 PROVE ExtractIncidents = <<>>
  <2>1. Total > 0 => Passed = Total
    <3> SUFFICES ASSUME Total > 0
                 PROVE  Passed = Total
      OBVIOUS
    <3>1. (Passed * 10000) \div Total = 10000
      BY <1>3 DEF Uptime
    <3>2. Passed * 10000 >= 10000 * Total
      BY <1>2, <3>1, DivBounds
    <3> QED BY <1>2, <3>2
  <2>2. \A i \in 1..Total : ~Down(i)
    BY <1>2, <2>1 DEF Down
  <2>3. PICK at \in Scans : FoundUpTo(Total, at) /\ ExtractIncidents = Closing(at)
    BY RowsFound
  <2>4. StartsUpTo(Total) = {}
    BY <2>2 DEF StartsUpTo
  <2>5. at.start = 0
    BY <2>3, <2>4 DEF FoundUpTo
  <2>6. at.incidents \in Seq(Nat \X Nat) /\ Len(at.incidents) \in Nat
    BY DEF Scans
  <2>7. Len(at.incidents) = 0
    BY <2>3, <2>4, <2>6 DEF FoundUpTo
  <2> QED BY <2>3, <2>5, <2>6, <2>7 DEF Closing
<1>4. Passed > 0 => PageUptime = Uptime
  BY <1>2 DEF PageUptime
<1> QED BY <1>3, <1>4 DEF FiguresAgree

(* What may pass is settled when the row is made.                          *)
CheckIInv == CheckTypeOK /\ NothingPassesUnanswered

RowOf(l, outcome, t) ==
  LET result == [location |-> l, status |-> Status(outcome), code |-> Code(outcome),
                 time |-> IF outcome = "raises" THEN 0 ELSE t]
  IN  [location |-> l, status |-> result.status, code |-> result.code,
       time |-> result.time, passed |-> {a \in Assertions : Passes(result, a)}]
Unanswered(row) ==
  (row.status = "down" /\ row.code = 0) =>
    \A a \in row.passed : a.type \in {"response_time", "body_contains"}

LEMMA RowOfCheck ==
  ASSUME NEW l \in Locations, NEW outcome, NEW t \in 1..2
  PROVE  /\ RowOf(l, outcome, t) \in
              [location : Locations, status : {"up", "down", "degraded"},
               code : {0, 200, 404, 503}, time : 0..2, passed : SUBSET Assertions]
         /\ Unanswered(RowOf(l, outcome, t))
<1> DEFINE result == [location |-> l, status |-> Status(outcome), code |-> Code(outcome),
                      time |-> IF outcome = "raises" THEN 0 ELSE t]
<1>1. Status(outcome) \in {"up", "down", "degraded"}
  BY DEF Status
<1>2. Code(outcome) \in {0, 200, 404, 503}
  BY DEF Code
<1>3. result.time \in 0..2
  OBVIOUS
<1>4. ASSUME result.status = "down", result.code = 0, NEW a \in Assertions, Passes(result, a)
      PROVE  a.type \in {"response_time", "body_contains"}
  <2> HIDE DEF result
  <2> QED BY <1>4 DEF Passes
<1> QED BY <1>1, <1>2, <1>3, <1>4 DEF RowOf, Unanswered

LEMMA StepCheck == CheckIInv /\ [CheckNext]_checkVars => CheckIInv'
<1> SUFFICES ASSUME CheckIInv, [CheckNext]_checkVars
             PROVE  CheckIInv'
  OBVIOUS
<1> DEFINE Rows == [location : Locations, status : {"up", "down", "degraded"},
                    code : {0, 200, 404, 503}, time : 0..2, passed : SUBSET Assertions]
<1>1. protocol \in Protocols /\ checkResults \in Seq(Rows) /\ Len(checkResults) <= MaxChecks
  BY DEF CheckIInv, CheckTypeOK
<1>2. ASSUME NEW l \in Locations, ExecuteCheck(l) PROVE CheckIInv'
  <2>1. PICK row \in Rows : checkResults' = Append(checkResults, row) /\ Unanswered(row)
    <3>1. PICK outcome \in Outcomes(protocol), t \in 1..2 :
            checkResults' = Append(checkResults, RowOf(l, outcome, t))
      BY <1>2 DEF ExecuteCheck, RowOf
    <3>2. RowOf(l, outcome, t) \in Rows /\ Unanswered(RowOf(l, outcome, t))
      BY RowOfCheck
    <3> HIDE DEF Rows
    <3> QED BY <3>1, <3>2
  <2>2. protocol' = protocol /\ Len(checkResults) < MaxChecks
    BY <1>2 DEF ExecuteCheck
  <2> HIDE DEF Rows
  <2>3. /\ checkResults' \in Seq(Rows) /\ Len(checkResults') = Len(checkResults) + 1
        /\ checkResults'[Len(checkResults) + 1] = row
        /\ \A i \in 1..Len(checkResults) : checkResults'[i] = checkResults[i]
    BY <1>1, <2>1
  <2>4. Len(checkResults) \in Nat
    BY <1>1
  <2>5. CheckTypeOK'
    <3>1. Len(checkResults') <= MaxChecks
      BY <2>2, <2>3, <2>4, ChecksAssumption DEF ChecksAssumption
    <3> QED BY <1>1, <2>2, <2>3, <3>1 DEF CheckTypeOK, Rows
  <2>6. NothingPassesUnanswered'
    <3> SUFFICES ASSUME NEW i \in 1..Len(checkResults'), checkResults'[i].status = "down",
                        checkResults'[i].code = 0, NEW a \in checkResults'[i].passed
                 PROVE  a.type \in {"response_time", "body_contains"}
      BY DEF NothingPassesUnanswered, Total, Down
    <3>1. CASE i = Len(checkResults) + 1
      BY <2>1, <2>3, <3>1 DEF Unanswered
    <3>2. CASE i # Len(checkResults) + 1
      <4>1. i \in 1..Len(checkResults)
        BY <2>3, <2>4, <3>2
      <4>2. NothingPassesUnanswered
        BY DEF CheckIInv
      <4> QED BY <2>3, <4>1, <4>2 DEF NothingPassesUnanswered, Total, Down
    <3> QED BY <3>1, <3>2
  <2> QED BY <2>5, <2>6 DEF CheckIInv
<1>3. CASE UNCHANGED checkVars
  BY <1>3 DEF CheckIInv, CheckTypeOK, NothingPassesUnanswered, Total, Down, checkVars
<1> QED BY <1>2, <1>3 DEF CheckNext

(* For any locations and outcomes, in any order: incidents are the runs of *)
(* failures, uptime, incidents and status page agree, and an assertion on  *)
(* an answer passes only if there was one.                                 *)
THEOREM ChecksStayTrue == CheckSpec => []ChecksTellTheTruth
<1>1. CheckInit => CheckIInv
  <2> SUFFICES ASSUME CheckInit
               PROVE  CheckIInv
    OBVIOUS
  <2>1. checkResults = <<>> /\ protocol \in Protocols
    BY DEF CheckInit
  <2>2. Len(<<>>) = 0 /\ 1..0 = {} /\ MaxChecks \in Nat
    BY ChecksAssumption DEF ChecksAssumption
  <2>3. CheckTypeOK
    BY <2>1, <2>2 DEF CheckTypeOK
  <2>4. NothingPassesUnanswered
    BY <2>1, <2>2 DEF NothingPassesUnanswered, Total
  <2> QED BY <2>3, <2>4 DEF CheckIInv
<1>2. CheckIInv => ChecksTellTheTruth
  <2> SUFFICES ASSUME CheckIInv
               PROVE  ChecksTellTheTruth
    OBVIOUS
  <2>1. Total \in Nat
    BY DEF CheckIInv, CheckTypeOK, Total
  <2> QED BY <2>1, RunsAreIncidents, FiguresMatch DEF ChecksTellTheTruth, CheckIInv
<1> QED BY <1>1, <1>2, StepCheck, PTL DEF CheckSpec

-----------------------------------------------------------------------------
(* The spans a waterfall is made of: known by their numbers, each with a   *)
(* parent or none.                                                         *)
SpanMap(map) ==
  /\ IsFiniteSet(DOMAIN map) /\ DOMAIN map \subseteq Nat
  /\ \A i \in DOMAIN map : map[i].parent \in Nat

LEMMA ChainsAre ==
  ASSUME NEW map, SpanMap(map)
  PROVE  /\ IsFiniteSet(Chains(map))
         /\ \A p \in Chains(map) :
              /\ DOMAIN p = 1..Len(p) /\ Len(p) \in Nat /\ Len(p) >= 1
              /\ p = [k \in 1..Len(p) |-> p[k]]
              /\ \A k \in 1..Len(p) : p[k] \in DOMAIN map /\ p[k] \in Nat
              /\ \A k \in 1..Len(p) : map[p[k]].parent = IF k = 1 THEN 0 ELSE p[k - 1]
              /\ IsLeaf(map, p[Len(p)])
<1> DEFINE D == DOMAIN map
           c == Cardinality(D)
           sizes == [n \in 1..c |-> [1..n -> D]]
<1>1. IsFiniteSet(D) /\ c \in Nat /\ D \subseteq Nat
  <2> HIDE DEF sizes
  <2> QED BY SMTT(30), FS_CardinalityType DEF SpanMap
<1>2. \A n \in 1..c : IsFiniteSet(sizes[n])
  <2> SUFFICES ASSUME NEW n \in 1..c
               PROVE  IsFiniteSet(sizes[n])
    OBVIOUS
  <2>1. n \in Nat /\ sizes[n] = [1..n -> D]
    BY <1>1
  <2> HIDE DEF sizes, D
  <2> QED BY <1>1, <2>1, SequencesAreFew
<1>3. IsFiniteSet(UNION {[1..n -> D] : n \in 1..c})
  <2>1. {[1..n -> D] : n \in 1..c} = {sizes[n] : n \in 1..c}
    OBVIOUS
  <2>2. IsFiniteSet(1..c)
    BY <1>1, FS_Interval
  <2> HIDE DEF sizes
  <2>3. IsFiniteSet({sizes[n] : n \in 1..c})
    BY <2>2, ImageIsFinite
  <2>4. IsFiniteSet(UNION {sizes[n] : n \in 1..c})
    BY <1>2, <2>3, FS_UNION
  <2> QED BY <2>1, <2>4
<1>4. IsFiniteSet(Chains(map))
  <2>1. Chains(map) \subseteq UNION {[1..n -> D] : n \in 1..c}
    BY DEF Chains
  <2> QED BY <1>3, <2>1, FS_Subset
<1>5. ASSUME NEW p \in Chains(map)
      PROVE  /\ DOMAIN p = 1..Len(p) /\ Len(p) \in Nat /\ Len(p) >= 1
             /\ p = [k \in 1..Len(p) |-> p[k]]
             /\ \A k \in 1..Len(p) : p[k] \in DOMAIN map /\ p[k] \in Nat
             /\ \A k \in 1..Len(p) : map[p[k]].parent = IF k = 1 THEN 0 ELSE p[k - 1]
             /\ IsLeaf(map, p[Len(p)])
  <2>1. PICK n \in 1..c : p \in [1..n -> D]
    BY DEF Chains
  <2>2. n \in Nat /\ n >= 1
    BY <1>1, <2>1
  <2>3. Len(p) = n /\ DOMAIN p = 1..n /\ p = [k \in 1..n |-> p[k]] /\ \A k \in 1..n : p[k] \in D
    BY <2>1, <2>2
  <2>4. /\ map[p[1]].parent = 0 /\ IsLeaf(map, p[Len(p)])
        /\ \A k \in 1..Len(p) - 1 : map[p[k + 1]].parent = p[k]
    BY DEF Chains
  <2>5. ASSUME NEW k \in 1..n PROVE map[p[k]].parent = IF k = 1 THEN 0 ELSE p[k - 1]
    <3>1. CASE k = 1
      BY <2>4, <3>1
    <3>2. CASE k # 1
      <4>1. k - 1 \in 1..Len(p) - 1 /\ (k - 1) + 1 = k
        BY <2>2, <2>3, <3>2
      <4> QED BY <2>4, <3>2, <4>1
    <3> QED BY <3>1, <3>2
  <2> QED BY <1>1, <2>2, <2>3, <2>4, <2>5
<1> QED BY <1>4, <1>5

LEMMA ChainsInARow ==
  ASSUME NEW map, SpanMap(map), NEW p \in Chains(map), NEW q \in Chains(map), p # q
  PROVE  FoundFirst(p, q) \/ FoundFirst(q, p)
<1>1. /\ DOMAIN p = 1..Len(p) /\ Len(p) \in Nat /\ Len(p) >= 1
      /\ DOMAIN q = 1..Len(q) /\ Len(q) \in Nat /\ Len(q) >= 1
      /\ p = [k \in 1..Len(p) |-> p[k]] /\ q = [k \in 1..Len(q) |-> q[k]]
      /\ \A k \in 1..Len(p) : p[k] \in Nat /\ p[k] \in DOMAIN map
      /\ \A k \in 1..Len(q) : q[k] \in Nat /\ q[k] \in DOMAIN map
  BY ChainsAre
<1>2. /\ IsLeaf(map, p[Len(p)]) /\ IsLeaf(map, q[Len(q)])
      /\ \A k \in 1..Len(p) : map[p[k]].parent = IF k = 1 THEN 0 ELSE p[k - 1]
      /\ \A k \in 1..Len(q) : map[q[k]].parent = IF k = 1 THEN 0 ELSE q[k - 1]
  BY ChainsAre
<1> DEFINE T == {k \in DOMAIN p \intersect DOMAIN q : p[k] # q[k]}
<1>3. CASE T # {}
  <2>1. T \in SUBSET Nat
    BY <1>1
  <2> HIDE DEF T
  <2>2. PICK k \in T : \A j \in T : k <= j
    BY <1>3, <2>1, LeastNumber
  <2>3. k \in 1..Len(p) /\ k \in 1..Len(q) /\ p[k] # q[k]
    BY <1>1, <2>2 DEF T
  <2>4. ASSUME NEW j \in 1..k - 1 PROVE p[j] = q[j]
    <3>1. j \in 1..Len(p) /\ j \in 1..Len(q) /\ ~ (k <= j)
      BY <1>1, <2>3
    <3>2. j \notin T
      BY <2>2, <3>1
    <3> QED BY <1>1, <3>1, <3>2 DEF T
  <2>5. p[k] < q[k] \/ q[k] < p[k]
    BY <1>1, <2>3
  <2>6. k \in DOMAIN p \intersect DOMAIN q /\ \A j \in 1..k - 1 : p[j] = q[j] /\ q[j] = p[j]
    BY <1>1, <2>3, <2>4
  <2> QED BY Zenon, <2>5, <2>6 DEF FoundFirst
<1>4. CASE T = {}
  <2>1. \A k \in 1..Len(p) : k \in 1..Len(q) => p[k] = q[k]
    BY <1>1, <1>4
  <2> HIDE DEF T
  <2>2. CASE Len(p) = Len(q)
    BY <1>1, <2>1, <2>2
  <2>3. CASE Len(p) < Len(q)
    <3>1. Len(p) + 1 \in 1..Len(q) /\ Len(p) + 1 # 1 /\ (Len(p) + 1) - 1 = Len(p)
          /\ Len(p) \in 1..Len(p) /\ Len(p) \in 1..Len(q)
      BY <1>1, <2>3
    <3>2. map[q[Len(p) + 1]].parent = p[Len(p)] /\ q[Len(p) + 1] \in DOMAIN map
      BY <1>1, <1>2, <2>1, <3>1
    <3> QED BY <1>2, <3>2 DEF IsLeaf
  <2>4. CASE Len(q) < Len(p)
    <3>1. Len(q) + 1 \in 1..Len(p) /\ Len(q) + 1 # 1 /\ (Len(q) + 1) - 1 = Len(q)
          /\ Len(q) \in 1..Len(p) /\ Len(q) \in 1..Len(q)
      BY <1>1, <2>4
    <3>2. map[p[Len(q) + 1]].parent = q[Len(q)] /\ p[Len(q) + 1] \in DOMAIN map
      BY <1>1, <1>2, <2>1, <3>1
    <3> QED BY <1>2, <3>2 DEF IsLeaf
  <2>5. \A a, b \in Nat : a = b \/ a < b \/ b < a
    OBVIOUS
  <2>6. Len(p) = Len(q) \/ Len(p) < Len(q) \/ Len(q) < Len(p)
    BY Zenon, <1>1, <2>5
  <2> QED BY <2>2, <2>3, <2>4, <2>6
<1> QED BY <1>3, <1>4

LEMMA ChainsKeepOrder ==
  ASSUME NEW map, SpanMap(map), NEW p \in Chains(map), NEW q \in Chains(map), NEW r \in Chains(map),
         FoundFirst(p, q), FoundFirst(q, r)
  PROVE  FoundFirst(p, r)
<1>1. /\ DOMAIN p = 1..Len(p) /\ Len(p) \in Nat
      /\ DOMAIN q = 1..Len(q) /\ Len(q) \in Nat
      /\ DOMAIN r = 1..Len(r) /\ Len(r) \in Nat
      /\ \A k \in 1..Len(p) : p[k] \in Nat
      /\ \A k \in 1..Len(q) : q[k] \in Nat
      /\ \A k \in 1..Len(r) : r[k] \in Nat
  BY ChainsAre
<1>2. PICK k \in DOMAIN p \intersect DOMAIN q : p[k] < q[k] /\ \A j \in 1..k - 1 : p[j] = q[j]
  BY DEF FoundFirst
<1>3. PICK l \in DOMAIN q \intersect DOMAIN r : q[l] < r[l] /\ \A j \in 1..l - 1 : q[j] = r[j]
  BY DEF FoundFirst
<1>4. k \in 1..Len(p) /\ k \in 1..Len(q) /\ l \in 1..Len(q) /\ l \in 1..Len(r)
  BY <1>1, <1>2, <1>3
<1>5. CASE k < l
  <2>1. k \in 1..l - 1 /\ k \in 1..Len(r) /\ \A j \in 1..k - 1 : j \in 1..l - 1
    BY <1>1, <1>4, <1>5
  <2>2. p[k] < r[k] /\ \A j \in 1..k - 1 : p[j] = r[j]
    BY <1>2, <1>3, <2>1
  <2>3. k \in DOMAIN p \intersect DOMAIN r
    BY <1>1, <1>4, <2>1
  <2> QED BY Zenon, <2>2, <2>3 DEF FoundFirst
<1>6. CASE k >= l
  <2>1. l \in 1..Len(p) /\ \A j \in 1..l - 1 : j \in 1..k - 1
    BY <1>1, <1>4, <1>6
  <2>2. l # k => l \in 1..k - 1
    BY <1>1, <1>4, <1>6
  <2>3. p[l] <= q[l]
    BY <1>1, <1>2, <1>4, <2>1, <2>2
  <2>4. p[l] < r[l] /\ \A j \in 1..l - 1 : p[j] = r[j]
    BY <1>1, <1>2, <1>3, <1>4, <2>1, <2>3
  <2>5. l \in DOMAIN p \intersect DOMAIN r
    BY <1>1, <1>4, <2>1
  <2> QED BY Zenon, <2>4, <2>5 DEF FoundFirst
<1> QED BY <1>1, <1>4, <1>5, <1>6

(* What is shown as the critical path is a chain of the spans, if any.     *)
LEMMA LongestIsChain ==
  ASSUME NEW map, SpanMap(map)
  PROVE  LongestChain(map) = <<>> \/ LongestChain(map) \in Chains(map)
<1> DEFINE longest == {p \in Chains(map) : \A q \in Chains(map) : TimeOf(map, q) <= TimeOf(map, p)}
           best == CHOOSE p \in longest : \A q \in longest : p = q \/ FoundFirst(p, q)
           R == {x \in longest \X longest : FoundFirst(x[1], x[2])}
<1>1. LongestChain(map) = IF longest = {} THEN <<>> ELSE IF TimeOf(map, best) = 0 THEN <<>> ELSE best
  BY DEF LongestChain
<1>2. longest \subseteq Chains(map) /\ IsFiniteSet(longest)
  BY ChainsAre, FS_Subset
<1> HIDE DEF longest
<1>3. ASSUME longest # {} PROVE best \in longest
  <2>1. \A x, y \in longest : <<x, y>> \in R <=> FoundFirst(x, y)
    OBVIOUS
  <2>2. \A x, y \in longest : x = y \/ FoundFirst(x, y) \/ FoundFirst(y, x)
    BY <1>2, ChainsInARow
  <2>3. \A x, y, z \in longest : FoundFirst(x, y) /\ FoundFirst(y, z) => FoundFirst(x, z)
    BY <1>2, ChainsKeepOrder
  <2> HIDE DEF R
  <2>4. \A x, y \in longest : x = y \/ <<x, y>> \in R \/ <<y, x>> \in R
    BY Zenon, <2>1, <2>2
  <2>5. \A x, y, z \in longest : <<x, y>> \in R /\ <<y, z>> \in R => <<x, z>> \in R
    BY Zenon, <2>1, <2>3
  <2>6. \E x \in longest : \A y \in longest : x = y \/ <<x, y>> \in R
    BY <1>2, <1>3, <2>4, <2>5, FirstOf
  <2>7. \E x \in longest : \A y \in longest : x = y \/ FoundFirst(x, y)
    BY Zenon, <2>1, <2>6
  <2> QED BY <2>7
<1> HIDE DEF best
<1> QED BY <1>1, <1>2, <1>3

(* Spans and rows.  A row is of a span that was recorded, as it was then.  *)
AgentSpan == [parent : Nat, began : Nat, duration : Nat, cost : {0, 1}]
StoredRow == [id : Nat, span : AgentSpan]
RowHolds(row) ==
  /\ row.id \in DOMAIN recorded /\ row.span.parent = recorded[row.id].parent
  /\ row.span.cost <= dearest[row.id]
  /\ EndOf(row.span) <= instant

CostsRecorded == [i \in DOMAIN recorded |-> recorded[i].cost]
CostRecorded == SumOf(CostsRecorded, DOMAIN recorded)
CostStored == SumOf([k \in DOMAIN storedSpans |-> storedSpans[k].span.cost], DOMAIN storedSpans)
CostDearest == SumOf(dearest, DOMAIN dearest)
DearestCost == MapThenSumSet(LAMBDA i : dearest[i], DOMAIN dearest)
Flushed == flushes - Cardinality(DOMAIN flushing)

SpansStand ==
  /\ instant \in Nat /\ recorded \in Seq(AgentSpan)
  /\ \A i \in DOMAIN recorded : EndOf(recorded[i]) <= instant
  /\ dearest \in Seq({0, 1}) /\ Len(dearest) = Len(recorded)
  /\ \A i \in DOMAIN recorded : recorded[i].cost <= dearest[i]
FlushHolds(rows) ==
  /\ rows \in Seq(StoredRow) /\ Len(rows) <= Len(recorded)
  /\ \A k \in DOMAIN rows : rows[k].id = k /\ RowHolds(rows[k])
RowsStand ==
  /\ flushes \in Nat /\ DOMAIN flushing \subseteq 1..flushes
  /\ \A f \in DOMAIN flushing : FlushHolds(flushing[f])
  /\ storedSpans \in Seq(StoredRow)
  /\ \A k \in DOMAIN storedSpans : RowHolds(storedSpans[k])
StoredCosts == CostStored <= Flushed * CostDearest

(* The property of what is shown, for any waterfall.                       *)
Faithful(s) ==
  /\ \A k \in DOMAIN s.path : recorded[s.path[k]].parent = IF k = 1 THEN 0 ELSE s.path[k - 1]
  /\ s.total <= instant
  /\ s.cost <= flushes * DearestCost
  /\ /\ s.rows = Len(storedSpans) /\ Len(storedSpans) = Len(recorded)
     /\ {storedSpans[k].id : k \in DOMAIN storedSpans} = DOMAIN recorded
     /\ \A k \in DOMAIN storedSpans : storedSpans[k].span = recorded[storedSpans[k].id]
     => s = Waterfall

TracingIInv == SpansStand /\ RowsStand /\ StoredCosts /\ Faithful(shown)

LEMMA SpanFacts ==
  ASSUME SpansStand
  PROVE  /\ DOMAIN recorded = 1..Len(recorded) /\ Len(recorded) \in Nat
         /\ IsFiniteSet(DOMAIN recorded)
         /\ \A i \in DOMAIN recorded :
              /\ recorded[i] \in AgentSpan
              /\ recorded[i].parent \in Nat /\ recorded[i].began \in Nat
              /\ recorded[i].duration \in Nat /\ recorded[i].cost \in Nat
              /\ EndOf(recorded[i]) \in 0..instant
              /\ recorded[i].cost <= dearest[i]
         /\ CostRecorded \in Nat
         /\ DOMAIN dearest = DOMAIN recorded /\ CostDearest \in Nat
         /\ \A i \in DOMAIN dearest : dearest[i] \in {0, 1} /\ dearest[i] \in Nat
<1>1. DOMAIN recorded = 1..Len(recorded) /\ Len(recorded) \in Nat
  BY DEF SpansStand
<1>2. IsFiniteSet(DOMAIN recorded)
  BY <1>1, FS_Interval
<1>3. ASSUME NEW i \in DOMAIN recorded
      PROVE  /\ recorded[i] \in AgentSpan
             /\ recorded[i].parent \in Nat /\ recorded[i].began \in Nat
             /\ recorded[i].duration \in Nat /\ recorded[i].cost \in Nat
             /\ EndOf(recorded[i]) \in 0..instant
             /\ recorded[i].cost <= dearest[i]
  <2>1. recorded[i] \in AgentSpan
    BY <1>1 DEF SpansStand
  <2>2. /\ recorded[i].parent \in Nat /\ recorded[i].began \in Nat
        /\ recorded[i].duration \in Nat /\ recorded[i].cost \in Nat
    BY <2>1 DEF AgentSpan
  <2> QED BY <2>1, <2>2 DEF SpansStand, EndOf
<1>4. \A i \in DOMAIN recorded : CostsRecorded[i] \in Nat
  BY <1>3 DEF CostsRecorded
<1>5. CostRecorded \in Nat
  BY <1>2, <1>4, SumOfNaturals DEF CostRecorded
<1>6. DOMAIN dearest = DOMAIN recorded /\ \A i \in DOMAIN dearest : dearest[i] \in {0, 1} /\ dearest[i] \in Nat
  BY <1>1 DEF SpansStand
<1>7. CostDearest \in Nat
  BY <1>2, <1>6, SumOfNaturals DEF CostDearest
<1> QED BY <1>1, <1>2, <1>3, <1>5, <1>6, <1>7

LEMMA StoredFacts ==
  ASSUME SpansStand, NEW rows, rows \in Seq(StoredRow), \A k \in DOMAIN rows : RowHolds(rows[k])
  PROVE  /\ DOMAIN rows = 1..Len(rows) /\ Len(rows) \in Nat /\ IsFiniteSet(DOMAIN rows)
         /\ \A k \in DOMAIN rows :
              /\ rows[k] \in StoredRow /\ rows[k].id \in DOMAIN recorded /\ rows[k].span \in AgentSpan
              /\ rows[k].span.parent = recorded[rows[k].id].parent
              /\ rows[k].span.cost \in Nat /\ rows[k].span.cost <= dearest[rows[k].id]
              /\ EndOf(rows[k].span) \in 0..instant
<1>1. DOMAIN rows = 1..Len(rows) /\ Len(rows) \in Nat
  OBVIOUS
<1>2. IsFiniteSet(DOMAIN rows)
  BY <1>1, FS_Interval
<1>3. ASSUME NEW k \in DOMAIN rows
      PROVE  /\ rows[k] \in StoredRow /\ rows[k].id \in DOMAIN recorded /\ rows[k].span \in AgentSpan
             /\ rows[k].span.parent = recorded[rows[k].id].parent
             /\ rows[k].span.cost \in Nat /\ rows[k].span.cost <= dearest[rows[k].id]
             /\ EndOf(rows[k].span) \in 0..instant
  <2>1. rows[k] \in StoredRow
    BY <1>1
  <2>2. rows[k].span \in AgentSpan
    BY <2>1 DEF StoredRow
  <2>3. rows[k].span.cost \in Nat /\ rows[k].span.began \in Nat /\ rows[k].span.duration \in Nat
    BY <2>2 DEF AgentSpan
  <2>4. RowHolds(rows[k])
    OBVIOUS
  <2>5. EndOf(rows[k].span) \in Nat /\ EndOf(rows[k].span) <= instant
    BY <2>3, <2>4 DEF RowHolds, EndOf
  <2>6. instant \in Nat
    BY DEF SpansStand
  <2> QED BY <2>1, <2>2, <2>3, <2>4, <2>5, <2>6 DEF RowHolds
<1> QED BY <1>1, <1>2, <1>3

(* The cost the waterfalls give is the sum of the costs.                   *)
LEMMA CostOfRecorded ==
  ASSUME SpansStand
  PROVE  Waterfall.cost = CostRecorded
<1> DEFINE S == DOMAIN recorded
           f == CostsRecorded
           P(sum) == sum = [s \in SUBSET S |-> IF s = {} THEN 0
                              ELSE recorded[CHOOSE i \in s : TRUE].cost + sum[s \ {CHOOSE i \in s : TRUE}]]
<1>1. MapThenSumSet(LAMBDA i : recorded[i].cost, DOMAIN recorded) = (CHOOSE sum : P(sum))[S]
  BY DEF MapThenSumSet, MapThenFoldSet
<1>2. ASSUME NEW sum PROVE P(sum) <=> SumsUp(f, S, sum)
  BY DEF SumsUp, CostsRecorded
<1>3. IsFiniteSet(S) /\ \A i \in S : f[i] \in Int
  BY SpanFacts DEF CostsRecorded
<1>4. Waterfall.cost = MapThenSumSet(LAMBDA i : recorded[i].cost, DOMAIN recorded)
  BY DEF Waterfall
<1> HIDE DEF P, f, S
<1>5. PICK total : SumsUp(f, S, total)
  BY <1>3, SumExists
<1>6. P(CHOOSE g : P(g))
  BY <1>2, <1>5
<1>7. Waterfall.cost = SumOf(f, S)
  BY <1>1, <1>2, <1>3, <1>4, <1>6, SumIs
<1> QED BY <1>7 DEF CostRecorded, f, S

LEMMA CostOfDearest ==
  ASSUME SpansStand
  PROVE  DearestCost = CostDearest
<1> DEFINE S == DOMAIN dearest
           P(sum) == sum = [s \in SUBSET S |-> IF s = {} THEN 0
                              ELSE dearest[CHOOSE i \in s : TRUE] + sum[s \ {CHOOSE i \in s : TRUE}]]
<1>1. DearestCost = (CHOOSE sum : P(sum))[S]
  BY DEF DearestCost, MapThenSumSet, MapThenFoldSet
<1>2. ASSUME NEW sum PROVE P(sum) <=> SumsUp(dearest, S, sum)
  BY DEF SumsUp
<1>3. IsFiniteSet(S) /\ \A i \in S : dearest[i] \in Int
  BY SpanFacts
<1> HIDE DEF P, S
<1>5. PICK total : SumsUp(dearest, S, total)
  BY <1>3, SumExists
<1>6. P(CHOOSE g : P(g))
  BY <1>2, <1>5
<1>7. DearestCost = SumOf(dearest, S)
  BY <1>1, <1>2, <1>3, <1>6, SumIs
<1> QED BY <1>7 DEF CostDearest, S

(* The flushes that have come to their end.                                *)
LEMMA FlushedFacts ==
  ASSUME RowsStand
  PROVE  /\ IsFiniteSet(DOMAIN flushing) /\ Cardinality(DOMAIN flushing) \in Nat
         /\ Flushed \in 0..flushes /\ Flushed \in Nat
<1>1. IsFiniteSet(1..flushes) /\ Cardinality(1..flushes) = flushes /\ flushes \in Nat
  BY FS_Interval DEF RowsStand
<1>2. /\ IsFiniteSet(DOMAIN flushing) /\ Cardinality(DOMAIN flushing) \in Nat
      /\ Cardinality(DOMAIN flushing) <= flushes
  BY <1>1, FS_Subset, FS_CardinalityType DEF RowsStand
<1> QED BY <1>1, <1>2 DEF Flushed

LEMMA CostOfStored ==
  ASSUME SpansStand, RowsStand
  PROVE  /\ MapThenSumSet(LAMBDA k : storedSpans[k].span.cost, DOMAIN storedSpans) = CostStored
         /\ CostStored \in Nat
<1> DEFINE S == DOMAIN storedSpans
           f == [k \in S |-> storedSpans[k].span.cost]
           P(sum) == sum = [s \in SUBSET S |-> IF s = {} THEN 0
                 ELSE storedSpans[CHOOSE k \in s : TRUE].span.cost + sum[s \ {CHOOSE k \in s : TRUE}]]
<1>1. MapThenSumSet(LAMBDA k : storedSpans[k].span.cost, DOMAIN storedSpans) = (CHOOSE sum : P(sum))[S]
  BY DEF MapThenSumSet, MapThenFoldSet
<1>2. ASSUME NEW sum PROVE P(sum) <=> SumsUp(f, S, sum)
  BY DEF SumsUp
<1>3. IsFiniteSet(S) /\ \A k \in S : storedSpans[k].span.cost \in Nat
  BY StoredFacts DEF RowsStand
<1>4. \A k \in S : f[k] \in Int /\ f[k] \in Nat
  BY <1>3
<1>5. CostStored = SumOf(f, S)
  BY DEF CostStored
<1> HIDE DEF P, f, S
<1>6. PICK total : SumsUp(f, S, total)
  BY <1>3, <1>4, SumExists
<1>7. P(CHOOSE g : P(g))
  BY <1>2, <1>6
<1>8. SumOf(f, S) \in Nat
  BY <1>3, <1>4, SumOfNaturals
<1>9. (CHOOSE sum : P(sum))[S] = SumOf(f, S)
  BY <1>2, <1>3, <1>4, <1>7, SumIs
<1> QED BY <1>1, <1>5, <1>8, <1>9

(* Nothing shown is right of nothing recorded, and says nothing otherwise. *)
LEMMA NothingIsFaithful == SpansStand /\ RowsStand => Faithful(NothingShown)
<1> SUFFICES ASSUME SpansStand, RowsStand
             PROVE  Faithful(NothingShown)
  OBVIOUS
<1>1. /\ NothingShown.rows = 0 /\ NothingShown.path = <<>>
      /\ NothingShown.cost = 0 /\ NothingShown.total = 0
  BY DEF NothingShown
<1>2. DearestCost \in Nat /\ flushes \in Nat /\ instant \in Nat
  BY CostOfDearest, SpanFacts DEF RowsStand, SpansStand
<1>3. 0 <= flushes * DearestCost
  <2>1. \A a, b \in Nat : 0 <= a * b
    OBVIOUS
  <2> QED BY <1>2, <2>1
<1>4. ASSUME NothingShown.rows = Len(storedSpans), Len(storedSpans) = Len(recorded)
      PROVE  NothingShown = Waterfall
  <2>1. recorded = <<>>
    BY <1>1, <1>4 DEF SpansStand
  <2>2. DOMAIN recorded = {} /\ Len(recorded) = 0 /\ IsFiniteSet({}) /\ Cardinality({}) = 0
    BY <2>1, FS_EmptySet
  <2>3. Chains(recorded) = {}
    <3>1. \A n : n \notin 1..Cardinality(DOMAIN recorded)
      BY <2>2
    <3> QED BY <3>1 DEF Chains
  <2>4. LongestChain(recorded) = <<>>
    BY <2>3 DEF LongestChain
  <2>5. Waterfall.cost = 0
    BY <2>2, CostOfRecorded, SumOfNothing DEF CostRecorded
  <2>6. Max({0} \union {EndOf(recorded[i]) : i \in DOMAIN recorded}) = 0
    <3>1. {0} \union {EndOf(recorded[i]) : i \in DOMAIN recorded} = {0}
      BY <2>2
    <3>2. Max({0}) = 0
      BY DEF Max
    <3> QED BY <3>1, <3>2
  <2> QED BY <2>2, <2>4, <2>5, <2>6 DEF Waterfall, NothingShown
<1> QED BY <1>1, <1>2, <1>3, <1>4 DEF Faithful

(* What is loaded: a row of every span there is one of.                    *)
DrawnFrom(map) ==
  /\ DOMAIN map = {storedSpans[k].id : k \in DOMAIN storedSpans}
  /\ map = [i \in DOMAIN map |-> map[i]]
  /\ \A i \in DOMAIN map : \E k \in DOMAIN storedSpans :
       storedSpans[k].id = i /\ map[i] = storedSpans[k].span
Shows(s, map) ==
  s = [rows |-> Len(storedSpans), path |-> LongestChain(map), cost |-> CostStored,
       total |-> Max({EndOf(storedSpans[k].span) : k \in DOMAIN storedSpans})]

LEMMA LoadIsFaithful ==
  ASSUME SpansStand, RowsStand, StoredCosts, storedSpans # <<>>, NEW map, DrawnFrom(map), NEW s, Shows(s, map)
  PROVE  Faithful(s)
<1> DEFINE D == DOMAIN recorded
           K == DOMAIN storedSpans
           ends == {EndOf(storedSpans[k].span) : k \in K}
<1>1. /\ D = 1..Len(recorded) /\ Len(recorded) \in Nat /\ IsFiniteSet(D)
      /\ \A i \in D : recorded[i].parent \in Nat /\ recorded[i].cost \in Nat
      /\ instant \in Nat /\ flushes \in Nat /\ Flushed \in Nat /\ CostRecorded \in Nat
      /\ CostDearest \in Nat /\ Flushed <= flushes
  BY SpanFacts, FlushedFacts DEF SpansStand, RowsStand
<1>2. /\ K = 1..Len(storedSpans) /\ Len(storedSpans) \in Nat
      /\ \A k \in K : /\ storedSpans[k].id \in D
                      /\ storedSpans[k].span.parent = recorded[storedSpans[k].id].parent
                      /\ EndOf(storedSpans[k].span) \in 0..instant
  BY StoredFacts DEF RowsStand
<1>3. K # {}
  <2>1. storedSpans \in Seq(StoredRow)
    BY DEF RowsStand
  <2>2. Len(storedSpans) # 0
    BY <2>1
  <2> QED BY <1>2, <2>2
<1>4. \A i \in DOMAIN map : i \in D /\ map[i].parent = recorded[i].parent
  <2> SUFFICES ASSUME NEW i \in DOMAIN map
               PROVE  i \in D /\ map[i].parent = recorded[i].parent
    OBVIOUS
  <2>1. PICK k \in K : storedSpans[k].id = i /\ map[i] = storedSpans[k].span
    BY DEF DrawnFrom
  <2> QED BY <1>2, <2>1
<1>5. SpanMap(map)
  <2>1. DOMAIN map \subseteq D /\ D \subseteq Nat
    BY <1>1, <1>4
  <2>2. \A i \in DOMAIN map : map[i].parent \in Nat
    BY <1>1, <1>4
  <2>3. IsFiniteSet(DOMAIN map)
    BY <1>1, <2>1, FS_Subset
  <2> QED BY <2>1, <2>2, <2>3 DEF SpanMap
<1>6. /\ s.rows = Len(storedSpans) /\ s.path = LongestChain(map) /\ s.cost = CostStored
      /\ s.total = Max(ends)
  BY DEF Shows
<1>7. ASSUME NEW k \in DOMAIN s.path
      PROVE  recorded[s.path[k]].parent = IF k = 1 THEN 0 ELSE s.path[k - 1]
  <2> DEFINE p == s.path
  <2>1. p = <<>> \/ p \in Chains(map)
    BY <1>5, <1>6, LongestIsChain
  <2>2. p # <<>>
    BY <1>7
  <2> HIDE DEF p
  <2>3. DOMAIN p = 1..Len(p) /\ \A j \in 1..Len(p) : /\ p[j] \in DOMAIN map
                                                     /\ map[p[j]].parent = IF j = 1 THEN 0 ELSE p[j - 1]
    BY <1>5, <2>1, <2>2, ChainsAre
  <2>4. k \in 1..Len(p)
    BY <2>3 DEF p
  <2>5. recorded[p[k]].parent = IF k = 1 THEN 0 ELSE p[k - 1]
    BY <1>4, <2>3, <2>4
  <2> QED BY <2>5 DEF p
<1>8. Max(ends) \in ends /\ \A y \in ends : y <= Max(ends)
  <2>1. ends \in SUBSET (0..instant) /\ ends # {}
    BY <1>2, <1>3
  <2> HIDE DEF ends
  <2>2. PICK x \in ends : \A y \in ends : y <= x
    BY <1>1, <2>1, LatestMoment
  <2>3. \A x2, y \in ends : x2 \in Int /\ y \in Int /\ (y <= x2 <=> x2 >= y)
    BY <1>1, <2>1
  <2> QED BY <2>2, <2>3 DEF Max
<1>9. s.total <= instant
  BY <1>1, <1>2, <1>6, <1>8
<1>10. s.cost <= flushes * DearestCost
  <2>1. \A a, b, c, d \in Nat : b <= c /\ a <= b * d => a <= c * d
    <3> SUFFICES ASSUME NEW a \in Nat, NEW b \in Nat, NEW c \in Nat, NEW d \in Nat, b <= c, a <= b * d
                 PROVE  a <= c * d
      OBVIOUS
    <3>1. c - b \in Nat
      OBVIOUS
    <3>2. (c - b) * d \in Nat
      BY <3>1
    <3>3. c * d = b * d + (c - b) * d
      OBVIOUS
    <3>4. b * d \in Nat /\ c * d \in Nat
      OBVIOUS
    <3> QED BY <3>2, <3>3, <3>4
  <2>2. CostStored \in Nat /\ DearestCost = CostDearest
    BY CostOfStored, CostOfDearest
  <2> QED BY <1>1, <1>6, <2>1, <2>2 DEF StoredCosts
<1>11. ASSUME Len(storedSpans) = Len(recorded), DOMAIN map = D,
              \A k \in K : storedSpans[k].span = recorded[storedSpans[k].id]
       PROVE  s = Waterfall
  <2>1. K = D
    BY <1>1, <1>2, <1>11
  <2>2. map = recorded
    <3>1. \A i \in D : map[i] = recorded[i]
      BY <1>11 DEF DrawnFrom
    <3>2. recorded = [i \in D |-> recorded[i]]
      BY DEF SpansStand
    <3> QED BY Zenon, <1>11, <3>1, <3>2 DEF DrawnFrom
  <2>3. Max({0} \union {EndOf(recorded[i]) : i \in D}) = Max(ends)
    <3>1. {EndOf(recorded[i]) : i \in D} = ends
      <4>1. \A k \in K : storedSpans[k].id \in D /\ storedSpans[k].span = recorded[storedSpans[k].id]
        BY <1>2, <1>11
      <4>2. \A i \in D : \E k \in K : storedSpans[k].id = i
        BY <1>11 DEF DrawnFrom
      <4>3. \A i \in D : EndOf(recorded[i]) \in ends
        <5> SUFFICES ASSUME NEW i \in D
                     PROVE  EndOf(recorded[i]) \in ends
          OBVIOUS
        <5>1. PICK k \in K : storedSpans[k].id = i
          BY <4>2
        <5>2. EndOf(storedSpans[k].span) = EndOf(recorded[i])
          BY <4>1, <5>1
        <5> QED BY <5>2
      <4>4. \A k \in K : EndOf(storedSpans[k].span) \in {EndOf(recorded[i]) : i \in D}
        BY <4>1
      <4> QED BY <4>3, <4>4
    <3>2. \A y \in ends : y \in Nat
      BY <1>1, <1>2
    <3> DEFINE m == Max(ends)
    <3> HIDE DEF ends
    <3>3. m \in ends /\ m \in Nat /\ \A y \in ends : y <= m
      BY <1>8, <3>2
    <3> HIDE DEF m
    <3>4. m \in {0} \union ends /\ \A y \in {0} \union ends : m >= y
      BY <3>2, <3>3
    <3>5. \A x \in {0} \union ends : (\A y \in {0} \union ends : x >= y) => x = m
      BY <3>2, <3>3, <3>4
    <3>6. Max({0} \union ends) = m
      BY <3>4, <3>5 DEF Max
    <3> QED BY <3>1, <3>6 DEF m
  <2>4. CostStored = CostRecorded
    <3> DEFINE h == [k \in D |-> storedSpans[k].id]
    <3>1. {h[k] : k \in D} = D
      BY <1>11, <2>1 DEF DrawnFrom
    <3>2. h \in Surjection(D, D)
      <4>1. h \in [D -> D]
        BY <1>2, <2>1
      <4>2. \A i \in D : \E k \in D : h[k] = i
        BY <1>11, <2>1 DEF DrawnFrom
      <4> QED BY <4>1, <4>2 DEF Surjection
    <3>3. \A k \in D : h[k] = storedSpans[k].id
      OBVIOUS
    <3>4. \A k \in D : CostsRecorded[h[k]] = storedSpans[k].span.cost
      BY <1>2, <1>11, <2>1 DEF CostsRecorded
    <3>5. \A k \in D : h[k] \in D /\ CostsRecorded[h[k]] \in Int
      BY <1>1, <1>2, <2>1 DEF CostsRecorded
    <3> HIDE DEF h
    <3>6. \A x, y \in D : h[x] = h[y] => x = y
      <4>1. h \in Injection(D, D)
        BY <1>1, <3>2, FS_SurjSameCardinalityImpliesInj
      <4>2. \A x, y \in D : h[x] = h[y] => x = y
        BY Zenon, <4>1 DEF Injection, IsInjective
      <4> QED BY Zenon, <4>2
    <3>7. SumOf(CostsRecorded, {h[k] : k \in D}) = SumOf([k \in D |-> CostsRecorded[h[k]]], D)
      <4>1. IsFiniteSet(D) /\ \A k \in D : CostsRecorded[h[k]] \in Int
        BY <1>1, <3>5
      <4> HIDE DEF D, K, ends
      <4> QED BY Zenon, <3>6, <4>1, SumReindexed
    <3>8. [k \in D |-> CostsRecorded[h[k]]] = [k \in K |-> storedSpans[k].span.cost]
      BY <2>1, <3>4
    <3>9. CostStored = SumOf([k \in D |-> CostsRecorded[h[k]]], D)
      BY Zenon, <2>1, <3>8 DEF CostStored
    <3> QED BY Zenon, <3>1, <3>7, <3>9 DEF CostRecorded
  <2>5. Waterfall.cost = CostRecorded
    BY CostOfRecorded
  <2>6. /\ Waterfall = [rows |-> Len(recorded), path |-> LongestChain(recorded),
                        cost |-> Waterfall.cost, total |-> Max(ends)]
    BY <2>3 DEF Waterfall
  <2>7. s = [rows |-> Len(recorded), path |-> LongestChain(map), cost |-> CostStored, total |-> Max(ends)]
    BY <1>11 DEF Shows
  <2> HIDE DEF ends, D, K
  <2> QED BY Zenon, <2>2, <2>4, <2>5, <2>6, <2>7
<1>12. DOMAIN map = {storedSpans[k].id : k \in K}
  BY DEF DrawnFrom
<1> HIDE DEF ends
<1> QED BY <1>6, <1>7, <1>9, <1>10, <1>11, <1>12 DEF Faithful

(* Costs never shrink: spans come in and end while a flush is pending.     *)
SpansAre ==
  /\ DOMAIN recorded = 1..Len(recorded) /\ Len(recorded) \in Nat /\ IsFiniteSet(DOMAIN recorded)
  /\ DOMAIN dearest = DOMAIN recorded /\ CostDearest \in Nat
  /\ \A i \in DOMAIN dearest : dearest[i] \in Nat

LEMMA SpansAlwaysAre == SpansStand => SpansAre
BY SpanFacts DEF SpansAre

LEMMA SpansNextAre == (SpansStand => SpansAre)'
BY SpansAlwaysAre, PTL

LEMMA NothingNextIsFaithful == (SpansStand /\ RowsStand => Faithful(NothingShown))'
BY NothingIsFaithful, PTL

LEMMA NothingStaysFaithful ==
  ASSUME SpansStand', RowsStand', shown' = NothingShown
  PROVE  Faithful(shown)'
<1>1. Faithful(NothingShown)'
  BY NothingNextIsFaithful
<1> QED BY <1>1 DEF Faithful, NothingShown

LEMMA SpansGrow ==
  ASSUME SpansStand, RowsStand, StoredCosts, SpansStand',
         DOMAIN recorded \subseteq DOMAIN recorded',
         \A i \in DOMAIN recorded : /\ recorded'[i].parent = recorded[i].parent
                                    /\ dearest[i] <= dearest'[i],
         instant <= instant', UNCHANGED <<flushing, flushes, storedSpans>>
  PROVE  RowsStand' /\ StoredCosts'
<1>1. /\ DOMAIN recorded = 1..Len(recorded) /\ Len(recorded) \in Nat /\ IsFiniteSet(DOMAIN recorded)
      /\ DOMAIN dearest = DOMAIN recorded /\ CostDearest \in Nat
      /\ \A i \in DOMAIN recorded : dearest[i] \in Nat
  BY SpanFacts
<1>2. /\ DOMAIN recorded' = 1..Len(recorded') /\ Len(recorded') \in Nat /\ IsFiniteSet(DOMAIN recorded')
      /\ DOMAIN dearest' = DOMAIN recorded' /\ CostDearest' \in Nat
      /\ \A i \in DOMAIN recorded' : dearest'[i] \in Nat
  BY SpansNextAre DEF SpansAre
<1>3. Len(recorded) <= Len(recorded')
  <2>1. \A m, n \in Nat : 1..m \subseteq 1..n => m <= n
    <3> SUFFICES ASSUME NEW m \in Nat, NEW n \in Nat, 1..m \subseteq 1..n
                 PROVE  m <= n
      OBVIOUS
    <3>1. m # 0 => m \in 1..m
      OBVIOUS
    <3> QED BY <3>1
  <2> QED BY <1>1, <1>2, <2>1
<1>4. instant \in Nat /\ instant' \in Nat
  BY DEF SpansStand
<1>5. ASSUME NEW row \in StoredRow, RowHolds(row)
      PROVE  /\ row.id \in DOMAIN recorded' /\ row.span.parent = recorded'[row.id].parent
             /\ row.span.cost <= dearest'[row.id]
             /\ EndOf(row.span) <= instant'
  <2>1. row.span \in AgentSpan
    BY DEF StoredRow
  <2>2. row.span.cost \in Nat /\ EndOf(row.span) \in Nat
    BY <2>1 DEF AgentSpan, EndOf
  <2>3. /\ row.id \in DOMAIN recorded /\ row.span.parent = recorded[row.id].parent
        /\ row.span.cost <= dearest[row.id]
        /\ EndOf(row.span) <= instant
    BY <1>5 DEF RowHolds
  <2>4. \A a, b, c \in Nat : a <= b /\ b <= c => a <= c
    OBVIOUS
  <2>5. row.span.cost <= dearest'[row.id]
    BY <1>1, <1>2, <2>2, <2>3, <2>4
  <2>6. EndOf(row.span) <= instant'
    BY <1>4, <2>2, <2>3, <2>4
  <2> QED BY <2>3, <2>5, <2>6
<1>6. RowsStand'
  <2>1. /\ flushes' \in Nat /\ DOMAIN flushing' \subseteq 1..flushes' /\ storedSpans' \in Seq(StoredRow)
    BY DEF RowsStand
  <2>2. ASSUME NEW f \in DOMAIN flushing' PROVE FlushHolds(flushing[f])'
    <3>1. FlushHolds(flushing[f]) /\ flushing' = flushing
      BY DEF RowsStand
    <3> DEFINE rows == flushing[f]
    <3>2. rows \in Seq(StoredRow) /\ Len(rows) <= Len(recorded)
      BY <3>1 DEF FlushHolds
    <3>3. Len(rows) <= Len(recorded')
      <4>1. Len(rows) \in Nat
        BY <3>2
      <4> QED BY <1>1, <1>2, <1>3, <3>2, <4>1
    <3>4. ASSUME NEW k \in DOMAIN rows PROVE rows[k].id = k /\ RowHolds(rows[k])'
      <4>1. rows[k] \in StoredRow /\ rows[k].id = k /\ RowHolds(rows[k])
        BY <3>1, <3>2 DEF FlushHolds
      <4>2. rows' = rows
        BY <3>1
      <4> QED BY <1>5, <4>1, <4>2 DEF RowHolds, EndOf
    <3> QED BY <3>1, <3>2, <3>3, <3>4 DEF FlushHolds
  <2>4. ASSUME NEW k \in DOMAIN storedSpans' PROVE RowHolds(storedSpans[k])'
    <3>1. storedSpans[k] \in StoredRow /\ RowHolds(storedSpans[k]) /\ storedSpans' = storedSpans
      BY DEF RowsStand
    <3> QED BY <1>5, <3>1 DEF RowHolds, EndOf
  <2> QED BY <2>1, <2>2, <2>4 DEF RowsStand
<1>7. CostDearest <= CostDearest'
  <2> DEFINE D == DOMAIN recorded
             E == DOMAIN recorded'
             f == dearest
             g == dearest'
  <2>1. CostDearest = SumOf(f, D) /\ CostDearest' = SumOf(g, E)
    BY <1>1, <1>2 DEF CostDearest
  <2>2. \A i \in D : f[i] \in Int /\ g[i] \in Int /\ f[i] <= g[i]
    BY <1>1, <1>2
  <2>3. \A i \in E : g[i] \in Nat
    BY <1>2
  <2>4. D \in SUBSET E /\ IsFiniteSet(D) /\ IsFiniteSet(E)
    BY <1>1, <1>2
  <2> HIDE DEF f, g, D, E
  <2>5. SumOf(f, D) <= SumOf(g, D)
    BY <2>2, <2>4, SumAtMost
  <2>6. SumOf(g, D) <= SumOf(g, E)
    BY <2>3, <2>4, SumOfNaturals
  <2>7. SumOf(f, D) \in Int /\ SumOf(g, D) \in Int /\ SumOf(g, E) \in Int
    <3>1. \A i \in D : f[i] \in Int /\ g[i] \in Int
      BY <2>2
    <3>2. \A i \in E : g[i] \in Int
      BY <2>3
    <3> QED BY <2>4, <3>1, <3>2, SumType
  <2> QED BY <2>1, <2>5, <2>6, <2>7
<1>8. StoredCosts'
  <2>1. CostStored' = CostStored /\ Flushed' = Flushed
    BY DEF CostStored, Flushed
  <2>2. \A a, b, c, d \in Nat : b <= c /\ a <= d * b => a <= d * c
    <3> SUFFICES ASSUME NEW a \in Nat, NEW b \in Nat, NEW c \in Nat, NEW d \in Nat, b <= c, a <= d * b
                 PROVE  a <= d * c
      OBVIOUS
    <3>1. c - b \in Nat
      OBVIOUS
    <3>2. d * (c - b) \in Nat
      BY <3>1
    <3>3. d * c = d * b + d * (c - b)
      OBVIOUS
    <3>4. d * b \in Nat /\ d * c \in Nat
      OBVIOUS
    <3> QED BY <3>2, <3>3, <3>4
  <2>3. CostStored \in Nat /\ Flushed \in Nat
    BY CostOfStored, FlushedFacts
  <2>4. CostStored <= Flushed * CostDearest
    BY DEF StoredCosts
  <2>5. CostStored <= Flushed * CostDearest'
    BY <1>1, <1>2, <1>7, <2>2, <2>3, <2>4
  <2>6. CostStored' <= Flushed' * CostDearest'
    BY <2>1, <2>5
  <2> QED BY <2>6 DEF StoredCosts
<1> QED BY <1>6, <1>8

LEMMA SpanStepKeeps ==
  ASSUME TracingIInv, StartSpan \/ InstantPasses \/ \E i \in DOMAIN recorded : EndSpan(i)
  PROVE  TracingIInv'
<1>1. SpansStand /\ RowsStand /\ StoredCosts
  BY DEF TracingIInv
<1>2. /\ DOMAIN recorded = 1..Len(recorded) /\ Len(recorded) \in Nat
      /\ \A i \in DOMAIN recorded :
           /\ recorded[i] \in AgentSpan
           /\ recorded[i].parent \in Nat /\ recorded[i].began \in Nat
           /\ recorded[i].duration \in Nat /\ recorded[i].cost \in {0, 1}
           /\ EndOf(recorded[i]) \in 0..instant
           /\ recorded[i].cost <= dearest[i] /\ dearest[i] \in {0, 1}
  <2>1. \A i \in DOMAIN recorded : recorded[i] \in AgentSpan => recorded[i].cost \in {0, 1}
    BY DEF AgentSpan
  <2> QED BY <1>1, <2>1, SpanFacts
<1>3. /\ instant \in Nat /\ recorded \in Seq(AgentSpan)
      /\ dearest \in Seq({0, 1}) /\ Len(dearest) = Len(recorded) /\ DOMAIN dearest = DOMAIN recorded
  BY <1>1, SpanFacts DEF SpansStand
<1>4. UNCHANGED <<flushing, flushes, storedSpans>> /\ shown' = NothingShown
  BY DEF StartSpan, InstantPasses, EndSpan
<1>5. SUFFICES /\ SpansStand'
               /\ DOMAIN recorded \subseteq DOMAIN recorded'
               /\ \A i \in DOMAIN recorded : /\ recorded'[i].parent = recorded[i].parent
                                             /\ dearest[i] <= dearest'[i]
               /\ instant <= instant'
  BY <1>1, <1>4, SpansGrow, NothingStaysFaithful DEF TracingIInv
<1>6. CASE StartSpan
  <2>1. PICK parent \in {0} \union DOMAIN recorded :
          recorded' = Append(recorded, [parent |-> parent, began |-> instant, duration |-> 0, cost |-> 0])
    BY <1>6 DEF StartSpan
  <2> DEFINE new == [parent |-> parent, began |-> instant, duration |-> 0, cost |-> 0]
  <2>2. new \in AgentSpan /\ EndOf(new) = instant /\ new.cost = 0
    <3>1. parent \in Nat
      BY <1>2
    <3> QED BY <1>3, <3>1 DEF AgentSpan, EndOf
  <2> HIDE DEF new
  <2>3. recorded' = Append(recorded, new)
    BY <2>1 DEF new
  <2>4. /\ recorded' \in Seq(AgentSpan) /\ DOMAIN recorded' = 1..Len(recorded) + 1
        /\ recorded'[Len(recorded) + 1] = new
        /\ \A i \in DOMAIN recorded : recorded'[i] = recorded[i]
    BY <1>2, <1>3, <2>2, <2>3
  <2>5. /\ instant' = instant /\ dearest' = Append(dearest, 0)
        /\ dearest' \in Seq({0, 1}) /\ Len(dearest') = Len(recorded')
        /\ dearest'[Len(recorded) + 1] = 0 /\ \A i \in DOMAIN recorded : dearest'[i] = dearest[i]
    BY <1>2, <1>3, <1>6, <2>3 DEF StartSpan
  <2>6. ASSUME NEW i \in DOMAIN recorded' PROVE EndOf(recorded'[i]) <= instant /\ recorded'[i].cost <= dearest'[i]
    <3>1. CASE i \in DOMAIN recorded
      BY <1>2, <1>3, <2>4, <2>5, <3>1
    <3>2. CASE i \notin DOMAIN recorded
      <4>1. i = Len(recorded) + 1
        BY <1>2, <2>4, <3>2
      <4> QED BY <1>3, <2>2, <2>4, <2>5, <4>1
    <3> QED BY <3>1, <3>2
  <2>7. SpansStand'
    BY SMTT(30), <1>3, <2>4, <2>5, <2>6 DEF SpansStand, EndOf
  <2> QED BY SMTT(30), <1>2, <1>3, <2>4, <2>5, <2>7
<1>7. CASE InstantPasses
  <2>1. recorded' = recorded /\ instant' = instant + 1 /\ dearest' = dearest
    BY <1>7 DEF InstantPasses
  <2>2. SpansStand'
    BY SMTT(30), <1>2, <1>3, <2>1 DEF SpansStand, EndOf
  <2> QED BY SMTT(30), <1>2, <1>3, <2>1, <2>2
<1>8. ASSUME NEW i \in DOMAIN recorded, EndSpan(i)
      PROVE  /\ SpansStand'
             /\ DOMAIN recorded \subseteq DOMAIN recorded'
             /\ \A j \in DOMAIN recorded : /\ recorded'[j].parent = recorded[j].parent
                                           /\ dearest[j] <= dearest'[j]
             /\ instant <= instant'
  <2>1. PICK cost \in {0, 1} :
          /\ recorded' = [recorded EXCEPT ![i].duration = instant - recorded[i].began, ![i].cost = cost]
          /\ dearest' = [dearest EXCEPT ![i] = IF cost > @ THEN cost ELSE @]
    BY <1>8 DEF EndSpan
  <2> DEFINE new == [recorded[i] EXCEPT !.duration = instant - recorded[i].began, !.cost = cost]
             most == IF cost > dearest[i] THEN cost ELSE dearest[i]
  <2>2. recorded' = [recorded EXCEPT ![i] = new] /\ instant' = instant /\ dearest' = [dearest EXCEPT ![i] = most]
    BY <1>8, <2>1 DEF EndSpan
  <2>3. recorded[i].began <= instant
    BY <1>2, <1>3 DEF EndOf
  <2>4. /\ new \in AgentSpan /\ new.parent = recorded[i].parent /\ new.cost = cost
        /\ EndOf(new) = instant
    <3>1. instant - recorded[i].began \in Nat
      BY <1>2, <1>3, <2>3
    <3>2. recorded[i].began + (instant - recorded[i].began) = instant
      BY <1>2, <1>3
    <3> QED BY <1>2, <3>1, <3>2 DEF AgentSpan, EndOf
  <2>5. most \in {0, 1} /\ cost <= most /\ dearest[i] <= most
    BY <1>2
  <2> HIDE DEF new, most
  <2>6. /\ recorded' \in Seq(AgentSpan) /\ DOMAIN recorded' = DOMAIN recorded /\ Len(recorded') = Len(recorded)
        /\ recorded'[i] = new /\ \A j \in DOMAIN recorded \ {i} : recorded'[j] = recorded[j]
    BY <1>3, <2>2, <2>4
  <2>7. /\ dearest' \in Seq({0, 1}) /\ Len(dearest') = Len(recorded')
        /\ dearest'[i] = most /\ \A j \in DOMAIN recorded \ {i} : dearest'[j] = dearest[j]
    BY <1>3, <2>2, <2>5, <2>6
  <2>8. ASSUME NEW j \in DOMAIN recorded' PROVE EndOf(recorded'[j]) <= instant /\ recorded'[j].cost <= dearest'[j]
    <3>1. CASE j = i
      BY <1>3, <2>4, <2>5, <2>6, <2>7, <3>1
    <3>2. CASE j # i
      <4>1. j \in DOMAIN recorded /\ recorded'[j] = recorded[j] /\ dearest'[j] = dearest[j]
        BY <2>6, <2>7, <3>2
      <4> QED BY <1>2, <1>3, <4>1
    <3> QED BY <3>1, <3>2
  <2>9. SpansStand'
    <3>1. \A j \in DOMAIN recorded' : recorded'[j].cost <= dearest'[j]
      BY <2>8
    <3>2. \A j \in DOMAIN recorded' : (EndOf(recorded[j]) <= instant)'
      BY <2>2, <2>8 DEF EndOf
    <3>3. /\ instant' \in Nat /\ recorded' \in Seq(AgentSpan)
          /\ dearest' \in Seq({0, 1}) /\ Len(dearest') = Len(recorded')
      BY <1>3, <2>2, <2>6, <2>7
    <3> QED BY Zenon, <3>1, <3>2, <3>3 DEF SpansStand
  <2>10. \A j \in DOMAIN recorded : /\ recorded'[j].parent = recorded[j].parent
                                    /\ dearest[j] <= dearest'[j]
    <3> SUFFICES ASSUME NEW j \in DOMAIN recorded
                 PROVE  recorded'[j].parent = recorded[j].parent /\ dearest[j] <= dearest'[j]
      BY Zenon
    <3>1. CASE j = i
      BY <2>4, <2>5, <2>6, <2>7, <3>1
    <3>2. CASE j # i
      <4>1. recorded'[j] = recorded[j] /\ dearest'[j] = dearest[j] /\ dearest[j] \in {0, 1}
        BY <1>2, <2>6, <2>7, <3>2
      <4> QED BY <4>1
    <3> QED BY <3>1, <3>2
  <2> QED BY <1>3, <2>2, <2>6, <2>9, <2>10
<1> QED BY <1>6, <1>7, <1>8

(* A flush: the rows made, inserted or lost.                               *)
LEMMA RowsTravel ==
  ASSUME UNCHANGED <<instant, recorded, dearest>>, NEW row, RowHolds(row)
  PROVE  RowHolds(row)'
BY DEF RowHolds, EndOf

LEMMA FlushTravels ==
  ASSUME UNCHANGED <<instant, recorded, dearest>>, NEW rows, FlushHolds(rows)
  PROVE  FlushHolds(rows)'
BY RowsTravel DEF FlushHolds, RowHolds, EndOf

LEMMA BeginFlushKeeps ==
  ASSUME TracingIInv, BeginFlush
  PROVE  TracingIInv'
<1>1. SpansStand /\ RowsStand /\ StoredCosts
  BY DEF TracingIInv
<1> DEFINE made == [i \in DOMAIN recorded |-> [id |-> i, span |-> recorded[i]]]
<1>2. /\ flushes' = flushes + 1
      /\ flushing' = [f \in DOMAIN flushing \union {flushes + 1} |->
                        IF f = flushes + 1 THEN made ELSE flushing[f]]
      /\ UNCHANGED <<instant, recorded, dearest, storedSpans>> /\ shown' = NothingShown
  BY DEF BeginFlush
<1>3. /\ DOMAIN recorded = 1..Len(recorded) /\ Len(recorded) \in Nat
      /\ \A i \in DOMAIN recorded :
           /\ recorded[i] \in AgentSpan /\ recorded[i].cost \in Nat /\ EndOf(recorded[i]) \in 0..instant
           /\ recorded[i].cost <= dearest[i]
  BY <1>1, SpanFacts
<1>4. SpansStand'
  BY <1>1, <1>2 DEF SpansStand, EndOf
<1> DEFINE rows == [i \in 1..Len(recorded) |-> [id |-> i, span |-> recorded[i]]]
<1>5. made = rows
  BY <1>3
<1>6. rows \in Seq(StoredRow) /\ Len(rows) = Len(recorded) /\ DOMAIN rows = 1..Len(recorded)
  <2>1. \A i \in 1..Len(recorded) : rows[i] \in StoredRow
    BY <1>3 DEF StoredRow
  <2> QED BY <1>3, <2>1
<1>7. ASSUME NEW i \in 1..Len(recorded) PROVE rows[i].id = i /\ RowHolds(rows[i])
  <2>1. rows[i] = [id |-> i, span |-> recorded[i]]
    OBVIOUS
  <2>2. /\ recorded[i].cost <= dearest[i]
        /\ EndOf(recorded[i]) <= instant /\ i \in DOMAIN recorded
    BY <1>1, <1>3 DEF SpansStand
  <2> HIDE DEF rows, made
  <2>3. rows[i].id = i /\ rows[i].span = recorded[i]
    BY <2>1
  <2> QED BY <2>2, <2>3 DEF RowHolds
<1>8. Len(rows) <= Len(recorded)
  BY <1>3, <1>6
<1> HIDE DEF rows, made
<1>9. FlushHolds(rows)
  BY <1>6, <1>7, <1>8 DEF FlushHolds
<1>10. /\ flushes \in Nat /\ DOMAIN flushing \subseteq 1..flushes
       /\ DOMAIN flushing' = DOMAIN flushing \union {flushes + 1}
       /\ flushing'[flushes + 1] = rows /\ \A f \in DOMAIN flushing : flushing'[f] = flushing[f]
  <2>1. flushes \in Nat /\ DOMAIN flushing \subseteq 1..flushes
    BY <1>1 DEF RowsStand
  <2>2. flushes + 1 \notin DOMAIN flushing
    BY <2>1
  <2> QED BY <1>2, <1>5, <2>1, <2>2
<1>11. RowsStand'
  <2>1. flushes' \in Nat /\ DOMAIN flushing' \subseteq 1..flushes'
    BY <1>2, <1>10
  <2>2. ASSUME NEW f \in DOMAIN flushing' PROVE FlushHolds(flushing[f])'
    <3>1. PICK kept : kept = flushing'[f]
      OBVIOUS
    <3>2. FlushHolds(kept)
      BY <1>1, <1>9, <1>10, <3>1 DEF RowsStand
    <3>3. FlushHolds(kept)'
      BY <1>2, <3>2, FlushTravels
    <3> QED BY <3>1, <3>3 DEF FlushHolds
  <2>3. ASSUME NEW k \in DOMAIN storedSpans' PROVE RowHolds(storedSpans[k])'
    BY <1>1, <1>2 DEF RowsStand, RowHolds, EndOf
  <2>4. storedSpans' \in Seq(StoredRow)
    BY <1>1, <1>2 DEF RowsStand
  <2> QED BY <2>1, <2>2, <2>3, <2>4 DEF RowsStand
<1>12. StoredCosts'
  <2>1. Cardinality(DOMAIN flushing') = Cardinality(DOMAIN flushing) + 1
    <3>1. IsFiniteSet(DOMAIN flushing) /\ flushes + 1 \notin DOMAIN flushing
      BY <1>1, <1>10, FlushedFacts
    <3> QED BY <1>10, <3>1, FS_AddElement
  <2>2. CostStored' = CostStored /\ CostDearest' = CostDearest
    BY <1>2 DEF CostStored, CostDearest
  <2>3. Flushed' = Flushed
    <3>1. Cardinality(DOMAIN flushing) \in Nat
      BY <1>1, FlushedFacts
    <3> QED BY <1>2, <1>10, <2>1, <3>1 DEF Flushed
  <2> QED BY <1>1, <2>2, <2>3 DEF StoredCosts
<1> QED BY <1>2, <1>4, <1>11, <1>12, NothingStaysFaithful DEF TracingIInv

(* What was flushed costs no more than what was recorded.                  *)
LEMMA RowsInserted ==
  ASSUME SpansStand, RowsStand, NEW rows, FlushHolds(rows), NEW all, all = storedSpans \o rows
  PROVE  /\ all \in Seq(StoredRow) /\ \A k \in DOMAIN all : RowHolds(all[k])
         /\ SumOf([k \in DOMAIN all |-> all[k].span.cost], DOMAIN all) \in Nat
         /\ SumOf([k \in DOMAIN all |-> all[k].span.cost], DOMAIN all) <= CostStored + CostDearest
<1> DEFINE m == Len(storedSpans)
           n == Len(rows)
           D == DOMAIN recorded
           f == [k \in 1..(m + n) |-> all[k].span.cost]
           g == [k \in 1..m |-> storedSpans[k].span.cost]
           h == [i \in 1..n |-> m + i]
           b == [i \in 1..n |-> f[h[i]]]
<1>1. /\ storedSpans \in Seq(StoredRow) /\ \A k \in DOMAIN storedSpans : RowHolds(storedSpans[k])
      /\ rows \in Seq(StoredRow) /\ n <= Len(recorded)
      /\ \A k \in DOMAIN rows : rows[k].id = k /\ RowHolds(rows[k])
  BY DEF RowsStand, FlushHolds
<1> HIDE DEF m, n, D, f, g, h, b
<1>2. /\ DOMAIN storedSpans = 1..m /\ m \in Nat
      /\ \A k \in 1..m : storedSpans[k].span.cost \in Nat
  <2>1. /\ DOMAIN storedSpans = 1..Len(storedSpans) /\ Len(storedSpans) \in Nat
        /\ \A k \in DOMAIN storedSpans : storedSpans[k].span.cost \in Nat
    BY SMTT(30), <1>1, StoredFacts
  <2> QED BY <2>1 DEF m
<1>3. /\ DOMAIN rows = 1..n /\ n \in Nat
      /\ \A k \in 1..n : /\ rows[k].span.cost \in Nat
                         /\ rows[k].span.cost <= dearest[k]
  <2>1. /\ DOMAIN rows = 1..Len(rows) /\ Len(rows) \in Nat
        /\ \A k \in DOMAIN rows : /\ rows[k].span.cost \in Nat
                                      /\ rows[k].span.cost <= dearest[rows[k].id]
    BY SMTT(30), <1>1, StoredFacts
  <2> QED BY <1>1, <2>1 DEF n
<1> USE DEF m, n, D, f, g, h, b
<1>4. /\ all \in Seq(StoredRow) /\ DOMAIN all = 1..(m + n)
      /\ \A k \in 1..m : all[k] = storedSpans[k]
      /\ \A i \in 1..n : all[m + i] = rows[i]
  BY <1>1, <1>2, <1>3
<1>5. \A k \in 1..(m + n) : k \in 1..m \/ \E i \in 1..n : k = m + i
  <2>1. \A a, c \in Nat : \A k \in 1..(a + c) : k \in 1..a \/ (k - a \in 1..c /\ k = a + (k - a))
    OBVIOUS
  <2> QED BY <1>2, <1>3, <2>1
<1>6. \A k \in 1..(m + n) : RowHolds(all[k])
  <2> SUFFICES ASSUME NEW k \in 1..(m + n)
               PROVE  RowHolds(all[k])
    OBVIOUS
  <2>1. CASE k \in 1..m
    BY <1>1, <1>2, <1>4, <2>1
  <2>2. ASSUME NEW i \in 1..n, k = m + i PROVE RowHolds(all[k])
    BY <1>1, <1>3, <1>4, <2>2
  <2> QED BY <1>5, <2>1, <2>2
<1>7. /\ D = 1..Len(recorded) /\ Len(recorded) \in Nat /\ IsFiniteSet(D)
      /\ \A i \in D : dearest[i] \in Nat
      /\ CostDearest \in Nat /\ DOMAIN dearest = D
  BY SpanFacts
<1>8. IsFiniteSet(1..m) /\ IsFiniteSet(1..n) /\ IsFiniteSet(1..(m + n))
  BY <1>2, <1>3, FS_Interval
<1>9. \A k \in 1..(m + n) : f[k] \in Nat
  <2> SUFFICES ASSUME NEW k \in 1..(m + n)
               PROVE  f[k] \in Nat
    OBVIOUS
  <2>1. f[k] = all[k].span.cost
    OBVIOUS
  <2>2. CASE k \in 1..m
    BY <1>2, <1>4, <2>1, <2>2
  <2>3. ASSUME NEW i \in 1..n, k = m + i PROVE f[k] \in Nat
    BY <1>3, <1>4, <2>1, <2>3
  <2> QED BY <1>5, <2>2, <2>3
<1>10. \A i \in 1..n : h[i] = m + i /\ h[i] \in 1..(m + n)
  BY <1>2, <1>3
<1>11. {h[i] : i \in 1..n} \union (1..m) = 1..(m + n) /\ (1..m) \intersect {h[i] : i \in 1..n} = {}
  <2>1. \A k \in 1..m : k \in 1..(m + n)
    BY <1>2, <1>3
  <2>2. \A i \in 1..n : m + i \notin 1..m
    BY <1>2, <1>3
  <2> HIDE DEF h, m, n
  <2> QED BY <1>5, <1>10, <2>1, <2>2
<1>12. \A k \in 1..m : f[k] = g[k] /\ g[k] \in Int
  <2>1. \A k \in 1..m : k \in 1..(m + n)
    BY <1>2, <1>3
  <2> QED BY <1>2, <1>4, <2>1
<1>13. \A i \in 1..n : b[i] \in Int /\ b[i] \in Nat /\ b[i] <= dearest[i] /\ i \in D /\ dearest[i] \in Int
  <2> SUFFICES ASSUME NEW i \in 1..n
               PROVE  /\ b[i] \in Int /\ b[i] \in Nat /\ b[i] <= dearest[i] /\ i \in D
                      /\ dearest[i] \in Int
    BY Zenon
  <2>1. b[i] = rows[i].span.cost
    BY <1>4, <1>10
  <2>2. i \in D
    BY <1>1, <1>3, <1>7
  <2> HIDE DEF b, f, g, h, D, m, n
  <2>3. rows[i].span.cost \in Nat /\ rows[i].span.cost <= dearest[i] /\ dearest[i] \in Nat
    BY <1>3, <1>7, <2>2
  <2> QED BY <2>1, <2>2, <2>3
<1>14. /\ CostStored = SumOf(g, 1..m) /\ CostDearest = SumOf(dearest, D)
       /\ [k \in DOMAIN all |-> all[k].span.cost] = f
  BY <1>2, <1>4, <1>7 DEF CostStored, CostDearest
<1>15. \A i \in D : dearest[i] \in Nat
  BY <1>7
<1>16. 1..n \in SUBSET D
  BY <1>13
<1>17. \A i \in 1..n : b[i] = f[h[i]]
  OBVIOUS
<1> DEFINE T == {h[i] : i \in 1..n}
<1>18. b = [i \in 1..n |-> f[h[i]]]
  OBVIOUS
<1> HIDE DEF f, g, b, D, m, n
<1>19. SumOf(f, T) = SumOf(b, 1..n)
  <2>1. \A i, j \in 1..n : h[i] = h[j] => i = j
    BY <1>2, <1>3, <1>10
  <2>2. \A i \in 1..n : f[h[i]] \in Int
    BY <1>13, <1>17
  <2> HIDE DEF h
  <2>3. SumOf(f, {h[i] : i \in 1..n}) = SumOf([i \in 1..n |-> f[h[i]]], 1..n)
    BY <1>8, <2>1, <2>2, SumReindexed
  <2> QED BY Zenon, <1>18, <2>3
<1>20. IsFiniteSet(T)
  <2> HIDE DEF h
  <2> QED BY <1>8, ImageIsFinite
<1> HIDE DEF h, T
<1>21. SumOf(f, (1..m) \union T) = SumOf(f, 1..m) + SumOf(f, T)
  <2>1. (1..m) \intersect T = {} /\ (1..m) \union T = 1..(m + n)
    BY <1>11 DEF T
  <2>2. \A k \in (1..m) \union T : f[k] \in Int
    BY <1>9, <2>1
  <2> QED BY <1>8, <1>20, <2>1, <2>2, SumOfUnion
<1>22. (1..m) \union T = 1..(m + n)
  BY <1>11 DEF T
<1>23. SumOf(f, 1..m) = SumOf(g, 1..m) /\ SumOf(g, 1..m) \in Int
  <2>1. \A k \in 1..m : f[k] \in Int /\ f[k] = g[k] /\ g[k] \in Int
    BY <1>12
  <2> QED BY <1>8, <2>1, SumAgrees, SumType
<1>24. SumOf(b, 1..n) <= SumOf(dearest, 1..n)
  BY <1>8, <1>13, SumAtMost
<1>25. SumOf(dearest, 1..n) <= SumOf(dearest, D)
  BY <1>7, <1>15, <1>16, SumOfNaturals
<1>26. /\ SumOf(b, 1..n) \in Int /\ SumOf(dearest, 1..n) \in Int
       /\ SumOf(dearest, D) \in Int
  <2>1. \A i \in 1..n : b[i] \in Int /\ dearest[i] \in Int
    BY <1>13
  <2>2. \A i \in D : dearest[i] \in Int
    BY <1>15
  <2> QED BY <1>7, <1>8, <2>1, <2>2, SumType
<1>27. SumOf(f, 1..(m + n)) \in Nat
  BY <1>8, <1>9, SumOfNaturals
<1>28. SumOf(f, 1..(m + n)) <= CostStored + CostDearest
  <2>1. SumOf(f, 1..(m + n)) = SumOf(g, 1..m) + SumOf(b, 1..n)
    BY <1>19, <1>21, <1>22, <1>23
  <2> QED BY <1>14, <1>23, <1>24, <1>25, <1>26, <2>1
<1>29. DOMAIN all = 1..(m + n)
  BY <1>4
<1> QED BY Zenon, <1>4, <1>6, <1>14, <1>27, <1>28, <1>29

LEMMA InsertKeeps ==
  ASSUME TracingIInv, NEW f \in DOMAIN flushing, InsertSpans(f) \/ InsertSpansFails(f)
  PROVE  TracingIInv'
<1>1. SpansStand /\ RowsStand /\ StoredCosts
  BY DEF TracingIInv
<1>2. /\ flushing' = [g \in DOMAIN flushing \ {f} |-> flushing[g]]
      /\ storedSpans' \in {storedSpans, storedSpans \o flushing[f]}
      /\ UNCHANGED <<instant, recorded, dearest, flushes>> /\ shown' = NothingShown
  BY DEF InsertSpans, InsertSpansFails, FlushEnds
<1>3. SpansStand'
  BY <1>1, <1>2 DEF SpansStand, EndOf
<1>4. /\ Flushed \in Nat /\ Flushed' = Flushed + 1
      /\ flushes \in Nat /\ DOMAIN flushing \subseteq 1..flushes /\ FlushHolds(flushing[f])
  <2>1. IsFiniteSet(DOMAIN flushing) /\ Cardinality(DOMAIN flushing) \in Nat /\ Flushed \in Nat /\ flushes \in Nat
    BY <1>1, FlushedFacts DEF RowsStand
  <2>2. DOMAIN flushing' = DOMAIN flushing \ {f}
    BY <1>2
  <2>3. Cardinality(DOMAIN flushing') = Cardinality(DOMAIN flushing) - 1
    BY <2>1, <2>2, FS_RemoveElement
  <2> QED BY <1>1, <1>2, <2>1, <2>3 DEF Flushed, RowsStand
<1>5. /\ storedSpans' \in Seq(StoredRow) /\ \A k \in DOMAIN storedSpans' : RowHolds(storedSpans'[k])
      /\ CostStored' \in Nat /\ CostStored' <= CostStored + CostDearest
  <2>1. CASE storedSpans' = storedSpans
    <3>1. CostStored' = CostStored /\ CostStored \in Nat /\ CostDearest \in Nat
      BY <1>1, <2>1, CostOfStored, SpanFacts DEF CostStored
    <3> QED BY <1>1, <2>1, <3>1 DEF RowsStand
  <2>2. CASE storedSpans' = storedSpans \o flushing[f]
    <3>1. CostStored' = SumOf([k \in DOMAIN storedSpans' |-> storedSpans'[k].span.cost], DOMAIN storedSpans')
      BY DEF CostStored
    <3>2. PICK rows : rows = flushing[f]
      OBVIOUS
    <3> QED BY <1>1, <1>4, <2>2, <3>1, <3>2, RowsInserted
  <2> QED BY <1>2, <2>1, <2>2
<1>6. RowsStand'
  <2>1. ASSUME NEW g \in DOMAIN flushing' PROVE FlushHolds(flushing[g])'
    <3>1. PICK rows : rows = flushing[g]
      OBVIOUS
    <3>2. FlushHolds(rows) /\ flushing'[g] = rows
      BY <1>1, <1>2, <3>1 DEF RowsStand
    <3>3. FlushHolds(rows)'
      BY <1>2, <3>2, FlushTravels
    <3> QED BY <3>2, <3>3 DEF FlushHolds
  <2>2. ASSUME NEW k \in DOMAIN storedSpans' PROVE RowHolds(storedSpans[k])'
    <3>1. PICK row : row = storedSpans'[k]
      OBVIOUS
    <3>2. RowHolds(row)'
      BY <1>2, <1>5, <3>1, RowsTravel
    <3> QED BY <3>1, <3>2 DEF RowHolds
  <2> QED BY <1>2, <1>4, <1>5, <2>1, <2>2 DEF RowsStand
<1>7. StoredCosts'
  <2>1. CostDearest' = CostDearest /\ CostDearest \in Nat /\ CostStored \in Nat
    BY <1>1, <1>2, SpanFacts, CostOfStored DEF CostDearest
  <2>2. \A a, b, c, d \in Nat : c <= a + b /\ a <= d * b => c <= (d + 1) * b
    <3> SUFFICES ASSUME NEW a \in Nat, NEW b \in Nat, NEW c \in Nat, NEW d \in Nat, c <= a + b, a <= d * b
                 PROVE  c <= (d + 1) * b
      OBVIOUS
    <3>1. (d + 1) * b = d * b + b /\ d * b \in Nat
      OBVIOUS
    <3> QED BY <3>1
  <2>4. CostStored <= Flushed * CostDearest
    BY <1>1 DEF StoredCosts
  <2>5. CostStored' <= (Flushed + 1) * CostDearest
    BY <1>4, <1>5, <2>1, <2>2, <2>4
  <2> QED BY <1>4, <2>1, <2>5 DEF StoredCosts
<1> QED BY <1>2, <1>3, <1>6, <1>7, NothingStaysFaithful DEF TracingIInv

WaterfallIs ==
  Waterfall = [rows |-> Len(recorded), path |-> LongestChain(recorded), cost |-> CostRecorded,
               total |-> Max({0} \union {EndOf(recorded[i]) : i \in DOMAIN recorded})]

LEMMA WaterfallAlwaysIs == SpansStand => WaterfallIs
<1> SUFFICES ASSUME SpansStand
             PROVE  WaterfallIs
  OBVIOUS
<1>1. Waterfall.cost = CostRecorded
  BY CostOfRecorded
<1>2. Waterfall = [rows |-> Len(recorded), path |-> LongestChain(recorded), cost |-> Waterfall.cost,
                   total |-> Max({0} \union {EndOf(recorded[i]) : i \in DOMAIN recorded})]
  BY DEF Waterfall
<1> QED BY Zenon, <1>1, <1>2 DEF WaterfallIs

LEMMA WaterfallNextIs == (SpansStand => WaterfallIs)'
BY WaterfallAlwaysIs, PTL

LEMMA SameWaterfall ==
  ASSUME SpansStand, SpansStand', recorded' = recorded
  PROVE  Waterfall' = Waterfall
<1>1. WaterfallIs /\ WaterfallIs'
  BY WaterfallAlwaysIs, WaterfallNextIs
<1> QED BY <1>1 DEF WaterfallIs, CostRecorded, CostsRecorded, EndOf

LEMMA DearestAlwaysIs == SpansStand => DearestCost = CostDearest
BY CostOfDearest

LEMMA DearestNextIs == (SpansStand => DearestCost = CostDearest)'
BY DearestAlwaysIs, PTL

LEMMA SameDearest ==
  ASSUME SpansStand, SpansStand', dearest' = dearest
  PROVE  DearestCost' = DearestCost
<1>1. DearestCost = CostDearest /\ DearestCost' = CostDearest'
  BY DearestAlwaysIs, DearestNextIs
<1> QED BY <1>1 DEF CostDearest

LEMMA LoadKeeps ==
  ASSUME TracingIInv, LoadWaterfall
  PROVE  TracingIInv'
<1>1. SpansStand /\ RowsStand /\ StoredCosts
  BY DEF TracingIInv
<1>2. storedSpans # <<>> /\ UNCHANGED <<instant, recorded, dearest, flushing, flushes, storedSpans>>
  BY DEF LoadWaterfall
<1> DEFINE ids == {storedSpans[k].id : k \in DOMAIN storedSpans}
           rowsOf(i) == {storedSpans[k].span : k \in {m \in DOMAIN storedSpans : storedSpans[m].id = i}}
<1>3. PICK map \in {f \in [ids -> UNION {rowsOf(i) : i \in ids}] : \A i \in ids : f[i] \in rowsOf(i)} :
        shown' = [rows |-> Len(storedSpans), path |-> LongestChain(map),
                  cost |-> MapThenSumSet(LAMBDA k : storedSpans[k].span.cost, DOMAIN storedSpans),
                  total |-> Max({EndOf(storedSpans[k].span) : k \in DOMAIN storedSpans})]
  BY DEF LoadWaterfall
<1>4. DrawnFrom(map)
  <2>1. map \in [ids -> UNION {rowsOf(i) : i \in ids}] /\ \A i \in ids : map[i] \in rowsOf(i)
    BY <1>3
  <2>2. DOMAIN map = ids /\ map = [i \in ids |-> map[i]]
    BY <2>1
  <2>3. \A i \in ids : \E k \in DOMAIN storedSpans : storedSpans[k].id = i /\ map[i] = storedSpans[k].span
    BY <2>1
  <2> QED BY <2>2, <2>3 DEF DrawnFrom
<1>5. PICK s : s = shown'
  OBVIOUS
<1>6. Shows(s, map)
  BY <1>1, <1>3, <1>5, CostOfStored DEF Shows
<1>7. Faithful(s)
  BY <1>1, <1>2, <1>4, <1>6, LoadIsFaithful
<1>8. Waterfall' = Waterfall
  <2>1. SpansStand'
    BY <1>1, <1>2 DEF SpansStand, EndOf
  <2> QED BY <1>1, <1>2, <2>1, SameWaterfall
<1>9. Faithful(shown)'
  <2>1. DearestCost' = DearestCost
    <3>1. SpansStand'
      BY <1>1, <1>2 DEF SpansStand, EndOf
    <3> QED BY <1>1, <1>2, <3>1, SameDearest
  <2>2. Faithful(s)'
    BY <1>2, <1>7, <1>8, <2>1 DEF Faithful
  <2> QED BY <1>5, <2>2 DEF Faithful
<1>10. SpansStand' /\ RowsStand' /\ StoredCosts'
  BY <1>1, <1>2 DEF SpansStand, RowsStand, StoredCosts, RowHolds, FlushHolds, EndOf,
     Flushed, CostStored, CostDearest
<1> QED BY <1>9, <1>10 DEF TracingIInv

LEMMA LoadNothingKeeps ==
  ASSUME TracingIInv, LoadNothing
  PROVE  TracingIInv'
<1>1. /\ UNCHANGED <<instant, recorded, dearest, flushing, flushes, storedSpans>> /\ shown' = NothingShown
      /\ SpansStand /\ RowsStand /\ StoredCosts
  BY DEF TracingIInv, LoadNothing
<1>2. SpansStand' /\ RowsStand' /\ StoredCosts'
  BY <1>1 DEF SpansStand, RowsStand, StoredCosts, RowHolds, FlushHolds, EndOf,
     Flushed, CostStored, CostDearest
<1> QED BY <1>1, <1>2, NothingStaysFaithful DEF TracingIInv

LEMMA InitTracing == TracingInit => TracingIInv
<1> SUFFICES ASSUME TracingInit
             PROVE  TracingIInv
  OBVIOUS
<1>1. /\ instant = 0 /\ recorded = <<>> /\ dearest = <<>> /\ flushing = NoFlushes /\ flushes = 0
      /\ storedSpans = <<>> /\ shown = NothingShown
  BY DEF TracingInit
<1>2. SpansStand
  BY <1>1 DEF SpansStand
<1>3. DOMAIN flushing = {}
  BY <1>1 DEF NoFlushes
<1>4. RowsStand
  BY <1>1, <1>3 DEF RowsStand
<1>5. StoredCosts
  <2>1. CostStored = 0
    <3>1. DOMAIN storedSpans = {}
      BY <1>1
    <3> QED BY <3>1, SumOfNothing DEF CostStored
  <2>2. Flushed = 0 /\ CostDearest \in Nat
    <3>1. Cardinality({}) = 0
      BY FS_EmptySet
    <3> QED BY <1>1, <1>2, <1>3, <3>1, SpanFacts DEF Flushed
  <2> QED BY <2>1, <2>2 DEF StoredCosts
<1> QED BY <1>1, <1>2, <1>4, <1>5, NothingIsFaithful DEF TracingIInv

LEMMA StepTracing == TracingIInv /\ [TracingNext]_tracingVars => TracingIInv'
<1> SUFFICES ASSUME TracingIInv, [TracingNext]_tracingVars
             PROVE  TracingIInv'
  OBVIOUS
<1>1. CASE StartSpan \/ InstantPasses \/ \E i \in DOMAIN recorded : EndSpan(i)
  BY Zenon, <1>1, SpanStepKeeps
<1>2. CASE BeginFlush
  BY <1>2, BeginFlushKeeps
<1>3. CASE \E f \in DOMAIN flushing : InsertSpans(f) \/ InsertSpansFails(f)
  BY <1>3, InsertKeeps
<1>4. CASE LoadWaterfall
  BY <1>4, LoadKeeps
<1>5. CASE LoadNothing
  BY <1>5, LoadNothingKeeps
<1>6. CASE UNCHANGED tracingVars
  <2>1. UNCHANGED <<instant, recorded, dearest, flushing, flushes, storedSpans, shown>>
    BY <1>6 DEF tracingVars
  <2>2. Waterfall' = Waterfall
    <3>1. SpansStand /\ SpansStand'
      BY <2>1 DEF TracingIInv, SpansStand, EndOf
    <3> QED BY <2>1, <3>1, SameWaterfall
  <2>3. SpansStand' /\ RowsStand' /\ StoredCosts'
    BY <2>1 DEF TracingIInv, SpansStand, RowsStand, StoredCosts, RowHolds, FlushHolds, EndOf,
       Flushed, CostStored, CostDearest
  <2>4. Faithful(shown)'
    <3>1. DearestCost' = DearestCost
      BY <2>1, <2>3, SameDearest DEF TracingIInv
    <3> QED BY <2>1, <2>2, <3>1 DEF TracingIInv, Faithful
  <2> QED BY <2>3, <2>4 DEF TracingIInv
<1> QED BY Zenon, <1>1, <1>2, <1>3, <1>4, <1>5, <1>6 DEF TracingNext

(* For any execution, whatever was flushed when, also by flushes that      *)
(* await at once, failed or was flushed again while spans ended: a loaded  *)
(* waterfall shows a path of recorded spans, no more time than has passed, *)
(* the greatest cost of each span at most once per flush, and, of one      *)
(* flush after the last span ended, exactly what was recorded              *)
(* (tracing.py).                                                           *)
THEOREM WaterfallsStayFaithful == TracingSpec => []WaterfallsAreFaithful
<1>1. TracingIInv => WaterfallsAreFaithful
  BY DEF TracingIInv, Faithful, WaterfallsAreFaithful, LoadedOnce, DearestCost
<1> QED BY <1>1, InitTracing, StepTracing, PTL DEF TracingSpec

=============================================================================
