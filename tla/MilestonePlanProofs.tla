--------------------------- MODULE MilestonePlanProofs ---------------------------
(* Theorems about the plan and its rules, for every set of milestones and  *)
(* plan files.                                                             *)
EXTENDS MilestonePlan, FiniteSetTheorems, SequenceTheorems, TLAPS

---------------------------------------------------------------------------
(* Least elements: what stands here for induction.                         *)

LEMMA LeastExists ==
  ASSUME NEW S \in SUBSET Nat, S # {}
  PROVE  \E m \in S : \A n \in S : m <= n
<1>1. PICK m \in S : \A n \in S : ~(<<n, m>> \in OpToRel(<, Nat))
  BY NatLessThanWellFounded, WFMin, Zenon
<1>2. \A n \in S : ~(n < m)
  BY <1>1 DEF OpToRel
<1> QED
  BY <1>2

HasMinimal(F) == \E T \in F : \A U \in F : U \subseteq T => U = T

LEMMA MinimalSubset ==
  ASSUME NEW S, IsFiniteSet(S), NEW F \in SUBSET (SUBSET S), F # {}
  PROVE  HasMinimal(F)
<1>1. IsWellFoundedOn(StrictSubsetOrdering(S), SUBSET S)
  BY FS_StrictSubsetOrderingWellFounded, FS_FiniteSubsetsOfFinite
<1>2. PICK T \in F : \A U \in F : ~(<<U, T>> \in StrictSubsetOrdering(S))
  BY <1>1, WFMin, Zenon
<1> QED
  BY <1>2 DEF StrictSubsetOrdering, HasMinimal

(* The greatest of zero and the values of a function on a finite set.      *)
LEMMA GreatestValue ==
  ASSUME NEW S, IsFiniteSet(S), NEW f, \A x \in S : f[x] \in Int
  PROVE  \E m \in {0} \union {f[x] : x \in S} :
           \A n \in {0} \union {f[x] : x \in S} : m >= n
<1> DEFINE Has(T) == \E m \in {0} \union {f[x] : x \in T} :
                       \A n \in {0} \union {f[x] : x \in T} : m >= n
           F == {T \in SUBSET S : ~Has(T)}
<1> SUFFICES ASSUME F # {} PROVE FALSE
  OBVIOUS
<1>1. PICK T \in F : \A U \in F : U \subseteq T => U = T
  <2> HIDE DEF F
  <2>1. F \in SUBSET (SUBSET S)
    BY DEF F
  <2>2. HasMinimal(F)
    BY <2>1, MinimalSubset
  <2> QED
    BY <2>2 DEF HasMinimal
<1>2. T # {}
  <2>1. Has({})
    OBVIOUS
  <2> HIDE DEF Has
  <2> QED
    BY <1>1, <2>1
<1>3. PICK x \in T : TRUE
  BY <1>2
<1>4. Has(T \ {x})
  <2> HIDE DEF Has
  <2> QED
    BY <1>1, <1>3
<1>5. PICK m \in {0} \union {f[y] : y \in T \ {x}} :
        \A n \in {0} \union {f[y] : y \in T \ {x}} : m >= n
  BY <1>4
<1>6. m \in Int /\ f[x] \in Int
  BY <1>1, <1>3, <1>5
<1>7. {0} \union {f[y] : y \in T} = {0} \union {f[y] : y \in T \ {x}} \union {f[x]}
  BY <1>3
<1>8. Has(T)
  <2>1. CASE m >= f[x]
    BY <1>5, <1>6, <1>7, <2>1
  <2>2. CASE f[x] >= m
    <3>1. \A n \in {0} \union {f[y] : y \in T \ {x}} : n \in Int
      BY <1>1
    <3>2. \A n \in {0} \union {f[y] : y \in T \ {x}} : f[x] >= n
      BY <1>5, <1>6, <2>2, <3>1
    <3>3. \A n \in {0} \union {f[y] : y \in T} : f[x] >= n
      BY <1>6, <1>7, <3>2
    <3> QED
      BY <1>3, <3>3
  <2> QED
    BY <1>6, <2>1, <2>2
<1> HIDE DEF Has
<1> QED
  BY <1>1, <1>8

LEMMA GreatestUnique ==
  ASSUME NEW S \in SUBSET Int, NEW m \in S, \A n \in S : m >= n
  PROVE  MaxOf(S) = m
<1>1. MaxOf(S) \in S /\ \A n \in S : MaxOf(S) >= n
  BY DEF MaxOf
<1>2. MaxOf(S) >= m /\ m >= MaxOf(S) /\ MaxOf(S) \in Int
  BY <1>1
<1> QED
  BY <1>2

---------------------------------------------------------------------------
(* Enumerations.                                                           *)

Distinct(s) == \A i, j \in 1..Len(s) : s[i] = s[j] => i = j
RangeOf(s)  == {s[i] : i \in 1..Len(s)}

Increasing(s, n) == \A i, j \in 1..n : i < j => s[i] < s[j]

LEMMA CardinalityOf ==
  ASSUME NEW S, IsFiniteSet(S), NEW x \in S
  PROVE  /\ IsFiniteSet(S \ {x}) /\ Cardinality(S \ {x}) \in Nat
         /\ Cardinality(S) = Cardinality(S \ {x}) + 1
<1>1. IsFiniteSet(S \ {x}) /\ Cardinality(S \ {x}) = Cardinality(S) - 1
  BY FS_RemoveElement
<1>2. Cardinality(S \ {x}) \in Nat /\ Cardinality(S) \in Nat
  BY <1>1, FS_CardinalityType
<1> QED
  BY <1>1, <1>2

LEMMA SortedExists ==
  ASSUME NEW S, S \subseteq Nat, IsFiniteSet(S)
  PROVE  \E s \in [1..Cardinality(S) -> S] : Increasing(s, Cardinality(S))
<1> DEFINE Has(T) == \E s \in [1..Cardinality(T) -> T] : Increasing(s, Cardinality(T))
           F == {T \in SUBSET S : ~Has(T)}
<1> SUFFICES ASSUME F # {} PROVE FALSE
  OBVIOUS
<1>1. PICK T \in F : \A U \in F : U \subseteq T => U = T
  <2> HIDE DEF F, Has
  <2>1. F \in SUBSET (SUBSET S) /\ F # {} /\ IsFiniteSet(S)
    BY DEF F
  <2>2. HasMinimal(F)
    BY <2>1, MinimalSubset
  <2> QED
    BY <2>2 DEF HasMinimal
<1>2. T \in SUBSET Nat /\ IsFiniteSet(T)
  BY <1>1, FS_Subset
<1>3. T # {}
  <2>1. Has({})
    <3>1. Cardinality({}) = 0
      BY FS_EmptySet
    <3>2. [i \in 1..0 |-> i] \in [1..0 -> {}] /\ Increasing([i \in 1..0 |-> i], 0)
      BY DEF Increasing
    <3> QED
      BY <3>1, <3>2
  <2> HIDE DEF Has
  <2> QED
    BY <1>1, <2>1
<1>4. PICK m \in T : \A n \in T : m <= n
  BY <1>2, <1>3, LeastExists
<1> DEFINE R == T \ {m}
           c == Cardinality(R)
<1>5. c \in Nat /\ Cardinality(T) = c + 1
  BY <1>2, <1>4, CardinalityOf
<1>6. Has(R)
  <2> HIDE DEF Has
  <2> QED
    BY <1>1, <1>4
<1>7. PICK r \in [1..c -> R] : Increasing(r, c)
  BY <1>6
<1> HIDE DEF c
<1> DEFINE s == [i \in 1..(c + 1) |-> IF i = 1 THEN m ELSE r[i - 1]]
<1>8. ASSUME NEW i \in 2..(c + 1) PROVE i - 1 \in 1..c /\ r[i - 1] \in R /\ s[i] = r[i - 1]
  BY <1>5, <1>7
<1>9. s \in [1..(c + 1) -> T]
  BY <1>4, <1>5, <1>8
<1>10. ASSUME NEW i \in 1..(c + 1), NEW j \in 1..(c + 1), i < j PROVE s[i] < s[j]
  <2>1. j \in 2..(c + 1)
    BY <1>5, <1>10
  <2>2. CASE i = 1
    <3>1. s[i] = m /\ s[j] \in R
      BY <1>5, <1>8, <2>1, <2>2
    <3>2. s[j] \in T /\ s[j] # m /\ m <= s[j] /\ m \in Nat /\ s[j] \in Nat
      BY <1>2, <1>4, <3>1
    <3> HIDE DEF s
    <3> QED
      BY <3>1, <3>2
  <2>3. CASE i # 1
    <3>1. i \in 2..(c + 1) /\ i - 1 < j - 1
      BY <1>5, <1>10, <2>3
    <3>2. /\ i - 1 \in 1..c /\ s[i] = r[i - 1]
          /\ j - 1 \in 1..c /\ s[j] = r[j - 1]
      BY <1>8, <2>1, <3>1
    <3> QED
      BY <1>7, <3>1, <3>2 DEF Increasing
  <2> QED
    BY <2>2, <2>3
<1>11. Has(T)
  <2> HIDE DEF s
  <2>1. Increasing(s, c + 1)
    BY <1>10 DEF Increasing
  <2> QED
    BY <1>5, <1>9, <2>1
<1> HIDE DEF Has
<1> QED
  BY <1>1, <1>11

(* Sorted(S) lists every member of S once.                                 *)
LEMMA SortedProperties ==
  ASSUME NEW S \in SUBSET Nat, IsFiniteSet(S)
  PROVE  Sorted(S) \in Seq(S) /\ Distinct(Sorted(S)) /\ RangeOf(Sorted(S)) = S
<1> DEFINE n == Cardinality(S)
           s == Sorted(S)
<1>1. n \in Nat
  BY FS_CardinalityType
<1>2. s \in [1..n -> S] /\ \A i, j \in 1..n : i < j => s[i] < s[j]
  BY SortedExists DEF Sorted, Increasing
<1> HIDE DEF s, n
<1>3. s \in Seq(S) /\ Len(s) = n
  <2>1. s \in Seq(S)
    BY <1>1, <1>2, SeqDef
  <2>2. 1..Len(s) = 1..n /\ Len(s) \in Nat
    BY <1>2, <2>1, LenProperties
  <2> QED
    BY <1>1, <2>1, <2>2
<1>4. \A i, j \in 1..n : s[i] = s[j] => i = j
  <2> SUFFICES ASSUME NEW i \in 1..n, NEW j \in 1..n, i < j PROVE s[i] # s[j]
    BY <1>1
  <2>1. s[i] < s[j] /\ s[i] \in Nat /\ s[j] \in Nat
    BY <1>2
  <2> QED
    BY <2>1
<1>5. s \in Injection(1..n, S)
  BY <1>2, <1>4 DEF Injection, IsInjective
<1>6. IsFiniteSet(1..n) /\ Cardinality(1..n) = n
  BY <1>1, FS_Interval
<1>7. s \in Surjection(1..n, S)
  BY <1>5, <1>6, FS_Injection DEF n
<1>8. \A x \in S : \E i \in 1..n : s[i] = x
  BY <1>7 DEF Surjection
<1>9. Distinct(s)
  BY <1>3, <1>4 DEF Distinct
<1>10. RangeOf(s) = S
  <2>1. \A i \in 1..n : s[i] \in S
    BY <1>2
  <2> QED
    BY <1>3, <1>8, <2>1 DEF RangeOf
<1> QED
  BY <1>3, <1>9, <1>10 DEF s

LEMMA Listing ==
  ASSUME NEW S, NEW s \in Seq(S)
  PROVE  /\ Len(s) \in Nat /\ RangeOf(s) \subseteq S
         /\ \A i \in 1..Len(s) : s[i] \in RangeOf(s)
         /\ \A x \in RangeOf(s) : \E i \in 1..Len(s) : s[i] = x
BY LenProperties, ElementOfSeq DEF RangeOf

LEMMA ListingWiden ==
  ASSUME NEW T, NEW S \in SUBSET T, NEW s \in Seq(S)
  PROVE  s \in Seq(T)
<1>1. s \in [1..Len(s) -> T] /\ Len(s) \in Nat
  BY LenProperties
<1> QED
  BY <1>1, SeqDef

LEMMA ListingCounts ==
  ASSUME NEW S, NEW s \in Seq(S), Distinct(s)
  PROVE  IsFiniteSet(RangeOf(s)) /\ Cardinality(RangeOf(s)) = Len(s)
<1>1. s \in [1..Len(s) -> RangeOf(s)] /\ Len(s) \in Nat
  BY LenProperties, Listing
<1>2. s \in Bijection(1..Len(s), RangeOf(s))
  BY <1>1, Listing DEF Distinct, Bijection, Injection, Surjection, IsInjective
<1>3. ExistsBijection(1..Len(s), RangeOf(s))
  BY <1>2 DEF ExistsBijection
<1>4. IsFiniteSet(1..Len(s)) /\ Cardinality(1..Len(s)) = Len(s)
  <2> DEFINE n == Len(s)
  <2>1. n \in Nat
    BY <1>1
  <2> HIDE DEF n
  <2>2. IsFiniteSet(1..n) /\ Cardinality(1..n) = n
    BY <2>1, FS_Interval
  <2> QED
    BY <2>2 DEF n
<1> QED
  BY <1>3, <1>4, FS_Bijection

LEMMA ListingAppend ==
  ASSUME NEW S, NEW s \in Seq(S), NEW x \in S, Distinct(s), x \notin RangeOf(s)
  PROVE  /\ Append(s, x) \in Seq(S) /\ Len(Append(s, x)) = Len(s) + 1
         /\ \A i \in 1..Len(s) : Append(s, x)[i] = s[i]
         /\ Append(s, x)[Len(s) + 1] = x
         /\ RangeOf(Append(s, x)) = RangeOf(s) \union {x} /\ Distinct(Append(s, x))
<1> DEFINE t == Append(s, x)
<1>1. /\ t \in Seq(S) /\ Len(t) = Len(s) + 1
      /\ \A i \in 1..Len(s) : t[i] = s[i]
      /\ t[Len(s) + 1] = x
  BY AppendProperties
<1> HIDE DEF t
<1>2. Len(s) \in Nat /\ \A i \in 1..Len(s) : s[i] \in RangeOf(s)
  BY Listing
<1>3. \A i \in 1..Len(t) : i \in 1..Len(s) \/ i = Len(s) + 1
  BY <1>1, <1>2
<1>4. RangeOf(t) = RangeOf(s) \union {x}
  <2>1. \A i \in 1..Len(t) : t[i] \in RangeOf(s) \union {x}
    BY <1>1, <1>2, <1>3
  <2>2. \A i \in 1..Len(s) : s[i] \in RangeOf(t)
    <3> SUFFICES ASSUME NEW i \in 1..Len(s) PROVE i \in 1..Len(t) /\ t[i] = s[i]
      BY DEF RangeOf
    <3> QED
      BY <1>1, <1>2
  <2>3. x \in RangeOf(t)
    <3>1. Len(s) + 1 \in 1..Len(t)
      BY <1>1, <1>2
    <3> QED
      BY <1>1, <3>1 DEF RangeOf
  <2> QED
    BY <2>1, <2>2, <2>3 DEF RangeOf
<1>5. Distinct(t)
  <2> SUFFICES ASSUME NEW i \in 1..Len(t), NEW j \in 1..Len(t), t[i] = t[j] PROVE i = j
    BY DEF Distinct
  <2>1. CASE i \in 1..Len(s) /\ j \in 1..Len(s)
    BY <1>1, <2>1 DEF Distinct
  <2>2. CASE i \in 1..Len(s) /\ j = Len(s) + 1
    BY <1>1, <1>2, <2>2
  <2>3. CASE j \in 1..Len(s) /\ i = Len(s) + 1
    BY <1>1, <1>2, <2>3
  <2> QED
    BY <1>3, <2>1, <2>2, <2>3
<1> QED
  BY <1>1, <1>4, <1>5 DEF t

LEMMA ListingTail ==
  ASSUME NEW S, NEW s \in Seq(S), Distinct(s), s # <<>>
  PROVE  /\ Head(s) \in RangeOf(s) /\ Tail(s) \in Seq(S)
         /\ RangeOf(Tail(s)) = RangeOf(s) \ {Head(s)} /\ Distinct(Tail(s))
<1> DEFINE t == Tail(s)
<1>1. /\ Len(s) \in Nat \ {0} /\ Head(s) = s[1]
      /\ t \in Seq(S) /\ Len(t) = Len(s) - 1
      /\ \A i \in 1..Len(t) : t[i] = s[i + 1]
  BY EmptySeq, HeadTailProperties
<1> HIDE DEF t
<1>2. \A i \in 1..Len(t) : i + 1 \in 1..Len(s) /\ i + 1 # 1 /\ t[i] = s[i + 1]
  BY <1>1
<1>3. 1 \in 1..Len(s)
  BY <1>1
<1>4. \A i \in 1..Len(s) : i # 1 => i - 1 \in 1..Len(t) /\ t[i - 1] = s[i]
  <2> SUFFICES ASSUME NEW i \in 1..Len(s), i # 1
               PROVE  i - 1 \in 1..Len(t) /\ t[i - 1] = s[i]
    OBVIOUS
  <2>1. i - 1 \in 1..Len(t) /\ (i - 1) + 1 = i
    BY <1>1
  <2> QED
    BY <1>1, <2>1
<1>5. Head(s) \in RangeOf(s)
  BY <1>1, <1>3 DEF RangeOf
<1>6. RangeOf(t) = RangeOf(s) \ {Head(s)}
  <2>1. \A i \in 1..Len(t) : t[i] \in RangeOf(s) /\ t[i] # Head(s)
    BY <1>1, <1>2, <1>3 DEF RangeOf, Distinct
  <2>2. \A i \in 1..Len(s) : s[i] # Head(s) => s[i] \in RangeOf(t)
    <3> SUFFICES ASSUME NEW i \in 1..Len(s), s[i] # Head(s) PROVE s[i] \in RangeOf(t)
      OBVIOUS
    <3>1. i - 1 \in 1..Len(t) /\ t[i - 1] = s[i]
      BY <1>1, <1>4
    <3> QED
      BY <3>1 DEF RangeOf
  <2> QED
    BY <2>1, <2>2 DEF RangeOf
<1>7. Distinct(t)
  <2> SUFFICES ASSUME NEW i \in 1..Len(t), NEW j \in 1..Len(t), t[i] = t[j] PROVE i = j
    BY DEF Distinct
  <2>1. i + 1 = j + 1
    BY <1>2 DEF Distinct
  <2> QED
    BY <1>1, <2>1
<1> QED
  BY <1>1, <1>5, <1>6, <1>7 DEF t

LEMMA ListingConcat ==
  ASSUME NEW S, NEW s \in Seq(S), NEW t \in Seq(S), Distinct(s), Distinct(t),
         RangeOf(s) \cap RangeOf(t) = {}
  PROVE  /\ s \o t \in Seq(S) /\ Distinct(s \o t)
         /\ RangeOf(s \o t) = RangeOf(s) \union RangeOf(t)
<1> DEFINE u == s \o t
<1>1. /\ u \in Seq(S) /\ Len(u) = Len(s) + Len(t)
      /\ \A i \in 1..Len(s) + Len(t) : u[i] = IF i <= Len(s) THEN s[i] ELSE t[i - Len(s)]
  BY ConcatProperties
<1> HIDE DEF u
<1>2. Len(s) \in Nat /\ Len(t) \in Nat
  BY LenProperties
<1>3. \A i \in 1..Len(s) : i \in 1..Len(u) /\ u[i] = s[i]
  BY <1>1, <1>2
<1>4. \A i \in 1..Len(t) : i + Len(s) \in 1..Len(u) /\ u[i + Len(s)] = t[i]
  <2> SUFFICES ASSUME NEW i \in 1..Len(t)
               PROVE  i + Len(s) \in 1..Len(u) /\ u[i + Len(s)] = t[i]
    OBVIOUS
  <2>1. /\ i + Len(s) \in 1..Len(s) + Len(t) /\ ~(i + Len(s) <= Len(s))
        /\ (i + Len(s)) - Len(s) = i
    BY <1>2
  <2> QED
    BY <1>1, <2>1
<1>5. \A i \in 1..Len(u) : i \in 1..Len(s) \/ i - Len(s) \in 1..Len(t)
  BY <1>1, <1>2
<1>6. \A i \in 1..Len(u) : i - Len(s) \in 1..Len(t) => u[i] = t[i - Len(s)]
  BY <1>1, <1>2
<1>7. RangeOf(u) = RangeOf(s) \union RangeOf(t)
  <2>1. \A i \in 1..Len(u) : u[i] \in RangeOf(s) \union RangeOf(t)
    BY <1>3, <1>5, <1>6 DEF RangeOf
  <2>2. \A i \in 1..Len(s) : s[i] \in RangeOf(u)
    BY <1>3 DEF RangeOf
  <2>3. \A i \in 1..Len(t) : t[i] \in RangeOf(u)
    <3> SUFFICES ASSUME NEW i \in 1..Len(t) PROVE t[i] \in RangeOf(u)
      OBVIOUS
    <3>1. i + Len(s) \in 1..Len(u) /\ u[i + Len(s)] = t[i]
      BY <1>4
    <3> QED
      BY <3>1 DEF RangeOf
  <2> QED
    BY <2>1, <2>2, <2>3 DEF RangeOf
<1>8. Distinct(u)
  <2> SUFFICES ASSUME NEW i \in 1..Len(u), NEW j \in 1..Len(u), u[i] = u[j] PROVE i = j
    BY DEF Distinct
  <2>1. CASE i \in 1..Len(s) /\ j \in 1..Len(s)
    BY <1>3, <2>1 DEF Distinct
  <2>2. CASE i - Len(s) \in 1..Len(t) /\ j - Len(s) \in 1..Len(t)
    <3>1. i - Len(s) = j - Len(s)
      BY <1>6, <2>2 DEF Distinct
    <3> QED
      BY <1>1, <1>2, <3>1
  <2>3. CASE i \in 1..Len(s) /\ j - Len(s) \in 1..Len(t)
    <3>1. u[i] \in RangeOf(s) /\ u[j] \in RangeOf(t)
      BY <1>3, <1>6, <2>3 DEF RangeOf
    <3> QED
      BY <3>1
  <2>4. CASE j \in 1..Len(s) /\ i - Len(s) \in 1..Len(t)
    <3>1. u[j] \in RangeOf(s) /\ u[i] \in RangeOf(t)
      BY <1>3, <1>6, <2>4 DEF RangeOf
    <3> QED
      BY <3>1
  <2> QED
    BY <1>5, <2>1, <2>2, <2>3, <2>4
<1> QED
  BY <1>1, <1>7, <1>8 DEF u

---------------------------------------------------------------------------
(* The invariants of a look at the plan.                                   *)

Placed  == RangeOf(order)
Waiting == RangeOf(ready)
Count   == Cardinality(DOMAIN views)

StoreInv ==
  /\ today \in 1..LastDay /\ board \in Board
  /\ DOMAIN rows \subseteq Key /\ \A k \in DOMAIN rows : rows[k] \in Row
  /\ edges \subseteq (DOMAIN rows) \X Key
  /\ pc \in {"idle", "order", "view", "planned"}
  /\ outcome \in {"none", "ok", "cycle", "unknown", "undated"}
  /\ loads \in 0..MaxLoads

(* Every milestone that has a place has it after all it waits for.         *)
OrderInv ==
  /\ ready \in Seq(DOMAIN rows) /\ order \in Seq(DOMAIN rows)
  /\ Distinct(order)
  /\ \A i \in 1..Len(order) : \A p \in Parents(order[i]) : \E j \in 1..i - 1 : order[j] = p

(* A milestone is placed or waits for its place exactly when all it waits  *)
(* for is placed; an indegree counts what is not.                          *)
KahnInv ==
  /\ pc = "idle" => indegree = Empty /\ ready = <<>> /\ order = <<>>
  /\ pc # "idle" =>
       /\ edges \subseteq (DOMAIN rows) \X (DOMAIN rows)
       /\ DOMAIN indegree = DOMAIN rows
       /\ \A c \in DOMAIN rows : indegree[c] = Cardinality(Parents(c) \ Placed)
       /\ Distinct(ready) /\ Placed \cap Waiting = {}
       /\ \A c \in DOMAIN rows : Parents(c) \subseteq Placed <=> c \in Placed \union Waiting
  /\ pc \in {"view", "planned"} => Placed = DOMAIN rows

(* The milestones seen so far are the first ones of the order, and each    *)
(* has the finish and the slip the rules give it now.                      *)
ViewInv ==
  /\ pc \in {"idle", "order"} => views = Empty
  /\ Count \in 0..Len(order) /\ (pc = "planned" => Count = Len(order))
  /\ DOMAIN views = {order[i] : i \in 1..Count}
  /\ \A k \in DOMAIN views : /\ rows[k].planned > 0
                             /\ views[k] = ViewOf(k) /\ views[k] \in ViewType

CycleInv == outcome = "cycle" => Cyclic(edges)

PlanInv == StoreInv /\ OrderInv /\ KahnInv /\ ViewInv /\ CycleInv

LEMMA EmptyTable == DOMAIN Empty = {}
BY DEF Empty

LEMMA RowsFinite ==
  ASSUME StoreInv
  PROVE  /\ IsFiniteSet(DOMAIN rows) /\ DOMAIN rows \subseteq Nat
         /\ \A k : IsFiniteSet(Parents(k)) /\ IsFiniteSet(Children(k))
<1>1. \A k : Parents(k) \subseteq Key /\ Children(k) \subseteq Key
  BY DEF Parents, Children
<1> QED
  BY <1>1, PlanAssumption, FS_Subset DEF StoreInv

(* A look that has ended leaves nothing of itself.                         *)
LEMMA Resting ==
  ASSUME StoreInv', CycleInv', pc' = "idle",
         indegree' = Empty, ready' = <<>>, order' = <<>>, views' = Empty
  PROVE  PlanInv'
<1>1. OrderInv'
  BY DEF OrderInv, Distinct
<1>2. KahnInv'
  BY DEF KahnInv
<1>3. ViewInv'
  <2>1. DOMAIN views' = {}
    BY EmptyTable
  <2>2. Count' = 0
    BY <2>1, FS_EmptySet DEF Count
  <2> QED
    BY <2>1, <2>2 DEF ViewInv
<1> QED
  BY <1>1, <1>2, <1>3 DEF PlanInv

LEMMA Idle ==
  ASSUME PlanInv, pc = "idle"
  PROVE  indegree = Empty /\ ready = <<>> /\ order = <<>> /\ views = Empty
BY DEF PlanInv, KahnInv, ViewInv

LEMMA PlanInit == Init => PlanInv
<1> SUFFICES ASSUME Init PROVE PlanInv
  OBVIOUS
<1>1. StoreInv /\ CycleInv
  BY EmptyTable, PlanAssumption DEF Init, StoreInv, CycleInv
<1>2. OrderInv
  BY DEF Init, OrderInv, Distinct
<1>3. KahnInv
  BY DEF Init, KahnInv
<1>4. ViewInv
  <2>1. DOMAIN views = {}
    BY EmptyTable DEF Init
  <2>2. Count = 0
    BY <2>1, FS_EmptySet DEF Count
  <2> QED
    BY <2>1, <2>2 DEF ViewInv, Init
<1> QED
  BY <1>1, <1>2, <1>3, <1>4 DEF PlanInv

LEMMA LoadKeeps ==
  ASSUME PlanInv, NEW f \in PlanFile, Load(f)
  PROVE  PlanInv'
<1>1. DOMAIN rows' = DOMAIN rows \union DOMAIN f
  BY DEF Load
<1>2. StoreInv'
  <2>1. DOMAIN f \subseteq Key /\ \A k \in DOMAIN f : f[k].row \in Row
    BY PlanAssumption
  <2>2. DOMAIN rows' \subseteq Key /\ \A k \in DOMAIN rows' : rows'[k] \in Row
    BY <1>1, <2>1 DEF Load, PlanInv, StoreInv
  <2>3. edges' \subseteq (DOMAIN rows') \X Key
    BY <1>1 DEF Load, PlanInv, StoreInv, EdgesOf
  <2>4. loads' \in 0..MaxLoads
    BY PlanAssumption DEF Load, PlanInv, StoreInv
  <2> QED
    BY <2>2, <2>3, <2>4 DEF Load, PlanInv, StoreInv
<1>3. CycleInv'
  BY DEF Load, CycleInv
<1>4. pc' = "idle" /\ pc = "idle"
  BY DEF Load
<1>5. indegree' = Empty /\ ready' = <<>> /\ order' = <<>> /\ views' = Empty
  BY <1>4, Idle DEF Load, kahnVars
<1> QED
  BY <1>2, <1>3, <1>4, <1>5, Resting

(* Every way of ending a look early, where it is not a cycle that ends it. *)
LEMMA EndKeeps ==
  ASSUME PlanInv, NEW how \in {"none", "ok", "unknown", "undated"}, EndLook(how),
         UNCHANGED <<today, board, rows, edges, fileVars>>
  PROVE  PlanInv'
<1>1. StoreInv'
  BY DEF PlanInv, StoreInv, EndLook, fileVars
<1>2. CycleInv'
  BY DEF CycleInv, EndLook
<1> QED
  BY <1>1, <1>2, Resting DEF EndLook

LEMMA WorldKeeps ==
  ASSUME PlanInv, NextDay \/ SyncTickets
  PROVE  PlanInv'
<1>1. pc = "idle" /\ pc' = "idle"
  BY DEF NextDay, SyncTickets
<1>2. StoreInv'
  BY PlanAssumption DEF PlanInv, StoreInv, NextDay, SyncTickets, storeVars, fileVars
<1>3. CycleInv'
  BY DEF PlanInv, CycleInv, Cyclic, NextDay, SyncTickets, storeVars
<1>4. indegree' = Empty /\ ready' = <<>> /\ order' = <<>> /\ views' = Empty
  BY <1>1, Idle DEF NextDay, SyncTickets, kahnVars
<1> QED
  BY <1>1, <1>2, <1>3, <1>4, Resting

---------------------------------------------------------------------------
(* Kahn's algorithm.                                                       *)

LEMMA BeginKeeps ==
  ASSUME PlanInv, Begin
  PROVE  PlanInv'
<1>1. CASE \E e \in edges : e[2] \notin DOMAIN rows
  <2>1. EndLook("unknown") /\ UNCHANGED <<today, board, rows, edges, fileVars>>
    BY <1>1 DEF Begin, storeVars
  <2> QED
    BY <2>1, EndKeeps
<1>2. CASE ~(\E e \in edges : e[2] \notin DOMAIN rows)
  <2> DEFINE Roots == {k \in DOMAIN rows : InDegree(k) = 0}
  <2>1. /\ indegree' = [k \in DOMAIN rows |-> InDegree(k)] /\ ready' = Sorted(Roots)
        /\ order' = <<>> /\ views' = Empty /\ outcome' = "none" /\ pc' = "order"
        /\ UNCHANGED <<today, board, rows, edges, loads>>
    BY <1>2 DEF Begin, storeVars, fileVars
  <2>2. /\ \A k : IsFiniteSet(Parents(k)) /\ Parents(k)' = Parents(k)
        /\ DOMAIN rows \subseteq Nat /\ IsFiniteSet(DOMAIN rows)
    BY <2>1, RowsFinite DEF PlanInv, Parents
  <2>3. Roots \in SUBSET Nat /\ IsFiniteSet(Roots)
    BY <2>2, FS_Subset
  <2>4. ready' \in Seq(Roots) /\ Distinct(ready)' /\ Waiting' = Roots
    <3> HIDE DEF Roots
    <3> QED
      BY <2>1, <2>3, SortedProperties DEF Waiting, Distinct, RangeOf
  <2>5. Placed' = {} /\ Len(order') = 0
    BY <2>1 DEF Placed, RangeOf
  <2>6. Roots = {k \in DOMAIN rows : Parents(k) = {}}
    BY <2>2, FS_EmptySet DEF InDegree
  <2>7. StoreInv' /\ CycleInv'
    BY <2>1 DEF PlanInv, StoreInv, CycleInv
  <2>8. OrderInv'
    <3>1. ready' \in Seq(DOMAIN rows) /\ order' \in Seq(DOMAIN rows)
      BY <2>1, <2>4
    <3> QED
      BY <2>1, <2>5, <3>1 DEF OrderInv, Distinct
  <2>9. KahnInv'
    <3>1. edges' \subseteq (DOMAIN rows') \X (DOMAIN rows')
      BY <1>2, <2>1 DEF PlanInv, StoreInv
    <3>2. DOMAIN indegree' = DOMAIN rows'
      BY <2>1
    <3>3. \A c \in DOMAIN rows' : indegree'[c] = Cardinality((Parents(c) \ Placed)')
      <4> SUFFICES ASSUME NEW c \in DOMAIN rows
                   PROVE  indegree'[c] = Cardinality((Parents(c) \ Placed)')
        BY <2>1
      <4>1. (Parents(c) \ Placed)' = Parents(c)
        BY <2>2, <2>5
      <4> QED
        BY <2>1, <4>1 DEF InDegree
    <3>4. \A c \in DOMAIN rows' :
            (Parents(c) \subseteq Placed <=> c \in Placed \union Waiting)'
      BY <2>1, <2>2, <2>4, <2>5, <2>6
    <3> HIDE DEF Roots
    <3> QED
      BY <2>1, <2>4, <2>5, <3>1, <3>2, <3>3, <3>4 DEF KahnInv
  <2>10. ViewInv'
    <3>1. DOMAIN views' = {} /\ Count' = 0
      BY <2>1, EmptyTable, FS_EmptySet DEF Count
    <3> QED
      BY <2>1, <2>5, <3>1 DEF ViewInv
  <2> QED
    BY <2>7, <2>8, <2>9, <2>10 DEF PlanInv
<1> QED
  BY <1>1, <1>2

LEMMA PopKeeps ==
  ASSUME PlanInv, Pop
  PROVE  PlanInv'
<1> DEFINE k == Head(ready)
           New == NewlyReady(k)
<1>1. /\ pc = "order" /\ ready # <<>>
      /\ order' = Append(order, k) /\ ready' = Tail(ready) \o Sorted(New)
      /\ indegree' = [c \in DOMAIN rows |->
           IF c \in Children(k) THEN indegree[c] - 1 ELSE indegree[c]]
      /\ UNCHANGED <<today, board, rows, edges, pc, views, outcome, loads>>
  BY DEF Pop, storeVars, fileVars
<1>2. /\ edges \subseteq (DOMAIN rows) \X (DOMAIN rows)
      /\ DOMAIN indegree = DOMAIN rows
      /\ \A c \in DOMAIN rows : indegree[c] = Cardinality(Parents(c) \ Placed)
      /\ Distinct(ready) /\ Placed \cap Waiting = {}
      /\ \A c \in DOMAIN rows : Parents(c) \subseteq Placed <=> c \in Placed \union Waiting
  BY <1>1 DEF PlanInv, KahnInv
<1>3. /\ ready \in Seq(DOMAIN rows) /\ order \in Seq(DOMAIN rows) /\ Distinct(order)
      /\ Placed \subseteq DOMAIN rows /\ Waiting \subseteq DOMAIN rows
      /\ Len(order) \in Nat
  BY Listing DEF PlanInv, OrderInv, Placed, Waiting
<1>4. /\ k \in Waiting /\ Tail(ready) \in Seq(DOMAIN rows) /\ Distinct(Tail(ready))
      /\ RangeOf(Tail(ready)) = Waiting \ {k}
  BY <1>1, <1>2, <1>3, ListingTail DEF Waiting
<1>5. k \in DOMAIN rows /\ k \notin Placed /\ Parents(k) \subseteq Placed
  BY <1>2, <1>3, <1>4
<1>6. /\ \A c : IsFiniteSet(Parents(c)) /\ Parents(c)' = Parents(c)
      /\ IsFiniteSet(Children(k)) /\ IsFiniteSet(DOMAIN rows) /\ DOMAIN rows \subseteq Nat
      /\ \A c : c \in Children(k) <=> c \in Key /\ k \in Parents(c)
      /\ DOMAIN rows \subseteq Key
  BY <1>1, <1>5, RowsFinite DEF PlanInv, Parents, Children, StoreInv
<1>7. \A c \in DOMAIN rows : IsFiniteSet(Parents(c) \ Placed)
  BY <1>6, FS_Subset
<1> HIDE DEF k, New
<1>8. /\ order' \in Seq(DOMAIN rows) /\ Distinct(order') /\ Placed' = Placed \union {k}
      /\ Len(order') = Len(order) + 1 /\ order'[Len(order) + 1] = k
      /\ \A i \in 1..Len(order) : order'[i] = order[i]
  BY <1>1, <1>3, <1>5, ListingAppend DEF Placed
<1>9. New = {c \in DOMAIN rows : Parents(c) \ Placed = {k}}
  <2>1. New \subseteq DOMAIN rows
    BY <1>2 DEF New, NewlyReady, Children
  <2>2. ASSUME NEW c \in DOMAIN rows
        PROVE  c \in New <=> Parents(c) \ Placed = {k}
    <3>1. c \in New <=> k \in Parents(c) \ Placed /\ Cardinality(Parents(c) \ Placed) = 1
      BY <1>2, <1>5, <1>6 DEF New, NewlyReady
    <3>2. Cardinality(Parents(c) \ Placed) = 1 <=> \E x : Parents(c) \ Placed = {x}
      BY <1>7, FS_Singleton
    <3> QED
      BY <3>1, <3>2
  <2> QED
    BY <2>1, <2>2
<1>10. New \in SUBSET Nat /\ IsFiniteSet(New) /\ New \subseteq DOMAIN rows
  BY <1>6, <1>9, FS_Subset
<1>11. Sorted(New) \in Seq(DOMAIN rows) /\ Distinct(Sorted(New)) /\ RangeOf(Sorted(New)) = New
  <2>1. Sorted(New) \in Seq(New) /\ Distinct(Sorted(New)) /\ RangeOf(Sorted(New)) = New
    BY <1>10, SortedProperties
  <2>2. Sorted(New) \in Seq(DOMAIN rows)
    BY <1>10, <2>1, ListingWiden, Zenon
  <2> QED
    BY <2>1, <2>2
<1>12. New \cap (Waiting \union Placed) = {} /\ k \notin New
  BY <1>2, <1>4, <1>5, <1>9
<1>13. /\ ready' \in Seq(DOMAIN rows) /\ Distinct(ready')
       /\ Waiting' = (Waiting \ {k}) \union New
  <2> DEFINE s == Tail(ready)
             t == Sorted(New)
  <2>1. /\ s \in Seq(DOMAIN rows) /\ t \in Seq(DOMAIN rows) /\ Distinct(s) /\ Distinct(t)
        /\ RangeOf(s) = Waiting \ {k} /\ RangeOf(t) = New
    BY <1>4, <1>11
  <2>2. ready' = s \o t
    BY <1>1
  <2> HIDE DEF s, t
  <2>3. RangeOf(s) \cap RangeOf(t) = {}
    BY <1>12, <2>1
  <2>4. /\ s \o t \in Seq(DOMAIN rows) /\ Distinct(s \o t)
        /\ RangeOf(s \o t) = RangeOf(s) \union RangeOf(t)
    BY <2>1, <2>3, ListingConcat
  <2>5. Waiting' = RangeOf(ready')
    BY DEF Waiting, RangeOf
  <2> QED
    BY <2>1, <2>2, <2>4, <2>5
<1>14. StoreInv' /\ CycleInv'
  BY <1>1 DEF PlanInv, StoreInv, CycleInv, Cyclic
<1>15. OrderInv'
  <2>1. ASSUME NEW i \in 1..Len(order'), NEW p \in Parents(order'[i])
        PROVE  \E j \in 1..i - 1 : order'[j] = p
    <3>1. CASE i \in 1..Len(order)
      <4>1. PICK j \in 1..i - 1 : order[j] = p
        BY <1>8, <2>1, <3>1 DEF PlanInv, OrderInv
      <4>2. j \in 1..Len(order)
        BY <1>3, <3>1, <4>1
      <4> QED
        BY <1>8, <4>1, <4>2
    <3>2. CASE i = Len(order) + 1
      <4>1. p \in Placed
        BY <1>5, <1>8, <2>1, <3>2
      <4>2. PICK j \in 1..Len(order) : order[j] = p
        BY <4>1 DEF Placed, RangeOf
      <4>3. j \in 1..i - 1
        BY <1>3, <3>2, <4>2
      <4> QED
        BY <1>8, <4>2, <4>3
    <3> QED
      BY <1>3, <1>8, <2>1, <3>1, <3>2
  <2>2. (\A i \in 1..Len(order) : \A p \in Parents(order[i]) :
           \E j \in 1..i - 1 : order[j] = p)'
    BY <1>6, <2>1
  <2>3. ready' \in Seq(DOMAIN rows') /\ order' \in Seq(DOMAIN rows')
    BY <1>1, <1>8, <1>13
  <2> QED
    BY <1>8, <2>2, <2>3 DEF OrderInv, Distinct
<1>16. KahnInv'
  <2>1. ASSUME NEW c \in DOMAIN rows
        PROVE  indegree'[c] = Cardinality(Parents(c) \ Placed')
    <3>1. CASE k \in Parents(c)
      <4>1. Parents(c) \ Placed' = (Parents(c) \ Placed) \ {k}
        BY <1>8
      <4>2. /\ Cardinality(Parents(c) \ Placed) = Cardinality((Parents(c) \ Placed) \ {k}) + 1
            /\ Cardinality((Parents(c) \ Placed) \ {k}) \in Nat
        BY <1>5, <1>7, <3>1, CardinalityOf
      <4>3. indegree'[c] = indegree[c] - 1
        BY <1>1, <1>6, <3>1
      <4>4. indegree[c] = Cardinality(Parents(c) \ Placed)
        BY <1>2
      <4> DEFINE b == Cardinality((Parents(c) \ Placed) \ {k})
      <4>5. indegree[c] = b + 1 /\ b \in Nat /\ b = Cardinality(Parents(c) \ Placed')
        BY <4>1, <4>2, <4>4
      <4> HIDE DEF b
      <4> QED
        BY <4>3, <4>5
    <3>2. CASE k \notin Parents(c)
      <4>1. Parents(c) \ Placed' = Parents(c) \ Placed
        BY <1>8, <3>2
      <4>2. indegree'[c] = indegree[c]
        BY <1>1, <1>6, <3>2
      <4> QED
        BY <1>2, <4>1, <4>2
    <3> QED
      BY <3>1, <3>2
  <2>2. ASSUME NEW c \in DOMAIN rows
        PROVE  Parents(c) \subseteq Placed' <=> c \in Placed' \union Waiting'
    <3>1. Parents(c) \subseteq Placed' <=> Parents(c) \subseteq Placed \/ Parents(c) \ Placed = {k}
      BY <1>8
    <3>2. c \in Placed' \union Waiting' <=> c \in Placed \union Waiting \/ c \in New
      BY <1>4, <1>8, <1>13
    <3> QED
      BY <1>2, <1>9, <3>1, <3>2
  <2>3. Placed' \cap Waiting' = {}
    BY <1>2, <1>8, <1>12, <1>13
  <2>4. \A c \in DOMAIN rows' : indegree'[c] = Cardinality((Parents(c) \ Placed)')
    BY <1>1, <1>6, <2>1
  <2>5. \A c \in DOMAIN rows' :
          (Parents(c) \subseteq Placed <=> c \in Placed \union Waiting)'
    BY <1>1, <1>6, <2>2
  <2> QED
    BY <1>1, <1>2, <1>13, <2>3, <2>4, <2>5 DEF KahnInv, Distinct
<1>17. ViewInv'
  <2>1. DOMAIN views' = {} /\ Count' = 0 /\ views' = Empty
    BY <1>1, EmptyTable, FS_EmptySet DEF PlanInv, ViewInv, Count
  <2> QED
    BY <1>1, <1>3, <1>8, <2>1 DEF ViewInv
<1> QED
  BY <1>14, <1>15, <1>16, <1>17 DEF PlanInv

LEMMA OrderedKeeps ==
  ASSUME PlanInv, Ordered
  PROVE  PlanInv'
<1>1. /\ pc = "order" /\ ready = <<>>
      /\ UNCHANGED <<today, board, rows, edges, loads>>
  BY DEF Ordered, storeVars, fileVars
<1>2. /\ edges \subseteq (DOMAIN rows) \X (DOMAIN rows)
      /\ \A c \in DOMAIN rows : Parents(c) \subseteq Placed <=> c \in Placed \union Waiting
      /\ Waiting = {}
  BY <1>1 DEF PlanInv, KahnInv, Waiting, RangeOf
<1>3. /\ order \in Seq(DOMAIN rows) /\ Distinct(order) /\ IsFiniteSet(DOMAIN rows)
      /\ Placed \in SUBSET (DOMAIN rows)
  BY RowsFinite, Listing DEF PlanInv, OrderInv, Placed
<1>4. Cardinality(Placed) = Len(order)
  BY <1>3, ListingCounts DEF Placed
<1>5. CASE Len(order) # Cardinality(DOMAIN rows)
  <2>1. EndLook("cycle")
    BY <1>5 DEF Ordered
  <2>2. StoreInv'
    BY <1>1, <2>1 DEF PlanInv, StoreInv, EndLook
  <2>3. Cyclic(edges)
    <3> DEFINE Stuck == (DOMAIN rows) \ Placed
    <3>1. Stuck # {}
      BY <1>3, <1>4, <1>5
    <3>2. \A k \in Stuck : \E p \in Stuck : <<k, p>> \in edges
      <4> SUFFICES ASSUME NEW k \in Stuck PROVE \E p \in Stuck : <<k, p>> \in edges
        OBVIOUS
      <4>1. PICK p \in Parents(k) : p \notin Placed
        BY <1>2
      <4>2. <<k, p>> \in edges /\ p \in DOMAIN rows
        BY <1>2, <4>1 DEF Parents
      <4> QED
        BY <4>1, <4>2
    <3>3. Stuck \subseteq {e[1] : e \in edges}
      <4> SUFFICES ASSUME NEW k \in Stuck PROVE k \in {e[1] : e \in edges}
        OBVIOUS
      <4>1. PICK p \in Stuck : <<k, p>> \in edges
        BY <3>2
      <4>2. <<k, p>>[1] = k
        OBVIOUS
      <4> QED
        BY <4>1, <4>2
    <3> HIDE DEF Stuck
    <3> QED
      BY <3>1, <3>2, <3>3 DEF Cyclic
  <2>4. CycleInv'
    BY <1>1, <2>3 DEF CycleInv, Cyclic
  <2> QED
    BY <2>1, <2>2, <2>4, Resting DEF EndLook
<1>6. CASE Len(order) = Cardinality(DOMAIN rows)
  <2>1. pc' = "view" /\ UNCHANGED <<indegree, ready, order, views, outcome>>
    BY <1>6 DEF Ordered, kahnVars
  <2>2. Placed = DOMAIN rows
    BY <1>3, <1>4, <1>6, FS_Subset
  <2>3. StoreInv' /\ CycleInv'
    BY <1>1, <2>1 DEF PlanInv, StoreInv, CycleInv, Cyclic
  <2>4. OrderInv'
    BY <1>1, <2>1 DEF PlanInv, OrderInv, Distinct, Parents
  <2>5. KahnInv'
    BY <1>1, <2>1, <2>2 DEF PlanInv, KahnInv, Placed, Waiting, RangeOf, Distinct, Parents
  <2>6. ViewInv'
    <3>1. DOMAIN views' = {} /\ Count' = 0 /\ Count = 0
      BY <1>1, <2>1, EmptyTable, FS_EmptySet DEF PlanInv, ViewInv, Count
    <3> QED
      BY <1>1, <2>1, <3>1 DEF PlanInv, ViewInv
  <2> QED
    BY <2>3, <2>4, <2>5, <2>6 DEF PlanInv
<1> QED
  BY <1>5, <1>6

---------------------------------------------------------------------------
(* Deriving the slips.                                                     *)

Slips(k) == {0} \union {views[p].slip : p \in Parents(k)}

LEMMA InheritedIsGreatest ==
  ASSUME StoreInv, NEW k, \A p \in Parents(k) : views[p] \in ViewType
  PROVE  /\ Inherited(k) \in Slips(k) /\ \A n \in Slips(k) : Inherited(k) >= n
         /\ Inherited(k) \in Nat
<1> DEFINE f == [p \in Parents(k) |-> views[p].slip]
<1>1. IsFiniteSet(Parents(k))
  BY RowsFinite
<1>2. \A p \in Parents(k) : f[p] \in Int
  BY DEF ViewType
<1>3. Slips(k) = {0} \union {f[p] : p \in Parents(k)}
  BY DEF Slips
<1> HIDE DEF f
<1>4. \E m \in {0} \union {f[p] : p \in Parents(k)} :
        \A n \in {0} \union {f[p] : p \in Parents(k)} : m >= n
  BY <1>1, <1>2, GreatestValue
<1>5. PICK m \in Slips(k) : \A n \in Slips(k) : m >= n
  BY <1>3, <1>4
<1>6. Slips(k) \in SUBSET Int
  BY <1>2, <1>3
<1>7. MaxOf(Slips(k)) = m
  BY <1>5, <1>6, GreatestUnique
<1>8. Inherited(k) = m
  BY <1>7 DEF Inherited, Slips
<1>9. m >= 0 /\ m \in Int
  <2>1. 0 \in Slips(k)
    BY DEF Slips
  <2> QED
    BY <1>5, <1>6, <2>1
<1> QED
  BY <1>5, <1>8, <1>9

LEMMA ViewOfType ==
  ASSUME StoreInv, NEW k \in DOMAIN rows, \A p \in Parents(k) : views[p] \in ViewType
  PROVE  ViewOf(k) \in ViewType
<1>1. /\ rows[k].planned \in Nat /\ rows[k].actual \in Nat /\ today \in Nat
      /\ Inherited(k) \in Nat
  BY InheritedIsGreatest, PlanAssumption DEF StoreInv, Row
<1>2. Finish(k) \in Nat
  BY <1>1 DEF Finish, Larger
<1> QED
  BY <1>1, <1>2 DEF ViewOf, ViewType

LEMMA ViewKeeps ==
  ASSUME PlanInv, View
  PROVE  PlanInv'
<1> DEFINE k == order[Count + 1]
<1>1. pc = "view" /\ Count < Len(order)
  BY DEF View, Count
<1>2. CASE rows[k].planned = 0
  <2>1. EndLook("undated") /\ UNCHANGED <<today, board, rows, edges, fileVars>>
    BY <1>2 DEF View, Count, storeVars
  <2> QED
    BY <2>1, EndKeeps
<1>3. CASE rows[k].planned # 0
  <2>1. /\ views' = [m \in DOMAIN views \union {k} |-> IF m = k THEN ViewOf(k) ELSE views[m]]
        /\ UNCHANGED <<today, board, rows, edges, pc, indegree, ready, order, outcome, loads>>
    BY <1>3 DEF View, Count, storeVars, kahnVars, fileVars
  <2>2. /\ Count \in 0..Len(order) /\ DOMAIN views = {order[i] : i \in 1..Count}
        /\ \A m \in DOMAIN views : /\ rows[m].planned > 0
                                   /\ views[m] = ViewOf(m) /\ views[m] \in ViewType
    BY DEF PlanInv, ViewInv
  <2>3. /\ order \in Seq(DOMAIN rows) /\ Distinct(order) /\ Len(order) \in Nat
        /\ \A i \in 1..Len(order) : order[i] \in DOMAIN rows
        /\ \A i \in 1..Len(order) : \A p \in Parents(order[i]) : \E j \in 1..i - 1 : order[j] = p
    BY Listing DEF PlanInv, OrderInv
  <2>4. Count \in Nat /\ Count + 1 \in 1..Len(order)
    BY <1>1, <2>2, <2>3
  <2> HIDE DEF Count
  <2>5. k \in DOMAIN rows
    BY <2>3, <2>4
  <2>6. k \notin DOMAIN views
    <3> SUFFICES ASSUME NEW i \in 1..Count, order[i] = k PROVE FALSE
      BY <2>2
    <3>1. i \in 1..Len(order) /\ i # Count + 1
      BY <2>3, <2>4
    <3> QED
      BY <2>3, <2>4, <3>1 DEF Distinct
  <2>7. \A p \in Parents(k) : p \in DOMAIN views
    <3> SUFFICES ASSUME NEW p \in Parents(k) PROVE p \in DOMAIN views
      OBVIOUS
    <3>1. PICK j \in 1..(Count + 1) - 1 : order[j] = p
      BY <2>3, <2>4
    <3> QED
      BY <2>2, <2>4, <3>1
  <2>8. \A m \in DOMAIN views : \A p \in Parents(m) : p \in DOMAIN views
    <3> SUFFICES ASSUME NEW i \in 1..Count, NEW p \in Parents(order[i])
                 PROVE  p \in DOMAIN views
      BY <2>2
    <3>1. i \in 1..Len(order)
      BY <2>3, <2>4
    <3>2. PICK j \in 1..i - 1 : order[j] = p
      BY <2>3, <3>1
    <3>3. j \in 1..Count
      BY <2>4, <3>2
    <3> QED
      BY <2>2, <3>2, <3>3
  <2> HIDE DEF k
  <2>9. DOMAIN views' = DOMAIN views \union {k} /\ views'[k] = ViewOf(k)
        /\ \A m \in DOMAIN views : views'[m] = views[m]
    BY <2>1, <2>6
  <2>10. ViewOf(k) \in ViewType /\ rows[k].planned > 0
    <3>1. ViewOf(k) \in ViewType
      BY <2>2, <2>5, <2>7, ViewOfType DEF PlanInv
    <3>2. rows[k].planned \in Nat
      BY <2>5 DEF PlanInv, StoreInv, Row
    <3> QED
      BY <1>3, <3>1, <3>2
  <2>11. ASSUME NEW m \in DOMAIN views'
         PROVE  ViewOf(m)' = ViewOf(m)
    <3>1. \A p \in Parents(m) : views'[p] = views[p]
      BY <2>7, <2>8, <2>9
    <3>2. Parents(m)' = Parents(m) /\ IsDone(m)' = IsDone(m)
      BY <2>1 DEF Parents, IsDone
    <3>3. {views[p].slip : p \in Parents(m)}' = {views[p].slip : p \in Parents(m)}
      BY <3>1, <3>2
    <3>4. Inherited(m)' = Inherited(m)
      BY <3>3 DEF Inherited
    <3>5. Finish(m)' = Finish(m)
      BY <2>1, <3>2, <3>4 DEF Finish
    <3> QED
      BY <2>1, <3>5 DEF ViewOf
  <2>12. IsFiniteSet(DOMAIN views)
    <3>1. DOMAIN views \subseteq DOMAIN rows
      BY <2>2, <2>3, <2>4
    <3> QED
      BY <3>1, RowsFinite, FS_Subset DEF PlanInv
  <2>13. Count' = Count + 1
    BY <2>6, <2>9, <2>12, FS_AddElement DEF Count
  <2>14. StoreInv' /\ CycleInv'
    BY <2>1 DEF PlanInv, StoreInv, CycleInv, Cyclic
  <2>15. OrderInv'
    BY <2>1 DEF PlanInv, OrderInv, Distinct, Parents
  <2>16. KahnInv'
    BY <2>1 DEF PlanInv, KahnInv, Placed, Waiting, RangeOf, Distinct, Parents
  <2>17. ViewInv'
    <3>1. DOMAIN views' = {order'[i] : i \in 1..Count'}
      <4>1. 1..(Count + 1) = (1..Count) \union {Count + 1}
        BY <2>4
      <4> QED
        BY <2>1, <2>2, <2>9, <2>13, <4>1 DEF k
    <3>2. \A m \in DOMAIN views' : /\ rows'[m].planned > 0
                                   /\ views'[m] = ViewOf(m)' /\ views'[m] \in ViewType
      BY <2>1, <2>2, <2>9, <2>10, <2>11
    <3>3. Count' \in 0..Len(order') /\ pc' = "view"
      BY <1>1, <2>1, <2>3, <2>4, <2>13
    <3> QED
      BY <3>1, <3>2, <3>3 DEF ViewInv
  <2> QED
    BY <2>14, <2>15, <2>16, <2>17 DEF PlanInv
<1> QED
  BY <1>2, <1>3

LEMMA ViewedKeeps ==
  ASSUME PlanInv, Viewed
  PROVE  PlanInv'
<1>1. /\ pc = "view" /\ pc' = "planned" /\ Count = Len(order)
      /\ UNCHANGED <<today, board, rows, edges, indegree, ready, order, views, outcome, loads>>
  BY DEF Viewed, Count, storeVars, kahnVars, fileVars
<1>2. StoreInv' /\ CycleInv'
  BY <1>1 DEF PlanInv, StoreInv, CycleInv, Cyclic
<1>3. OrderInv'
  BY <1>1 DEF PlanInv, OrderInv, Distinct, Parents
<1>4. KahnInv'
  BY <1>1 DEF PlanInv, KahnInv, Placed, Waiting, RangeOf, Distinct, Parents
<1>5. ViewInv'
  <2>1. Count' = Count
    BY <1>1 DEF Count
  <2>2. \A k : ViewOf(k)' = ViewOf(k)
    BY <1>1 DEF ViewOf, Finish, Inherited, IsDone, Parents
  <2> QED
    BY <1>1, <2>1, <2>2 DEF PlanInv, ViewInv
<1> QED
  BY <1>2, <1>3, <1>4, <1>5 DEF PlanInv

LEMMA PlanStep == PlanInv /\ [Next]_vars => PlanInv'
<1> SUFFICES ASSUME PlanInv, [Next]_vars PROVE PlanInv'
  OBVIOUS
<1>1. CASE \E f \in PlanFile : Load(f)
  BY <1>1, LoadKeeps
<1>2. CASE Begin
  BY <1>2, BeginKeeps
<1>3. CASE Pop
  BY <1>3, PopKeeps
<1>4. CASE Ordered
  BY <1>4, OrderedKeeps
<1>5. CASE View
  BY <1>5, ViewKeeps
<1>6. CASE Viewed
  BY <1>6, ViewedKeeps
<1>7. CASE Record
  <2>1. EndLook("ok") /\ UNCHANGED <<today, board, rows, edges, fileVars>>
    BY <1>7 DEF Record
  <2> QED
    BY <2>1, EndKeeps
<1>8. CASE Stop
  <2>1. EndLook("none") /\ UNCHANGED <<today, board, rows, edges, fileVars>>
    BY <1>8 DEF Stop, storeVars
  <2> QED
    BY <2>1, EndKeeps
<1>9. CASE NextDay \/ SyncTickets
  BY <1>9, WorldKeeps
<1>10. CASE UNCHANGED vars
  <2>1. UNCHANGED <<today, board, rows, edges, pc, indegree, ready, order, views, outcome, loads>>
    BY <1>10 DEF vars, storeVars, kahnVars, fileVars
  <2>2. StoreInv' /\ CycleInv'
    BY <2>1 DEF PlanInv, StoreInv, CycleInv, Cyclic
  <2>3. OrderInv'
    BY <2>1 DEF PlanInv, OrderInv, Distinct, Parents
  <2>4. KahnInv'
    BY <2>1 DEF PlanInv, KahnInv, Placed, Waiting, RangeOf, Distinct, Parents
  <2>5. ViewInv'
    <3>1. Count' = Count
      BY <2>1 DEF Count
    <3>2. \A k : ViewOf(k)' = ViewOf(k)
      BY <2>1 DEF ViewOf, Finish, Inherited, IsDone, Parents
    <3> QED
      BY <2>1, <3>1, <3>2 DEF PlanInv, ViewInv
  <2> QED
    BY <2>2, <2>3, <2>4, <2>5 DEF PlanInv
<1> QED
  BY <1>1, <1>2, <1>3, <1>4, <1>5, <1>6, <1>7, <1>8, <1>9, <1>10 DEF Next, Build

LEMMA PlanAlways == Spec => []PlanInv
<1>1. Init => PlanInv
  BY PlanInit
<1>2. PlanInv /\ [Next]_vars => PlanInv'
  BY PlanStep
<1> QED
  BY <1>1, <1>2, PTL DEF Spec

---------------------------------------------------------------------------
(* What follows.                                                           *)

LEMMA PlanImpliesTypes == PlanInv => TypeOK
<1> SUFFICES ASSUME PlanInv PROVE TypeOK
  OBVIOUS
<1>1. StoreInv /\ OrderInv
  BY DEF PlanInv
<1>2. DOMAIN indegree \subseteq DOMAIN rows /\ \A k \in DOMAIN indegree : indegree[k] \in Nat
  <2>1. CASE pc = "idle"
    BY <2>1, EmptyTable DEF PlanInv, KahnInv
  <2>2. CASE pc # "idle"
    <3>1. /\ DOMAIN indegree = DOMAIN rows
          /\ \A k \in DOMAIN rows : indegree[k] = Cardinality(Parents(k) \ Placed)
      BY <2>2 DEF PlanInv, KahnInv
    <3>2. \A k : Cardinality(Parents(k) \ Placed) \in Nat
      BY <1>1, RowsFinite, FS_Subset, FS_CardinalityType
    <3> QED
      BY <3>1, <3>2
  <2> QED
    BY <2>1, <2>2
<1>3. DOMAIN views \subseteq DOMAIN rows /\ \A k \in DOMAIN views : views[k] \in ViewType
  <2>1. /\ \A i \in 1..Len(order) : order[i] \in DOMAIN rows
        /\ Len(order) \in Nat
    BY <1>1, Listing DEF OrderInv
  <2>2. /\ Count \in 0..Len(order) /\ DOMAIN views = {order[i] : i \in 1..Count}
        /\ \A k \in DOMAIN views : views[k] \in ViewType
    BY DEF PlanInv, ViewInv
  <2> HIDE DEF Count
  <2> QED
    BY <2>1, <2>2
<1> QED
  BY <1>1, <1>2, <1>3 DEF TypeOK, StoreInv, OrderInv

(* Type correctness, for every set of milestones and every plan.           *)
THEOREM PlanTyped == Spec => []TypeOK
<1>1. PlanInv => TypeOK
  BY PlanImpliesTypes
<1> QED
  BY <1>1, PlanAlways, PTL

(* Whatever the plan, no milestone is placed before what it waits for, nor *)
(* twice (milestones.py:95-117).                                           *)
THEOREM PlacedAfterParents == Spec => []ParentsFirst
<1>1. PlanInv => ParentsFirst
  <2> SUFFICES ASSUME PlanInv, NEW i \in 1..Len(order), NEW j \in 1..Len(order)
               PROVE  /\ order[i] = order[j] => i = j
                      /\ order[j] \in Parents(order[i]) => j < i
    BY DEF ParentsFirst
  <2>1. /\ Distinct(order) /\ Len(order) \in Nat
        /\ \A p \in Parents(order[i]) : \E h \in 1..i - 1 : order[h] = p
    BY Listing DEF PlanInv, OrderInv
  <2>2. ASSUME order[j] \in Parents(order[i]) PROVE j < i
    <3>1. PICK h \in 1..i - 1 : order[h] = order[j]
      BY <2>1, <2>2
    <3>2. h \in 1..Len(order)
      BY <2>1, <3>1
    <3>3. h = j
      BY <2>1, <3>1, <3>2 DEF Distinct
    <3> QED
      BY <3>1, <3>3
  <2> QED
    BY <2>1, <2>2 DEF Distinct
<1> QED
  BY <1>1, PlanAlways, PTL

(* The first of some milestones that are all placed waits for none of the  *)
(* others: what is in order has no cycle.                                  *)
LEMMA OrderedIsAcyclic ==
  ASSUME PlanInv, pc \in {"view", "planned"}
  PROVE  ~Cyclic(edges)
<1> SUFFICES ASSUME NEW S \in (SUBSET {e[1] : e \in edges}) \ {{}},
                    \A k \in S : \E p \in S : <<k, p>> \in edges
             PROVE  FALSE
  BY DEF Cyclic
<1>0. S \subseteq {e[1] : e \in edges} /\ S # {}
  OBVIOUS
<1>1. /\ edges \subseteq (DOMAIN rows) \X (DOMAIN rows) /\ Placed = DOMAIN rows
      /\ \A i \in 1..Len(order) : \A p \in Parents(order[i]) : \E j \in 1..i - 1 : order[j] = p
      /\ Len(order) \in Nat /\ DOMAIN rows \subseteq Key
  BY Listing DEF PlanInv, KahnInv, OrderInv, StoreInv
<1> DEFINE At == {i \in 1..Len(order) : order[i] \in S}
<1>2. At # {}
  <2>1. PICK k \in S : TRUE
    OBVIOUS
  <2>2. k \in DOMAIN rows
    BY <1>1
  <2> QED
    BY <1>1, <2>2 DEF Placed, RangeOf
<1>3. At \in SUBSET Nat
  BY <1>1
<1>4. PICK i \in At : \A j \in At : i <= j
  <2> HIDE DEF At
  <2> QED
    BY <1>2, <1>3, LeastExists
<1>5. PICK p \in S : <<order[i], p>> \in edges
  BY <1>4
<1>6. p \in Parents(order[i])
  BY <1>1, <1>5 DEF Parents
<1>7. PICK j \in 1..i - 1 : order[j] = p
  BY <1>1, <1>4, <1>6
<1>8. j \in At
  BY <1>1, <1>4, <1>7
<1> QED
  BY <1>3, <1>4, <1>7, <1>8

(* Kahn's algorithm gives up on exactly the graphs that have a cycle,      *)
(* whatever the plan (milestones.py:118-120).                              *)
THEOREM StuckOnCyclesOnly == Spec => []CycleIffStuck
<1>1. PlanInv => CycleIffStuck
  BY OrderedIsAcyclic DEF CycleIffStuck, PlanInv, CycleInv
<1> QED
  BY <1>1, PlanAlways, PTL

---------------------------------------------------------------------------
(* What is raised.                                                         *)

(* Facts about one milestone that has been seen.                           *)
LEMMA ViewFacts ==
  ASSUME PlanInv, NEW k \in DOMAIN views
  PROVE  /\ k \in DOMAIN rows /\ rows[k].planned \in Nat /\ rows[k].actual \in Nat
         /\ today \in Nat
         /\ \A p \in Parents(k) : p \in DOMAIN views /\ views[p] \in ViewType
         /\ Inherited(k) \in Nat
         /\ views[k] = ViewOf(k) /\ views[k].slip \in Int
         /\ views[k].finish = Finish(k) /\ views[k].slip = Finish(k) - rows[k].planned
<1>1. /\ StoreInv
      /\ Count \in 0..Len(order) /\ DOMAIN views = {order[i] : i \in 1..Count}
      /\ \A m \in DOMAIN views : views[m] = ViewOf(m) /\ views[m] \in ViewType
      /\ \A i \in 1..Len(order) : order[i] \in DOMAIN rows
      /\ \A i \in 1..Len(order) : \A p \in Parents(order[i]) : \E j \in 1..i - 1 : order[j] = p
      /\ Len(order) \in Nat
  BY Listing DEF PlanInv, ViewInv, OrderInv
<1> HIDE DEF Count
<1>2. PICK i \in 1..Count : order[i] = k
  BY <1>1
<1>3. i \in 1..Len(order) /\ Count \in Nat
  BY <1>1, <1>2
<1>4. k \in DOMAIN rows
  BY <1>1, <1>2, <1>3
<1>5. ASSUME NEW p \in Parents(k) PROVE p \in DOMAIN views /\ views[p] \in ViewType
  <2>1. PICK j \in 1..i - 1 : order[j] = p
    BY <1>1, <1>2, <1>3
  <2>2. j \in 1..Count
    BY <1>3, <2>1
  <2> QED
    BY <1>1, <2>1, <2>2
<1>6. Inherited(k) \in Nat
  BY <1>1, <1>5, InheritedIsGreatest
<1>7. rows[k].planned \in Nat /\ rows[k].actual \in Nat /\ today \in Nat
  BY <1>1, <1>4, PlanAssumption DEF StoreInv, Row
<1>8. views[k] = ViewOf(k) /\ views[k] \in ViewType
  BY <1>1
<1>9. views[k].finish = Finish(k) /\ views[k].slip = Finish(k) - rows[k].planned
  BY <1>8 DEF ViewOf
<1>10. views[k].slip \in Int
  BY <1>8 DEF ViewType
<1> QED
  BY <1>4, <1>5, <1>6, <1>7, <1>8, <1>9, <1>10

LateFound(k) == {f \in Found : /\ f.milestone = k
                               /\ f.rule \in {"milestone_overdue", "projected_late"}}

(* Each open milestone that will land late is raised once, whatever the    *)
(* plan, the board and the day, and no other is (escalation.py:9-19).      *)
THEOREM LateAreFlaggedOnce == Spec => []FlaggedIffLate
<1>1. PlanInv => FlaggedIffLate
  <2> SUFFICES ASSUME PlanInv, NEW k \in Open
               PROVE  views[k].slip > 0 <=> Cardinality(LateFound(k)) = 1
    BY DEF FlaggedIffLate, LateFound
  <2> DEFINE a == Flag(k, "milestone_overdue", 0)
             b == Flag(k, "projected_late", 0)
             late == ~Overdue(k) /\ views[k].finish > rows[k].planned
  <2>1. /\ rows[k].planned \in Nat /\ today \in Nat /\ views[k].finish = Finish(k)
        /\ views[k].slip = Finish(k) - rows[k].planned /\ Inherited(k) \in Nat
        /\ ~IsDone(k) /\ k \in DOMAIN views
    BY ViewFacts DEF Open
  <2>2. Finish(k) \in Nat /\ Finish(k) >= today
    BY <2>1 DEF Finish, Larger
  <2>3. views[k].slip > 0 <=> Overdue(k) \/ late
    BY <2>1, <2>2 DEF Overdue
  <2>4. LateFound(k) = (IF Overdue(k) THEN {a} ELSE {}) \union (IF late THEN {b} ELSE {})
    <3>1. ASSUME NEW f \in LateFound(k)
          PROVE  (Overdue(k) /\ f = a) \/ (late /\ f = b)
      <4>1. /\ f \in OverdueFlags \union TicketFlags \union SlipFlags \union LateFlags \union UnownedFlags
            /\ f.milestone = k /\ f.rule \in {"milestone_overdue", "projected_late"}
        BY DEF LateFound, Found
      <4>2. f \in OverdueFlags \union LateFlags
        <5>1. f \notin TicketFlags
          BY <4>1 DEF TicketFlags, Flag
        <5>2. f \notin SlipFlags
          BY <4>1 DEF SlipFlags, Flag
        <5>3. f \notin UnownedFlags
          BY <4>1 DEF UnownedFlags, Flag
        <5> QED
          BY <4>1, <5>1, <5>2, <5>3
      <4>3. CASE f \in OverdueFlags
        <5>1. PICK m \in Open : Overdue(m) /\ f = Flag(m, "milestone_overdue", 0)
          BY <4>3 DEF OverdueFlags
        <5>2. m = k
          BY <4>1, <5>1 DEF Flag
        <5> QED
          BY <5>1, <5>2
      <4>4. CASE f \in LateFlags
        <5>1. PICK m \in Open : /\ ~Overdue(m) /\ views[m].finish > rows[m].planned
                                /\ f = Flag(m, "projected_late", 0)
          BY <4>4 DEF LateFlags
        <5>2. m = k
          BY <4>1, <5>1 DEF Flag
        <5> QED
          BY <5>1, <5>2
      <4> QED
        BY <4>2, <4>3, <4>4
    <3>2. Overdue(k) => a \in LateFound(k)
      <4>1. a.milestone = k /\ a.rule = "milestone_overdue"
        BY DEF Flag
      <4>2. Overdue(k) => a \in OverdueFlags
        BY DEF OverdueFlags
      <4> QED
        BY <4>1, <4>2 DEF LateFound, Found
    <3>3. late => b \in LateFound(k)
      <4>1. b.milestone = k /\ b.rule = "projected_late"
        BY DEF Flag
      <4>2. late => b \in LateFlags
        BY DEF LateFlags
      <4> QED
        BY <4>1, <4>2 DEF LateFound, Found
    <3> HIDE DEF a, b, late
    <3> QED
      BY <3>1, <3>2, <3>3
  <2>5. ~(Overdue(k) /\ late)
    OBVIOUS
  <2>6. Cardinality({}) = 0 /\ Cardinality({a}) = 1 /\ Cardinality({b}) = 1
    BY FS_EmptySet, FS_Singleton
  <2> HIDE DEF a, b, late
  <2> QED
    BY <2>3, <2>4, <2>5, <2>6
<1> QED
  BY <1>1, PlanAlways, PTL

---------------------------------------------------------------------------
(* Slips from one look to a later one.                                     *)

(* What the rules say of the slip of a milestone of the last plan, on the  *)
(* day that plan was built.                                                *)
LastDone(k)    == last.rows[k].done /\ last.rows[k].actual > 0
LastParents(k) == {p \in Key : <<k, p>> \in last.edges}
LastSlip(k, inherited, d) ==
  IF LastDone(k) THEN last.rows[k].actual - last.rows[k].planned
  ELSE Larger(last.rows[k].planned + inherited, d) - last.rows[k].planned

LastRule(d) ==
  \A k \in DOMAIN last.views :
    /\ k \in DOMAIN last.rows /\ last.views[k].slip \in Int
    /\ LastParents(k) \subseteq DOMAIN last.views
    /\ \E inherited \in {0} \union {last.views[p].slip : p \in LastParents(k)} :
         inherited \in Nat /\ last.views[k].slip = LastSlip(k, inherited, d)

LastInv == \E d \in 1..today : LastRule(d)

LEMMA LastInit == Init => LastInv
<1> SUFFICES ASSUME Init PROVE LastInv
  OBVIOUS
<1>1. DOMAIN last.views = {} /\ today = 1
  BY EmptyTable DEF Init
<1> QED
  BY <1>1 DEF LastInv, LastRule

LEMMA LastStep == PlanInv /\ LastInv /\ [Next]_vars => LastInv'
<1> SUFFICES ASSUME PlanInv, LastInv, [Next]_vars PROVE LastInv'
  OBVIOUS
<1>1. today \in Nat
  BY PlanAssumption DEF PlanInv, StoreInv
<1>2. CASE Record
  <2>1. /\ last' = [rows |-> rows, edges |-> edges, views |-> views]
        /\ UNCHANGED today
    BY <1>2 DEF Record
  <2>2. last'.rows = rows /\ last'.edges = edges /\ last'.views = views
    BY <2>1
  <2>3. ASSUME NEW k \in DOMAIN views
        PROVE  /\ k \in DOMAIN rows /\ views[k].slip \in Int
               /\ LastParents(k)' \subseteq DOMAIN views
               /\ \E inherited \in {0} \union {views[p].slip : p \in LastParents(k)'} :
                    inherited \in Nat /\ views[k].slip = LastSlip(k, inherited, today)'
    <3>1. /\ \A p \in Parents(k) : p \in DOMAIN views /\ views[p] \in ViewType
          /\ Inherited(k) \in Nat /\ views[k].slip \in Int
          /\ views[k].slip = Finish(k) - rows[k].planned
      BY ViewFacts
    <3>2. LastParents(k)' = Parents(k)
      BY <2>2 DEF LastParents, Parents
    <3>3. Inherited(k) \in {0} \union {views[p].slip : p \in Parents(k)}
      BY <3>1, InheritedIsGreatest DEF PlanInv, Slips
    <3>4. PICK h \in Nat : h = Inherited(k)
      BY <3>1
    <3>5. views[k].slip = LastSlip(k, h, today)'
      BY <2>1, <2>2, <3>1, <3>4 DEF LastSlip, LastDone, IsDone, Finish
    <3>6. h \in {0} \union {views[p].slip : p \in LastParents(k)'}
      BY <3>2, <3>3, <3>4
    <3> QED
      BY <3>1, <3>2, <3>5, <3>6, ViewFacts
  <2>4. LastRule(today)'
    BY <2>2, <2>3 DEF LastRule
  <2>5. today' \in 1..today'
    BY <2>1, PlanAssumption DEF PlanInv, StoreInv
  <2> QED
    BY <2>1, <2>4, <2>5 DEF LastInv
<1>3. CASE UNCHANGED last /\ today' \in {today, today + 1}
  <2>1. PICK d \in 1..today : LastRule(d)
    BY DEF LastInv
  <2>2. LastRule(d)'
    BY <1>3, <2>1 DEF LastRule, LastParents, LastSlip, LastDone
  <2>3. d \in 1..today'
    BY <1>1, <1>3
  <2> QED
    BY <2>2, <2>3 DEF LastInv
<1>4. Record \/ (UNCHANGED last /\ today' \in {today, today + 1})
  BY DEF Next, Build, Load, Begin, Pop, Ordered, View, Viewed, Stop, NextDay, SyncTickets, vars
<1> QED
  BY <1>2, <1>3, <1>4

LEMMA LastAlways == Spec => [](PlanInv /\ LastInv)
<1>1. Init => LastInv
  BY LastInit
<1>2. PlanInv /\ LastInv /\ [Next]_vars => LastInv'
  BY LastStep
<1> QED
  BY <1>1, <1>2, PlanAlways, PTL DEF Spec

(* A delay does not heal by waiting, however many days pass and whatever   *)
(* is looked at in between (milestones.py:8-28).                           *)
THEOREM SlipsNeverHeal == Spec => []SlipNeverHeals
<1>1. PlanInv /\ LastInv => SlipNeverHeals
  <2> SUFFICES ASSUME PlanInv, LastInv, pc = "planned",
                      last.rows = rows, last.edges = edges,
                      NEW m \in DOMAIN last.views,
                      ~(views[m].slip >= last.views[m].slip)
               PROVE  FALSE
    BY DEF SlipNeverHeals
  <2> DEFINE Healed == {i \in 1..Len(order) :
                          /\ order[i] \in DOMAIN last.views
                          /\ ~(views[order[i]].slip >= last.views[order[i]].slip)}
  <2>1. PICK d \in 1..today : LastRule(d)
    BY DEF LastInv
  <2>2. /\ Placed = DOMAIN rows /\ Len(order) \in Nat
        /\ DOMAIN views = {order[i] : i \in 1..Len(order)}
        /\ \A i \in 1..Len(order) : \A p \in Parents(order[i]) : \E j \in 1..i - 1 : order[j] = p
    BY Listing DEF PlanInv, OrderInv, KahnInv, ViewInv
  <2>3. Healed # {}
    <3>1. m \in Placed
      BY <2>1, <2>2 DEF LastRule
    <3> QED
      BY <3>1 DEF Placed, RangeOf
  <2>4. Healed \in SUBSET Nat
    BY <2>2
  <2>5. PICK i \in Healed : \A j \in Healed : i <= j
    <3> HIDE DEF Healed
    <3> QED
      BY <2>3, <2>4, LeastExists
  <2>6. PICK k : k = order[i]
    OBVIOUS
  <2>7. k \in DOMAIN views /\ k \in DOMAIN last.views /\ i \in 1..Len(order)
    BY <2>2, <2>5, <2>6
  <2>8. /\ rows[k].planned \in Nat /\ rows[k].actual \in Nat /\ today \in Nat
        /\ \A p \in Parents(k) : p \in DOMAIN views /\ views[p] \in ViewType
        /\ Inherited(k) \in Nat /\ views[k].slip \in Int
        /\ views[k].slip = Finish(k) - rows[k].planned
    BY <2>7, ViewFacts
  <2>9. LastParents(k) = Parents(k) /\ (LastDone(k) <=> IsDone(k))
    BY DEF LastParents, Parents, LastDone, IsDone
  <2>10. PICK h \in {0} \union {last.views[p].slip : p \in Parents(k)} :
           h \in Nat /\ last.views[k].slip = LastSlip(k, h, d)
    BY <2>1, <2>7, <2>9 DEF LastRule
  <2>11. /\ LastParents(k) \subseteq DOMAIN last.views /\ last.views[k].slip \in Int
         /\ \A p \in DOMAIN last.views : last.views[p].slip \in Int
    BY <2>1, <2>7 DEF LastRule
  <2>12. \A n \in Slips(k) : Inherited(k) >= n
    BY <2>8, InheritedIsGreatest DEF PlanInv
  <2>13. Inherited(k) >= h
    <3>1. CASE h = 0
      BY <2>8, <3>1
    <3>2. CASE h # 0
      <4>1. PICK p \in Parents(k) : h = last.views[p].slip
        BY <2>10, <3>2
      <4>2. PICK j \in 1..i - 1 : order[j] = p
        BY <2>2, <2>6, <2>7, <4>1
      <4>3. j \in 1..Len(order) /\ j < i
        BY <2>2, <2>7, <4>2
      <4>4. j \notin Healed
        BY <2>4, <2>5, <4>3
      <4>5. p \in DOMAIN last.views
        BY <2>9, <2>11, <4>1
      <4>6. views[p].slip >= last.views[p].slip
        BY <4>2, <4>3, <4>4, <4>5
      <4>7. views[p].slip \in Slips(k) /\ views[p].slip \in Int
        BY <2>8, <4>1 DEF Slips, ViewType
      <4>8. Inherited(k) >= views[p].slip
        BY <2>12, <4>7
      <4> QED
        BY <2>8, <2>10, <4>1, <4>6, <4>7, <4>8
    <3> QED
      BY <3>1, <3>2
  <2>14. d \in Nat /\ d <= today
    BY <2>8
  <2>15. views[k].slip >= last.views[k].slip
    <3>1. CASE IsDone(k)
      BY <2>8, <2>9, <2>10, <3>1 DEF Finish, LastSlip
    <3>2. CASE ~IsDone(k)
      <4>1. /\ views[k].slip = Larger(rows[k].planned + Inherited(k), today) - rows[k].planned
            /\ last.views[k].slip = Larger(rows[k].planned + h, d) - rows[k].planned
        BY <2>8, <2>9, <2>10, <3>2 DEF Finish, LastSlip
      <4>2. Larger(rows[k].planned + Inherited(k), today) >= Larger(rows[k].planned + h, d)
        BY <2>8, <2>10, <2>13, <2>14 DEF Larger
      <4>3. /\ Larger(rows[k].planned + Inherited(k), today) \in Int
            /\ Larger(rows[k].planned + h, d) \in Int
        BY <2>8, <2>10, <2>14 DEF Larger
      <4> QED
        BY <2>8, <4>1, <4>2, <4>3
    <3> QED
      BY <3>1, <3>2
  <2> QED
    BY <2>5, <2>6, <2>15
<1> QED
  BY <1>1, LastAlways, PTL

---------------------------------------------------------------------------
(* The worst slip upstream.                                                *)

Way(path, n, k, u) ==
  /\ path \in [0..n -> DOMAIN rows] /\ path[0] = k /\ path[n] = u
  /\ \A i \in 0..n - 1 : ~IsDone(path[i]) /\ path[i + 1] \in Parents(path[i])

LEMMA UpstreamMember ==
  ASSUME NEW k, NEW u, NEW n \in 0..Cardinality(DOMAIN rows), NEW path, Way(path, n, k, u)
  PROVE  u \in Upstream(k)
<1>1. path \in [0..n -> DOMAIN rows] /\ path[n] = u /\ n \in Nat
  <2>1. n \in Nat
    OBVIOUS
  <2> QED
    BY <2>1 DEF Way
<1>2. u \in DOMAIN rows
  BY <1>1
<1> QED
  BY <1>1, <1>2 DEF Way, Upstream

LEMMA UpstreamWay ==
  ASSUME NEW k, NEW u \in Upstream(k)
  PROVE  \E n \in 0..Cardinality(DOMAIN rows) : \E path : Way(path, n, k, u)
BY DEF Upstream, Way

LEMMA OrderFacts ==
  ASSUME PlanInv
  PROVE  /\ Len(order) \in Nat /\ \A i \in 1..Len(order) : order[i] \in DOMAIN rows
         /\ \A i \in 1..Len(order) : \A p \in Parents(order[i]) : \E j \in 1..i - 1 : order[j] = p
BY Listing DEF PlanInv, OrderInv

(* Each step of a path goes back in the order.                             *)
LEMMA PathsAreShort ==
  ASSUME PlanInv, NEW j \in 1..Len(order), NEW n \in Nat, NEW path, NEW u,
         Way(path, n, order[j], u)
  PROVE  n <= j - 1
<1> DEFINE Back(i) == \E q \in 1..j - i : order[q] = path[i]
           Bad == {i \in 0..n : ~Back(i)}
<1>0. Len(order) \in Nat
  BY OrderFacts
<1>1. /\ Len(order) \in Nat /\ j \in Nat
      /\ \A i \in 1..Len(order) : \A p \in Parents(order[i]) : \E h \in 1..i - 1 : order[h] = p
  <2>1. j \in Nat
    BY <1>0
  <2> HIDE DEF Back, Bad
  <2> QED
    BY <1>0, <2>1, OrderFacts, Zenon
<1>2. Bad = {}
  <2> SUFFICES ASSUME Bad # {} PROVE FALSE
    OBVIOUS
  <2>1. Bad \in SUBSET Nat
    OBVIOUS
  <2>2. PICK i \in Bad : \A h \in Bad : i <= h
    <3> HIDE DEF Bad
    <3> QED
      BY <2>1, LeastExists
  <2>3. i # 0
    <3>1. j \in 1..j - 0 /\ order[j] = path[0]
      BY <1>1 DEF Way
    <3>2. Back(0)
      BY <3>1
    <3> HIDE DEF Back
    <3> QED
      BY <2>2, <3>2
  <2>4. i - 1 \in 0..n - 1 /\ i - 1 \in 0..n /\ (i - 1) + 1 = i /\ ~(i <= i - 1) /\ i \in Nat
    BY <2>1, <2>2, <2>3
  <2>5. Back(i - 1)
    <3> HIDE DEF Back
    <3> QED
      BY <2>2, <2>4
  <2>6. PICK q \in 1..j - (i - 1) : order[q] = path[i - 1]
    BY <2>5
  <2>7. path[i] \in Parents(order[q])
    BY <2>4, <2>6 DEF Way
  <2>8. q \in 1..Len(order) /\ q \in Nat
    BY <1>1, <2>4, <2>6
  <2>9. PICK h \in 1..q - 1 : order[h] = path[i]
    BY <1>1, <2>7, <2>8
  <2>10. h \in 1..j - i
    BY <1>1, <2>4, <2>6, <2>8, <2>9
  <2>11. Back(i)
    BY <2>9, <2>10
  <2> HIDE DEF Back
  <2> QED
    BY <2>2, <2>11
<1>3. n \in 0..n
  OBVIOUS
<1>4. Back(n)
  <2> HIDE DEF Back
  <2> QED
    BY <1>2, <1>3
<1> QED
  BY <1>1, <1>4

LEMMA UpstreamSelf ==
  ASSUME StoreInv, NEW k \in DOMAIN rows
  PROVE  k \in Upstream(k)
<1>1. Way([i \in 0..0 |-> k], 0, k, k)
  BY DEF Way
<1>2. 0 \in 0..Cardinality(DOMAIN rows)
  BY RowsFinite, FS_CardinalityType
<1> QED
  BY <1>1, <1>2, UpstreamMember

LEMMA UpstreamDone ==
  ASSUME NEW k, IsDone(k), NEW u \in Upstream(k)
  PROVE  u = k
<1>0. PICK n \in 0..Cardinality(DOMAIN rows) : \E path : Way(path, n, k, u)
  BY UpstreamWay
<1>1. PICK path : Way(path, n, k, u)
  BY <1>0
<1>2. CASE n = 0
  BY <1>1, <1>2 DEF Way
<1>3. CASE n # 0
  <2>1. 0 \in 0..n - 1
    BY <1>3
  <2> QED
    BY <1>1, <2>1 DEF Way
<1> QED
  BY <1>2, <1>3

(* What is upstream of a milestone an open one waits for is upstream of it.*)
LEMMA UpstreamOfParent ==
  ASSUME PlanInv, NEW i \in 1..Len(order), NEW k, k = order[i], ~IsDone(k),
         NEW p \in Parents(k), NEW u \in Upstream(p)
  PROVE  u \in Upstream(k)
<1>0. PICK n \in 0..Cardinality(DOMAIN rows) : \E path : Way(path, n, p, u)
  BY UpstreamWay
<1>1. PICK path : Way(path, n, p, u)
  BY <1>0
<1>2. /\ Len(order) \in Nat /\ k \in DOMAIN rows /\ i \in Nat /\ n \in Nat
      /\ \A h \in 1..Len(order) : \A q \in Parents(order[h]) : \E j \in 1..h - 1 : order[j] = q
  <2>1. /\ Len(order) \in Nat /\ \A h \in 1..Len(order) : order[h] \in DOMAIN rows
        /\ \A h \in 1..Len(order) : \A q \in Parents(order[h]) : \E j \in 1..h - 1 : order[j] = q
    BY OrderFacts, Zenon
  <2>2. i \in Nat /\ n \in Nat /\ k \in DOMAIN rows
    BY <2>1
  <2> QED
    BY <2>1, <2>2
<1>3. PICK j \in 1..i - 1 : order[j] = p
  BY <1>2
<1>4. j \in 1..Len(order)
  BY <1>2, <1>3
<1>5. n <= j - 1
  BY <1>1, <1>2, <1>3, <1>4, PathsAreShort
<1>6. Len(order) <= Cardinality(DOMAIN rows) /\ Cardinality(DOMAIN rows) \in Nat
  <2>1. /\ IsFiniteSet(DOMAIN rows) /\ Placed \in SUBSET (DOMAIN rows)
        /\ order \in Seq(DOMAIN rows) /\ Distinct(order)
    BY RowsFinite, Listing DEF PlanInv, OrderInv, Placed
  <2>2. Cardinality(Placed) = Len(order)
    BY <2>1, ListingCounts DEF Placed
  <2>3. Cardinality(Placed) <= Cardinality(DOMAIN rows)
    BY <2>1, FS_Subset
  <2> QED
    BY <2>1, <2>2, <2>3, FS_CardinalityType
<1>7. n + 1 \in 0..Cardinality(DOMAIN rows)
  BY <1>2, <1>3, <1>5, <1>6
<1> DEFINE longer == [h \in 0..n + 1 |-> IF h = 0 THEN k ELSE path[h - 1]]
<1>8. Way(longer, n + 1, k, u)
  <2>1. \A h \in 0..n + 1 : h # 0 => h - 1 \in 0..n
    BY <1>2
  <2>2. longer \in [0..n + 1 -> DOMAIN rows]
    BY <1>1, <1>2, <2>1 DEF Way
  <2>3. longer[0] = k /\ longer[n + 1] = u
    BY <1>1, <1>2 DEF Way
  <2>4. ASSUME NEW h \in 0..(n + 1) - 1
        PROVE  ~IsDone(longer[h]) /\ longer[h + 1] \in Parents(longer[h])
    <3>1. longer[h + 1] = path[h]
      BY <1>2
    <3>2. CASE h = 0
      BY <1>1, <3>1, <3>2, <2>3 DEF Way
    <3>3. CASE h # 0
      <4>1. h - 1 \in 0..n - 1 /\ (h - 1) + 1 = h /\ longer[h] = path[h - 1]
        BY <1>2, <3>3
      <4> QED
        BY <1>1, <3>1, <4>1 DEF Way
    <3> QED
      BY <3>2, <3>3
  <2> QED
    BY <2>2, <2>3, <2>4 DEF Way
<1> HIDE DEF longer
<1> QED
  BY <1>7, <1>8, UpstreamMember

(* What is upstream of a milestone is itself, or upstream of one it waits  *)
(* for.                                                                    *)
LEMMA UpstreamFirst ==
  ASSUME StoreInv, NEW k, NEW u \in Upstream(k), u # k
  PROVE  ~IsDone(k) /\ \E p \in Parents(k) : u \in Upstream(p)
<1>0. PICK n \in 0..Cardinality(DOMAIN rows) : \E path : Way(path, n, k, u)
  BY UpstreamWay
<1>1. PICK path : Way(path, n, k, u)
  BY <1>0
<1>2. n # 0
  BY <1>1 DEF Way
<1>3. Cardinality(DOMAIN rows) \in Nat
  BY RowsFinite, FS_CardinalityType
<1>4. n \in Nat /\ n - 1 \in 0..Cardinality(DOMAIN rows) /\ 0 \in 0..n - 1
  BY <1>2, <1>3
<1>5. ~IsDone(k) /\ path[1] \in Parents(k)
  BY <1>1, <1>4 DEF Way
<1> DEFINE shorter == [h \in 0..n - 1 |-> path[h + 1]]
<1>6. Way(shorter, n - 1, path[1], u)
  <2>1. \A h \in 0..n - 1 : h + 1 \in 0..n
    BY <1>4
  <2>2. shorter \in [0..n - 1 -> DOMAIN rows]
    BY <1>1, <2>1 DEF Way
  <2>3. shorter[0] = path[1] /\ shorter[n - 1] = u
    BY <1>1, <1>4 DEF Way
  <2>4. ASSUME NEW h \in 0..(n - 1) - 1
        PROVE  ~IsDone(shorter[h]) /\ shorter[h + 1] \in Parents(shorter[h])
    <3>1. /\ h + 1 \in 0..n - 1 /\ h \in 0..n - 1
          /\ shorter[h] = path[h + 1] /\ shorter[h + 1] = path[(h + 1) + 1]
      BY <1>4
    <3> QED
      BY <1>1, <3>1 DEF Way
  <2> QED
    BY <2>2, <2>3, <2>4 DEF Way
<1> HIDE DEF shorter
<1>7. u \in Upstream(path[1])
  BY <1>4, <1>6, UpstreamMember
<1> QED
  BY <1>5, <1>7

(* What a milestone passes on is the worst upstream of it, or nothing.     *)
PassedOn(k) == Larger(0, views[k].slip)
WorstIsPassedOn(k) ==
  /\ PassedOn(k) \in {0} \union {OwnSlip(u) : u \in Upstream(k)}
  /\ \A u \in Upstream(k) : PassedOn(k) >= OwnSlip(u)

LEMMA OwnSlipType ==
  ASSUME StoreInv, NEW k, NEW u \in Upstream(k)
  PROVE  u \in DOMAIN rows /\ OwnSlip(u) \in Int
<1>1. u \in DOMAIN rows
  BY DEF Upstream
<1>2. rows[u].planned \in Nat /\ rows[u].actual \in Nat /\ today \in Nat
  BY <1>1, PlanAssumption DEF StoreInv, Row
<1> QED
  BY <1>1, <1>2 DEF OwnSlip

(* One milestone, when it holds of all that comes before it in the order.  *)
LEMMA WorstStep ==
  ASSUME PlanInv, NEW i \in 1..Len(order), NEW k, k = order[i], k \in DOMAIN views,
         \A p \in Parents(k) : WorstIsPassedOn(p)
  PROVE  WorstIsPassedOn(k)
<1>1. /\ k \in DOMAIN rows /\ rows[k].planned \in Nat /\ rows[k].actual \in Nat
      /\ today \in Nat
      /\ \A p \in Parents(k) : p \in DOMAIN views /\ views[p] \in ViewType
      /\ Inherited(k) \in Nat /\ views[k].slip \in Int
      /\ views[k].slip = Finish(k) - rows[k].planned
  BY ViewFacts
<1>2. StoreInv /\ k \in Upstream(k) /\ OwnSlip(k) \in Int
  BY <1>1, UpstreamSelf, OwnSlipType DEF PlanInv
<1>3. PassedOn(k) \in Nat /\ PassedOn(k) >= views[k].slip
  BY <1>1 DEF PassedOn, Larger
<1>4. CASE IsDone(k)
  <2>1. views[k].slip = OwnSlip(k)
    BY <1>1, <1>4 DEF Finish, OwnSlip
  <2>2. \A u \in Upstream(k) : u = k
    BY <1>4, UpstreamDone
  <2>3. PassedOn(k) \in {0, OwnSlip(k)}
    BY <2>1 DEF PassedOn, Larger
  <2> QED
    BY <1>2, <1>3, <2>1, <2>2, <2>3 DEF WorstIsPassedOn
<1>5. CASE ~IsDone(k)
  <2>1. /\ views[k].slip = Larger(rows[k].planned + Inherited(k), today) - rows[k].planned
        /\ OwnSlip(k) = today - rows[k].planned
    BY <1>1, <1>5 DEF Finish, OwnSlip
  <2>2. PassedOn(k) = views[k].slip /\ views[k].slip = Larger(Inherited(k), OwnSlip(k))
    <3>1. CASE rows[k].planned + Inherited(k) >= today
      BY <1>1, <2>1, <3>1 DEF Larger, PassedOn
    <3>2. CASE ~(rows[k].planned + Inherited(k) >= today)
      BY <1>1, <2>1, <3>2 DEF Larger, PassedOn
    <3> QED
      BY <3>1, <3>2
  <2>3. Inherited(k) \in Slips(k) /\ \A n \in Slips(k) : Inherited(k) >= n
    BY <1>1, <1>2, InheritedIsGreatest
  <2>4. PassedOn(k) >= Inherited(k) /\ PassedOn(k) >= OwnSlip(k)
    BY <1>1, <1>2, <2>2 DEF Larger
  <2>5. ASSUME NEW u \in Upstream(k)
        PROVE  PassedOn(k) >= OwnSlip(u)
    <3>1. CASE u = k
      BY <2>4, <3>1
    <3>2. CASE u # k
      <4>1. PICK p \in Parents(k) : u \in Upstream(p)
        BY <1>2, <3>2, UpstreamFirst
      <4>2. PassedOn(p) >= OwnSlip(u)
        BY <4>1 DEF WorstIsPassedOn
      <4>3. views[p].slip \in Slips(k) /\ views[p].slip \in Int
        BY <1>1, <4>1 DEF Slips, ViewType
      <4>4. Inherited(k) >= views[p].slip
        BY <2>3, <4>3
      <4>5. Inherited(k) >= PassedOn(p) /\ PassedOn(p) \in Int
        BY <1>1, <4>3, <4>4 DEF PassedOn, Larger
      <4>6. OwnSlip(u) \in Int
        BY <1>2, OwnSlipType
      <4> QED
        BY <1>1, <1>3, <2>4, <4>2, <4>5, <4>6
    <3> QED
      BY <3>1, <3>2
  <2>6. PassedOn(k) \in {0} \union {OwnSlip(u) : u \in Upstream(k)}
    <3>1. CASE PassedOn(k) = OwnSlip(k)
      BY <1>2, <3>1
    <3>2. CASE PassedOn(k) = Inherited(k) /\ Inherited(k) # 0
      <4>1. PICK p \in Parents(k) : Inherited(k) = views[p].slip
        BY <2>3, <3>2 DEF Slips
      <4>2. PassedOn(p) = Inherited(k)
        BY <1>1, <4>1 DEF PassedOn, Larger
      <4>3. PICK u \in Upstream(p) : PassedOn(p) = OwnSlip(u)
        BY <3>2, <4>1, <4>2 DEF WorstIsPassedOn
      <4>4. u \in Upstream(k)
        BY <1>5, <4>1, <4>3, UpstreamOfParent
      <4> QED
        BY <3>2, <4>2, <4>3, <4>4
    <3>3. PassedOn(k) = OwnSlip(k) \/ PassedOn(k) = Inherited(k)
      BY <2>2 DEF Larger
    <3> QED
      BY <3>1, <3>2, <3>3
  <2> QED
    BY <2>5, <2>6 DEF WorstIsPassedOn
<1> QED
  BY <1>4, <1>5

LEMMA WorstAlways ==
  ASSUME PlanInv, NEW m \in DOMAIN views
  PROVE  WorstIsPassedOn(m)
<1> SUFFICES ASSUME ~WorstIsPassedOn(m) PROVE FALSE
  OBVIOUS
<1> DEFINE Bad == {i \in 1..Len(order) : order[i] \in DOMAIN views /\ ~WorstIsPassedOn(order[i])}
<1>1. /\ Len(order) \in Nat /\ Count \in 0..Len(order)
      /\ DOMAIN views = {order[i] : i \in 1..Count}
      /\ \A i \in 1..Len(order) : \A p \in Parents(order[i]) : \E j \in 1..i - 1 : order[j] = p
  BY OrderFacts, Zenon DEF PlanInv, ViewInv
<1>2. Bad # {}
  <2> HIDE DEF Count
  <2>1. PICK i \in 1..Count : order[i] = m
    BY <1>1
  <2>2. i \in 1..Len(order)
    BY <1>1
  <2> QED
    BY <2>1, <2>2
<1>3. Bad \in SUBSET Nat
  BY <1>1
<1>4. PICK i \in Bad : \A j \in Bad : i <= j
  <2> HIDE DEF Bad
  <2> QED
    BY <1>2, <1>3, LeastExists
<1>5. PICK k : k = order[i]
  OBVIOUS
<1>6. k \in DOMAIN views /\ i \in 1..Len(order) /\ ~WorstIsPassedOn(k)
  BY <1>4, <1>5
<1>7. ASSUME NEW p \in Parents(k)
      PROVE  WorstIsPassedOn(p)
  <2>1. PICK j \in 1..i - 1 : order[j] = p
    BY <1>1, <1>5, <1>6
  <2>2. j \in 1..Len(order) /\ ~(i <= j)
    BY <1>1, <1>6, <2>1
  <2>3. p \in DOMAIN views
    BY <1>6, ViewFacts
  <2> QED
    BY <1>4, <2>1, <2>2, <2>3
<1> QED
  BY <1>5, <1>6, <1>7, WorstStep

(* The slip derived one edge at a time is the worst slip anywhere upstream,*)
(* for every graph of milestones (milestones.py:8-28).                     *)
THEOREM SlipIsTheWorst == Spec => []SlipIsWorstUpstream
<1>1. PlanInv => SlipIsWorstUpstream
  <2> SUFFICES ASSUME PlanInv, NEW k \in DOMAIN views
               PROVE  views[k].slip = IF IsDone(k) THEN OwnSlip(k)
                                      ELSE MaxOf({0} \union {OwnSlip(u) : u \in Upstream(k)})
    BY DEF SlipIsWorstUpstream
  <2>1. /\ k \in DOMAIN rows /\ rows[k].planned \in Nat /\ rows[k].actual \in Nat
        /\ today \in Nat /\ Inherited(k) \in Nat /\ views[k].slip \in Int
        /\ views[k].slip = Finish(k) - rows[k].planned
    BY ViewFacts
  <2>2. CASE IsDone(k)
    BY <2>1, <2>2 DEF Finish, OwnSlip
  <2>3. CASE ~IsDone(k)
    <3> DEFINE S == {0} \union {OwnSlip(u) : u \in Upstream(k)}
    <3>1. views[k].slip >= 0
      BY <2>1, <2>3 DEF Finish, Larger
    <3>2. PassedOn(k) = views[k].slip
      BY <2>1, <3>1 DEF PassedOn, Larger
    <3>3. S \in SUBSET Int
      BY OwnSlipType DEF PlanInv
    <3>4. views[k].slip \in S /\ \A n \in S : views[k].slip >= n
      BY <3>1, <3>2, WorstAlways DEF WorstIsPassedOn
    <3> HIDE DEF S
    <3>5. MaxOf(S) = views[k].slip
      BY <3>3, <3>4, GreatestUnique
    <3> QED
      BY <2>3, <3>5 DEF S
  <2> QED
    BY <2>2, <2>3
<1> QED
  BY <1>1, PlanAlways, PTL

=============================================================================
