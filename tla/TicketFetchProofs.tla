----------------------------- MODULE TicketFetchProofs -----------------------------
(* Theorems about the ticket client and its endpoint, for every board,     *)
(* page size, quota, window, budget and schedule.                          *)
EXTENDS TicketFetch, FiniteSetTheorems, SequenceTheorems, TLAPS

LEMMA Parameters ==
  /\ IssueCount \in Nat /\ IssueCount > 0 /\ PageSize \in Nat /\ PageSize > 0
  /\ Limit \in Nat /\ Limit > 0 /\ Window \in Nat /\ Window > 0
  /\ Attempts \in Nat /\ Attempts > 0
  /\ Base \in Nat /\ MaxDelay \in Nat /\ MaxEdits \in Nat
BY FetchAssumption

---------------------------------------------------------------------------
(* Numbers.                                                                *)

(* A bounded set of numbers that is not empty has a greatest one: the one  *)
(* closest to the bound.                                                   *)
LEMMA GreatestExists ==
  ASSUME NEW S \in SUBSET Nat, S # {}, NEW b \in Nat, \A s \in S : s <= b
  PROVE  \E m \in S : \A s \in S : m >= s
<1> DEFINE Below == {n \in Nat : \E s \in S : n = b - s}
<1>1. Below \subseteq Nat /\ Below # {}
  <2>1. PICK s \in S : TRUE
    OBVIOUS
  <2>2. b - s \in Below
    BY <2>1
  <2> QED
    BY <2>2
<1> HIDE DEF Below
<1>2. PICK n \in Below : \A k \in Below : ~(<<k, n>> \in OpToRel(<, Nat))
  BY <1>1, NatLessThanWellFounded, WFMin, Zenon
<1>3. \A k \in Below : ~(k < n)
  BY <1>1, <1>2 DEF OpToRel
<1>4. PICK m \in S : n = b - m
  BY DEF Below
<1>5. ASSUME NEW s \in S PROVE m >= s
  <2>1. b - s \in Below
    BY DEF Below
  <2> QED
    BY <1>3, <1>4, <2>1
<1> QED
  BY <1>5

LEMMA PowersOfTwo == ASSUME NEW n \in Nat PROVE 2 ^ n \in Nat
<1>1. IsFiniteSet(1..n) /\ Cardinality(1..n) = n
  BY FS_Interval
<1>2. IsFiniteSet(SUBSET (1..n)) /\ Cardinality(SUBSET (1..n)) = 2 ^ n
  BY <1>1, FS_SUBSET
<1> QED
  BY <1>2, FS_CardinalityType

---------------------------------------------------------------------------
(* The bucket's list of stamps.                                            *)

OldestFirst(ages) == \A m, n \in 1..Len(ages) : m < n => ages[m] >= ages[n]

Stamps(ages) == ages \in Seq(0..Window) /\ OldestFirst(ages)

Gone(ages) == Cardinality(Aged(ages))

(* What aged out is an initial segment, so to drop as many is to drop them.*)
LEMMA AgedFirst ==
  ASSUME NEW ages, Stamps(ages)
  PROVE  Gone(ages) \in 0..Len(ages) /\ Aged(ages) = 1..Gone(ages)
<1> DEFINE A == Aged(ages)
           c == Cardinality(A)
<1>1. /\ Len(ages) \in Nat /\ DOMAIN ages = 1..Len(ages)
      /\ \A n \in 1..Len(ages) : ages[n] \in 0..Window
  BY LenProperties, ElementOfSeq DEF Stamps
<1>2. IsFiniteSet(1..Len(ages)) /\ Cardinality(1..Len(ages)) = Len(ages)
  BY <1>1, FS_Interval
<1>3. A \subseteq 1..Len(ages)
  BY <1>1 DEF Aged
<1>4. IsFiniteSet(A) /\ c \in Nat /\ c <= Len(ages)
  BY <1>2, <1>3, FS_Subset, FS_CardinalityType
<1>5. ASSUME NEW n \in A PROVE n <= c
  <2>1. n \in 1..Len(ages)
    BY <1>3
  <2>2. 1..n \subseteq A
    BY <1>1, <2>1, Parameters DEF Aged, InWindow, Stamps, OldestFirst
  <2>3. Cardinality(1..n) = n
    BY <1>1, <2>1, FS_Interval
  <2>4. Cardinality(1..n) <= c
    BY <1>4, <2>2, FS_Subset
  <2> QED
    BY <2>3, <2>4
<1>6. A \subseteq 1..c
  <2> HIDE DEF c
  <2> QED
    BY <1>3, <1>4, <1>5
<1>7. IsFiniteSet(1..c) /\ Cardinality(1..c) = c
  <2> HIDE DEF c
  <2> QED
    BY <1>4, FS_Interval
<1> QED
  BY <1>1, <1>4, <1>6, <1>7, FS_Subset DEF Gone

LEMMA WithinProperties ==
  ASSUME NEW ages, Stamps(ages)
  PROVE  /\ Within(ages) \in Seq(0..(Window - 1)) /\ Stamps(Within(ages))
         /\ Gone(ages) \in 0..Len(ages) /\ Len(Within(ages)) = Len(ages) - Gone(ages)
         /\ \A n \in 1..Len(Within(ages)) : Within(ages)[n] = ages[n + Gone(ages)]
<1> DEFINE c == Gone(ages)
<1>1. /\ c \in 0..Len(ages) /\ Aged(ages) = 1..c
      /\ Len(ages) \in Nat /\ DOMAIN ages = 1..Len(ages)
      /\ \A n \in 1..Len(ages) : ages[n] \in 0..Window
  BY AgedFirst, LenProperties, ElementOfSeq DEF Stamps
<1> HIDE DEF c
<1>2. \A n \in c + 1 .. Len(ages) : ages[n] \in 0..(Window - 1)
  <2> SUFFICES ASSUME NEW n \in c + 1 .. Len(ages) PROVE ages[n] \in 0..(Window - 1)
    OBVIOUS
  <2>1. c \in Nat /\ n \in Nat /\ n > c /\ n <= Len(ages)
    BY <1>1
  <2>2. n \in 1..Len(ages)
    BY <1>1, <2>1
  <2>3. n \notin Aged(ages)
    BY <1>1, <2>1
  <2> QED
    BY <1>1, <2>2, <2>3, Parameters DEF Aged, InWindow
<1>3. /\ c + 1 \in Int /\ Len(ages) \in Int
      /\ Within(ages) = SubSeq(ages, c + 1, Len(ages))
  BY <1>1 DEF Within, Gone, c
<1>4. /\ Within(ages) \in Seq(0..(Window - 1))
      /\ Len(Within(ages)) = Len(ages) - c
      /\ \A n \in 1..(Len(ages) - c) : Within(ages)[n] = ages[n + c]
  <2> DEFINE W == SubSeq(ages, c + 1, Len(ages))
  <2>1. /\ W \in Seq(0..(Window - 1))
        /\ Len(W) = IF c + 1 <= Len(ages) THEN Len(ages) - (c + 1) + 1 ELSE 0
        /\ \A i \in 1 .. Len(ages) - (c + 1) + 1 : W[i] = ages[c + 1 + i - 1]
    BY <1>2, <1>3, SubSeqProperties
  <2> HIDE DEF W
  <2>2. Len(W) = Len(ages) - c /\ Len(ages) - (c + 1) + 1 = Len(ages) - c
    <3>1. c \in Nat /\ Len(ages) \in Nat /\ c <= Len(ages)
      BY <1>1
    <3>2. Len(ages) - (c + 1) + 1 = Len(ages) - c
      BY <3>1
    <3>3. CASE c + 1 <= Len(ages)
      BY <2>1, <3>2, <3>3
    <3>4. CASE c = Len(ages)
      BY <2>1, <3>1, <3>4
    <3>5. c + 1 <= Len(ages) \/ c = Len(ages)
      BY <3>1
    <3> QED
      BY <3>2, <3>3, <3>4, <3>5
  <2>3. ASSUME NEW n \in 1..(Len(ages) - c) PROVE W[n] = ages[n + c]
    <3>1. c + 1 + n - 1 = n + c
      BY <1>1
    <3> QED
      BY <2>1, <2>2, <3>1
  <2> QED
    BY <1>3, <2>1, <2>2, <2>3 DEF W
<1>5. OldestFirst(Within(ages))
  <2> SUFFICES ASSUME NEW m \in 1..Len(Within(ages)), NEW n \in 1..Len(Within(ages)),
                      m < n
               PROVE  Within(ages)[m] >= Within(ages)[n]
    BY DEF OldestFirst
  <2>1. m + c \in 1..Len(ages) /\ n + c \in 1..Len(ages) /\ m + c < n + c
    BY <1>1, <1>4
  <2>2. Within(ages)[m] = ages[m + c] /\ Within(ages)[n] = ages[n + c]
    BY <1>4
  <2> QED
    BY <2>1, <2>2 DEF OldestFirst, Stamps
<1>6. Within(ages) \in Seq(0..Window)
  BY <1>4, Parameters, SeqMonotonic
<1> QED
  BY <1>1, <1>4, <1>5, <1>6 DEF Stamps, c

(* A list in which nothing aged out is left alone.                         *)
LEMMA WithinKeeps ==
  ASSUME NEW ages \in Seq(0..(Window - 1)), OldestFirst(ages)
  PROVE  Stamps(ages) /\ Within(ages) = ages /\ Aged(ages) = {}
<1>1. ages \in Seq(0..Window)
  BY Parameters, SeqMonotonic
<1>2. Aged(ages) = {}
  BY Parameters DEF Aged, InWindow
<1>3. Cardinality(Aged(ages)) = 0
  BY <1>2, FS_EmptySet
<1>4. Within(ages) = SubSeq(ages, 1, Len(ages))
  BY <1>3 DEF Within
<1> QED
  BY <1>1, <1>2, <1>4, SubSeqFull DEF Stamps

LEMMA AppendZero ==
  ASSUME NEW ages \in Seq(0..(Window - 1)), OldestFirst(ages)
  PROVE  /\ Append(ages, 0) \in Seq(0..(Window - 1)) /\ OldestFirst(Append(ages, 0))
         /\ Len(Append(ages, 0)) = Len(ages) + 1
<1>1. 0 \in 0..(Window - 1)
  BY Parameters
<1>2. /\ Append(ages, 0) \in Seq(0..(Window - 1))
      /\ Len(Append(ages, 0)) = Len(ages) + 1
      /\ \A n \in 1..Len(ages) : Append(ages, 0)[n] = ages[n]
      /\ Append(ages, 0)[Len(ages) + 1] = 0
  BY <1>1, AppendProperties
<1>3. Len(ages) \in Nat /\ \A n \in 1..Len(ages) : ages[n] \in 0..(Window - 1)
  BY LenProperties, ElementOfSeq
<1>4. OldestFirst(Append(ages, 0))
  <2> SUFFICES ASSUME NEW m \in 1..Len(Append(ages, 0)),
                      NEW n \in 1..Len(Append(ages, 0)), m < n
               PROVE  Append(ages, 0)[m] >= Append(ages, 0)[n]
    BY DEF OldestFirst
  <2>1. m \in 1..Len(ages)
    BY <1>2, <1>3
  <2>2. CASE n = Len(ages) + 1
    BY <1>2, <1>3, <2>1, <2>2
  <2>3. CASE n \in 1..Len(ages)
    BY <1>2, <2>1, <2>3 DEF OldestFirst
  <2> QED
    BY <1>2, <1>3, <2>2, <2>3
<1> QED
  BY <1>2, <1>4

LEMMA OlderProperties ==
  ASSUME NEW ages, Stamps(ages)
  PROVE  /\ Stamps(Older(ages)) /\ Len(Older(ages)) = Len(ages)
         /\ \A n \in 1..Len(ages) : Older(ages)[n] = Smaller(ages[n] + 1, Window)
<1>1. /\ Len(ages) \in Nat /\ DOMAIN ages = 1..Len(ages)
      /\ \A n \in 1..Len(ages) : ages[n] \in 0..Window
  BY LenProperties, ElementOfSeq DEF Stamps
<1>2. \A n \in 1..Len(ages) : Smaller(ages[n] + 1, Window) \in 0..Window
  BY <1>1, Parameters DEF Smaller
<1>3. /\ Older(ages) \in [1..Len(ages) -> 0..Window]
      /\ \A n \in 1..Len(ages) : Older(ages)[n] = Smaller(ages[n] + 1, Window)
  BY <1>1, <1>2 DEF Older
<1>4. Older(ages) \in Seq(0..Window)
  BY <1>1, <1>3, SeqDef
<1>5. Len(Older(ages)) = Len(ages)
  <2>1. /\ Len(Older(ages)) \in Nat
        /\ 1..Len(Older(ages)) = 1..Len(ages)
    BY <1>3, <1>4, LenProperties
  <2> QED
    BY <1>1, <2>1
<1>6. OldestFirst(Older(ages))
  <2> SUFFICES ASSUME NEW m \in 1..Len(ages), NEW n \in 1..Len(ages), m < n
               PROVE  Older(ages)[m] >= Older(ages)[n]
    BY <1>5 DEF OldestFirst
  <2>1. ages[m] >= ages[n] /\ ages[m] \in 0..Window /\ ages[n] \in 0..Window
    BY <1>1 DEF Stamps, OldestFirst
  <2> QED
    BY <1>3, <2>1, Parameters DEF Smaller
<1> QED
  BY <1>3, <1>4, <1>5, <1>6 DEF Stamps

(* To prune before the clock moves is to prune after: the history, pruned  *)
(* at every tick, is what the bucket would compute were it asked.          *)
LEMMA PruneBeforeOrAfter ==
  ASSUME NEW ages, Stamps(ages)
  PROVE  Within(Older(Within(ages))) = Within(Older(ages))
<1> DEFINE f == Within(ages)
           o == Older(ages)
           g == Older(f)
           c == Gone(ages)
           d == Gone(o)
           e == Gone(g)
<1>1. /\ Stamps(f) /\ c \in 0..Len(ages) /\ Len(f) = Len(ages) - c
      /\ \A n \in 1..Len(f) : f[n] = ages[n + c]
  BY WithinProperties
<1>2. /\ Stamps(o) /\ Len(o) = Len(ages)
      /\ \A n \in 1..Len(ages) : o[n] = Smaller(ages[n] + 1, Window)
  BY OlderProperties
<1> HIDE DEF f, o
<1>3. /\ Stamps(g) /\ Len(g) = Len(f)
      /\ \A n \in 1..Len(f) : g[n] = Smaller(f[n] + 1, Window)
  BY <1>1, OlderProperties
<1> HIDE DEF g
<1>4. /\ Aged(ages) = 1..c /\ d \in 0..Len(o) /\ Aged(o) = 1..d
      /\ e \in 0..Len(g) /\ Aged(g) = 1..e
  BY <1>2, <1>3, AgedFirst
<1> HIDE DEF c, d, e
<1>5. /\ Len(ages) \in Nat /\ DOMAIN ages = 1..Len(ages)
      /\ DOMAIN o = 1..Len(o) /\ DOMAIN g = 1..Len(g)
      /\ \A n \in 1..Len(ages) : ages[n] \in 0..Window
  BY <1>2, <1>3, LenProperties, ElementOfSeq DEF Stamps
<1>6. \A n \in 1..Len(g) : n + c \in 1..Len(o) /\ g[n] = o[n + c]
  <2> SUFFICES ASSUME NEW n \in 1..Len(g)
               PROVE  n + c \in 1..Len(o) /\ g[n] = o[n + c]
    OBVIOUS
  <2>1. n \in 1..Len(f) /\ n + c \in 1..Len(ages)
    BY <1>1, <1>3, <1>5
  <2>2. /\ g[n] = Smaller(f[n] + 1, Window) /\ f[n] = ages[n + c]
        /\ o[n + c] = Smaller(ages[n + c] + 1, Window)
    BY <1>1, <1>2, <1>3, <2>1
  <2> QED
    BY <1>2, <2>1, <2>2
<1>7. \A n \in 1..Len(g) : n <= e <=> n + c <= d
  <2> SUFFICES ASSUME NEW n \in 1..Len(g) PROVE n \in 1..e <=> n + c \in 1..d
    BY <1>1, <1>2, <1>3, <1>4, <1>5
  <2>1. n + c \in 1..Len(o) /\ g[n] = o[n + c]
    BY <1>6
  <2>2. n \in Aged(g) <=> n + c \in Aged(o)
    BY <1>5, <2>1 DEF Aged
  <2> QED
    BY <1>4, <2>2
<1>8. c <= d
  <2> SUFFICES ASSUME c > 0 PROVE c \in 1..d
    BY <1>1, <1>2, <1>4, <1>5
  <2>1. c \in 1..Len(ages) /\ c \in 1..c
    BY <1>1, <1>5
  <2>2. ~InWindow(ages[c])
    BY <1>4, <2>1 DEF Aged
  <2>3. ~InWindow(o[c])
    BY <1>2, <1>5, <2>1, <2>2, Parameters DEF InWindow, Smaller
  <2>4. c \in Aged(o)
    BY <1>2, <1>5, <2>1, <2>3 DEF Aged
  <2> QED
    BY <1>4, <2>4
<1>9. e = d - c
  <2>1. e \in 0..(Len(ages) - c) /\ d \in 0..Len(ages) /\ c \in 0..Len(ages)
    BY <1>1, <1>2, <1>3, <1>4
  <2>2. e <= d - c
    <3>1. CASE e = 0
      BY <1>5, <1>8, <2>1, <3>1
    <3>2. CASE e > 0
      <4>1. e \in 1..Len(g)
        BY <1>1, <1>3, <1>5, <2>1, <3>2
      <4> QED
        BY <1>5, <1>7, <2>1, <4>1
    <3> QED
      BY <1>5, <2>1, <3>1, <3>2
  <2>3. d - c <= e
    <3>1. CASE d = c
      BY <1>5, <2>1, <3>1
    <3>2. CASE d > c
      <4>1. d - c \in 1..Len(g) /\ d - c + c <= d
        BY <1>1, <1>3, <1>5, <2>1, <3>2
      <4> QED
        BY <1>7, <4>1
    <3> QED
      BY <1>5, <1>8, <2>1, <3>1, <3>2
  <2> QED
    BY <1>5, <2>1, <2>2, <2>3
<1>10. /\ Within(g) \in Seq(0..(Window - 1)) /\ Len(Within(g)) = Len(g) - e
       /\ \A n \in 1..Len(Within(g)) : Within(g)[n] = g[n + e]
       /\ Within(o) \in Seq(0..(Window - 1)) /\ Len(Within(o)) = Len(o) - d
       /\ \A n \in 1..Len(Within(o)) : Within(o)[n] = o[n + d]
  BY <1>2, <1>3, WithinProperties DEF d, e
<1>11. Len(Within(g)) = Len(Within(o))
  BY <1>1, <1>2, <1>3, <1>4, <1>5, <1>9, <1>10
<1>12. ASSUME NEW n \in 1..Len(Within(g)) PROVE Within(g)[n] = Within(o)[n]
  <2>1. n + e \in 1..Len(g) /\ n + e + c = n + d
    BY <1>1, <1>2, <1>3, <1>4, <1>5, <1>9, <1>10
  <2>2. g[n + e] = o[n + d]
    BY <1>6, <2>1
  <2> QED
    BY <1>10, <1>11, <2>2
<1> QED
  BY <1>10, <1>11, <1>12, SeqEqual DEF g, f, o

---------------------------------------------------------------------------
(* Every bucket state.                                                     *)

BucketInv ==
  /\ Stamps(stamps)
  /\ admitted = Fresh
  /\ Len(admitted) <= Limit

LEMMA FreshProperties ==
  ASSUME BucketInv
  PROVE  /\ Fresh \in Seq(0..(Window - 1)) /\ OldestFirst(Fresh)
         /\ Len(Fresh) \in Nat /\ Within(Fresh) = Fresh /\ Stamps(Fresh)
<1>1. Fresh \in Seq(0..(Window - 1)) /\ Stamps(Fresh)
  BY WithinProperties DEF BucketInv, Fresh
<1> QED
  BY <1>1, WithinKeeps, LenProperties DEF Stamps

(* The three ways an action touches the bucket.                            *)
LEMMA Admission ==
  ASSUME BucketInv, Admits, stamps' = Append(Fresh, 0), admitted' = Append(admitted, 0)
  PROVE  BucketInv' /\ Fresh' = stamps'
<1>1. /\ Append(Fresh, 0) \in Seq(0..(Window - 1)) /\ OldestFirst(Append(Fresh, 0))
      /\ Len(Append(Fresh, 0)) = Len(Fresh) + 1
  BY FreshProperties, AppendZero
<1>2. /\ Stamps(Append(Fresh, 0))
      /\ Within(Append(Fresh, 0)) = Append(Fresh, 0)
  BY <1>1, WithinKeeps
<1>3. Len(Fresh) + 1 <= Limit
  BY FreshProperties, Parameters DEF Admits
<1> QED
  BY <1>1, <1>2, <1>3 DEF BucketInv, Fresh

LEMMA Pruning ==
  ASSUME BucketInv, stamps' = Fresh, admitted' = admitted
  PROVE  BucketInv' /\ Fresh' = Fresh
BY FreshProperties DEF BucketInv, Fresh

LEMMA Ageing ==
  ASSUME BucketInv, stamps' = Older(stamps), admitted' = Within(Older(admitted))
  PROVE  /\ BucketInv' /\ Fresh' = Within(Older(Fresh))
         /\ Len(Fresh') <= Len(Fresh)
<1>1. Stamps(Older(stamps))
  BY OlderProperties DEF BucketInv
<1>2. Within(Older(admitted)) = Within(Older(stamps))
  BY PruneBeforeOrAfter DEF BucketInv, Fresh
<1>3. Stamps(Fresh) /\ Len(Fresh) \in Nat
  BY FreshProperties
<1>4. Stamps(Older(Fresh)) /\ Len(Older(Fresh)) = Len(Fresh)
  BY <1>3, OlderProperties
<1>5. /\ Gone(Older(Fresh)) \in 0..Len(Older(Fresh))
      /\ Len(Within(Older(Fresh))) = Len(Older(Fresh)) - Gone(Older(Fresh))
  BY <1>4, WithinProperties
<1>6. Len(Within(Older(Fresh))) <= Len(Fresh) /\ Len(Within(Older(Fresh))) \in Nat
  BY <1>3, <1>4, <1>5
<1>7. Fresh' = Within(Older(Fresh)) /\ admitted' = Fresh'
  BY <1>2 DEF BucketInv, Fresh
<1> QED
  BY <1>1, <1>3, <1>6, <1>7, Parameters DEF BucketInv

---------------------------------------------------------------------------
(* The pages.                                                              *)

LEMMA IssuesFinite ==
  /\ IsFiniteSet(Issues) /\ Cardinality(Issues) = IssueCount
  /\ IsFiniteSet(Matching) /\ Cardinality(Matching) \in 0..IssueCount
  /\ \A i \in Matching : Place(i) \in 1..Cardinality(Matching)
<1>1. IsFiniteSet(Issues) /\ Cardinality(Issues) = IssueCount
  BY Parameters, FS_Interval DEF Issues
<1>2. Matching \in SUBSET Issues
  BY DEF Matching
<1>3. /\ IsFiniteSet(Matching) /\ Cardinality(Matching) <= IssueCount
      /\ Cardinality(Matching) \in Nat
  BY <1>1, <1>2, FS_Subset, FS_CardinalityType
<1>4. ASSUME NEW i \in Matching PROVE Place(i) \in 1..Cardinality(Matching)
  <2> DEFINE upTo == {j \in Matching : j <= i}
  <2>1. upTo \in SUBSET Matching /\ i \in upTo
    BY <1>2, Parameters DEF Issues
  <2>2. /\ IsFiniteSet(upTo) /\ Cardinality(upTo) <= Cardinality(Matching)
        /\ Cardinality(upTo) \in Nat /\ Cardinality(upTo) # 0
    BY <1>3, <2>1, FS_Subset, FS_CardinalityType, FS_EmptySet
  <2>3. Place(i) = Cardinality(upTo)
    BY DEF Place
  <2> HIDE DEF upTo
  <2> QED
    BY <1>3, <2>2, <2>3
<1> QED
  BY <1>1, <1>3, <1>4, Parameters

LEMMA NewestProperties ==
  ASSUME NEW S \in SUBSET Issues, NEW floor \in Nat, NEW b \in Nat, floor <= b,
         \A i \in Issues : updated[i] \in Nat /\ updated[i] <= b
  PROVE  NewestOf(S, floor) \in Nat /\ NewestOf(S, floor) <= b
<1> DEFINE T == {updated[i] : i \in S} \union {floor}
<1>1. T \in SUBSET Nat /\ T # {} /\ \A t \in T : t <= b
  OBVIOUS
<1>2. NewestOf(S, floor) = CHOOSE t \in T : \A u \in T : t >= u
  BY DEF NewestOf
<1> HIDE DEF T
<1>3. \E t \in T : \A u \in T : t >= u
  BY <1>1, GreatestExists
<1> QED
  BY <1>1, <1>2, <1>3

---------------------------------------------------------------------------
(* Every reachable state has its type, and the watermark names no stamp    *)
(* that was not given yet.                                                 *)

SleepsInBudget == phase = "sleep" => attempt < Attempts - 1

StampsGiven ==
  /\ cursor <= IssueCount + edits /\ maxSeen <= IssueCount + edits
  /\ \A i \in Issues : updated[i] <= IssueCount + edits

FetchInv == TypeOK /\ BucketInv /\ SleepsInBudget /\ StampsGiven

LEMMA FetchTypes ==
  ASSUME FetchInv
  PROVE  /\ cursor \in Nat /\ maxSeen \in Nat /\ edits \in Nat /\ edits <= MaxEdits
         /\ startAt \in Nat /\ attempt \in Nat /\ timer \in Nat
         /\ IssueCount + edits \in Nat
         /\ \A i \in Issues : updated[i] \in Nat
BY Parameters DEF FetchInv, TypeOK

LEMMA FetchInit == Init => FetchInv
<1> SUFFICES ASSUME Init PROVE FetchInv
  OBVIOUS
<1>1. TypeOK
  BY Parameters DEF Init, TypeOK, Issues
<1>2. BucketInv
  <2>1. stamps = <<>> /\ admitted = <<>> /\ <<>> \in Seq(0..(Window - 1)) /\ Len(<<>>) = 0
    BY EmptySeq DEF Init
  <2>2. OldestFirst(<<>>)
    BY <2>1 DEF OldestFirst
  <2>3. Stamps(<<>>) /\ Within(<<>>) = <<>>
    BY <2>1, <2>2, WithinKeeps
  <2> QED
    BY <2>1, <2>3, Parameters DEF BucketInv, Fresh
<1>3. SleepsInBudget /\ StampsGiven
  BY Parameters DEF Init, SleepsInBudget, StampsGiven, Issues
<1> QED
  BY <1>1, <1>2, <1>3 DEF FetchInv

(* What the requests of a pass and its crash leave of the invariant.       *)
LEMMA TakeKeeps ==
  ASSUME FetchInv, NEW S \in SUBSET Issues, Take(S), UNCHANGED sourceVars
  PROVE  /\ BucketInv' /\ handled' \in [Issues -> Nat]
         /\ stamps' \in Seq(0..Window) /\ admitted' \in Seq(0..(Window - 1))
<1>1. BucketInv' /\ Fresh' = stamps'
  BY Admission DEF FetchInv, Take
<1>2. stamps' \in Seq(0..Window) /\ admitted' \in Seq(0..(Window - 1))
  <2>1. Append(Fresh, 0) \in Seq(0..(Window - 1))
    BY FreshProperties, AppendZero DEF FetchInv
  <2> QED
    BY <1>1, <2>1 DEF BucketInv, Stamps, FetchInv, Take
<1>3. handled' \in [Issues -> Nat]
  BY FetchTypes DEF Take, FetchInv, TypeOK
<1> QED
  BY <1>1, <1>2, <1>3

LEMMA EndPassKeeps ==
  ASSUME EndPass
  PROVE  /\ phase' = "idle" /\ startAt' \in 0..IssueCount /\ attempt' \in 0..(Attempts - 1)
         /\ timer' \in Nat /\ maxSeen' = 0 /\ SleepsInBudget'
BY Parameters DEF EndPass, SleepsInBudget

LEMMA DelayIsNat == ASSUME FetchInv, ~Admits PROVE Delay \in Nat /\ Fresh # <<>> /\ Wait = Window - Fresh[1]
<1>1. /\ Fresh \in Seq(0..(Window - 1)) /\ Len(Fresh) \in Nat /\ Len(Fresh) >= Limit
  BY FreshProperties, Parameters DEF FetchInv, Admits
<1>2. Fresh # <<>>
  BY <1>1, EmptySeq, Parameters
<1>3. Head(Fresh) = Fresh[1] /\ Fresh[1] \in 0..(Window - 1)
  BY <1>1, <1>2, HeadTailProperties, ElementOfSeq, Parameters
<1>4. Wait \in Nat
  BY <1>3, Parameters DEF Wait
<1>5. Schedule \in Nat
  <2>1. 2 ^ attempt \in Nat
    BY PowersOfTwo, FetchTypes
  <2>2. Base * 2 ^ attempt \in Nat
    BY <2>1, Parameters
  <2> QED
    BY <2>2, Parameters DEF Schedule, Smaller
<1> QED
  BY <1>2, <1>3, <1>4, <1>5 DEF Delay, Wait

LEMMA FetchStep == FetchInv /\ [Next]_vars => FetchInv'
<1> SUFFICES ASSUME FetchInv, [Next]_vars PROVE FetchInv'
  OBVIOUS
<1> USE DEF FetchInv
<1>1. CASE StartPass
  <2>1. Fresh' = Fresh /\ BucketInv'
    BY <1>1 DEF StartPass, Fresh, BucketInv
  <2>2. TypeOK'
    BY <1>1, Parameters DEF StartPass, TypeOK, sourceVars, storeVars
  <2> QED
    BY <1>1, <2>1, <2>2 DEF StartPass, SleepsInBudget, StampsGiven, sourceVars, storeVars
<1>2. CASE Serve
  <2> DEFINE newest == NewestOf(PageIssues, maxSeen)
  <2>1. PageIssues \in SUBSET Issues
    BY DEF PageIssues, Matching
  <2>2. newest \in Nat /\ newest <= IssueCount + edits
    BY <2>1, FetchTypes, NewestProperties DEF StampsGiven
  <2> HIDE DEF newest
  <2>3. Take(PageIssues) /\ UNCHANGED sourceVars
    BY <1>2 DEF Serve
  <2>4. /\ BucketInv' /\ handled' \in [Issues -> Nat]
        /\ stamps' \in Seq(0..Window) /\ admitted' \in Seq(0..(Window - 1))
    BY <2>1, <2>3, TakeKeeps
  <2>5. CASE NextPage >= Cardinality(Matching)
    <3>1. EndPass /\ cursor' = newest
      BY <1>2, <2>5 DEF Serve, newest
    <3> QED
      BY <2>2, <2>3, <2>4, <3>1, EndPassKeeps, FetchTypes
      DEF TypeOK, StampsGiven, sourceVars
  <2>6. CASE ~(NextPage >= Cardinality(Matching))
    <3>1. /\ startAt' = NextPage /\ attempt' = 0 /\ maxSeen' = newest
          /\ UNCHANGED <<phase, timer, cursor>>
      BY <1>2, <2>6 DEF Serve, newest
    <3>2. NextPage \in 0..IssueCount
      BY <2>6, IssuesFinite, FetchTypes, Parameters DEF NextPage
    <3>3. phase = "request"
      BY <2>3 DEF Take
    <3> QED
      BY <2>2, <2>3, <2>4, <3>1, <3>2, <3>3, FetchTypes, Parameters
      DEF TypeOK, StampsGiven, SleepsInBudget, sourceVars
  <2> QED
    BY <2>5, <2>6
<1>3. CASE Throttle
  <2>1. Fresh' = Fresh /\ BucketInv'
    BY <1>3, Pruning DEF Throttle
  <2>2. stamps' \in Seq(0..Window)
    BY <2>1 DEF BucketInv, Stamps
  <2>3. timer' \in Nat
    BY <1>3, DelayIsNat DEF Throttle
  <2> QED
    BY <1>3, <2>1, <2>2, <2>3
    DEF Throttle, TypeOK, SleepsInBudget, StampsGiven, sourceVars, storeVars
<1>4. CASE Exhaust
  <2>1. Fresh' = Fresh /\ BucketInv'
    BY <1>4, Pruning DEF Exhaust
  <2>2. stamps' \in Seq(0..Window)
    BY <2>1 DEF BucketInv, Stamps
  <2>3. EndPass /\ UNCHANGED <<sourceVars, storeVars, admitted>>
    BY <1>4 DEF Exhaust
  <2> QED
    BY <2>1, <2>2, <2>3, EndPassKeeps, FetchTypes
    DEF TypeOK, StampsGiven, sourceVars, storeVars
<1>5. CASE Wake
  <2>1. Fresh' = Fresh /\ BucketInv'
    BY <1>5 DEF Wake, Fresh, BucketInv
  <2>2. attempt + 1 \in 0..(Attempts - 1)
    BY <1>5, FetchTypes, Parameters DEF Wake, SleepsInBudget
  <2> QED
    BY <1>5, <2>1, <2>2
    DEF Wake, TypeOK, SleepsInBudget, StampsGiven, sourceVars, storeVars
<1>6. CASE Abandon
  <2>1. PICK S \in SUBSET PageIssues : Take(S)
    BY <1>6 DEF Abandon
  <2>2. S \in SUBSET Issues
    BY DEF PageIssues, Matching
  <2>3. EndPass /\ UNCHANGED <<sourceVars, cursor>>
    BY <1>6 DEF Abandon
  <2>4. /\ BucketInv' /\ handled' \in [Issues -> Nat]
        /\ stamps' \in Seq(0..Window) /\ admitted' \in Seq(0..(Window - 1))
    BY <2>1, <2>2, <2>3, TakeKeeps
  <2> QED
    BY <2>3, <2>4, EndPassKeeps, FetchTypes DEF TypeOK, StampsGiven, sourceVars
<1>7. CASE Crash
  <2>1. Fresh' = Fresh /\ BucketInv'
    BY <1>7 DEF Crash, Fresh, BucketInv
  <2>2. EndPass /\ UNCHANGED <<sourceVars, stamps, storeVars, admitted>>
    BY <1>7 DEF Crash
  <2> QED
    BY <2>1, <2>2, EndPassKeeps, FetchTypes DEF TypeOK, StampsGiven, sourceVars, storeVars
<1>8. CASE Tick
  <2>1. BucketInv'
    BY <1>8, Ageing DEF Tick
  <2>2. stamps' \in Seq(0..Window) /\ admitted' \in Seq(0..(Window - 1))
    <3>1. stamps' \in Seq(0..Window)
      BY <2>1 DEF BucketInv, Stamps
    <3>2. Fresh' \in Seq(0..(Window - 1))
      BY <2>1, WithinProperties DEF BucketInv, Fresh
    <3> QED
      BY <2>1, <3>1, <3>2 DEF BucketInv
  <2>3. timer' \in Nat
    BY <1>8, FetchTypes DEF Tick
  <2> QED
    BY <1>8, <2>1, <2>2, <2>3
    DEF Tick, TypeOK, SleepsInBudget, StampsGiven, sourceVars, storeVars
<1>9. ASSUME NEW i \in Issues, Edit(i) PROVE FetchInv'
  <2>1. Fresh' = Fresh /\ BucketInv'
    BY <1>9 DEF Edit, Fresh, BucketInv
  <2>2. /\ edits' = edits + 1 /\ edits' \in 0..MaxEdits
        /\ updated' = [updated EXCEPT ![i] = IssueCount + edits + 1]
    BY <1>9, FetchTypes, Parameters DEF Edit
  <2>3. /\ updated' \in [Issues -> 1..(IssueCount + MaxEdits)]
        /\ \A j \in Issues : updated'[j] <= IssueCount + edits'
    BY <2>2, FetchTypes, Parameters DEF TypeOK, StampsGiven
  <2> QED
    BY <1>9, <2>1, <2>2, <2>3, FetchTypes, Parameters
    DEF Edit, TypeOK, SleepsInBudget, StampsGiven, storeVars, passVars
<1>10. CASE UNCHANGED vars
  <2>1. Fresh' = Fresh /\ BucketInv'
    BY <1>10 DEF vars, Fresh, BucketInv
  <2> QED
    BY <1>10, <2>1
    DEF vars, TypeOK, SleepsInBudget, StampsGiven, sourceVars, storeVars, passVars
<1> QED
  BY <1>1, <1>2, <1>3, <1>4, <1>5, <1>6, <1>7, <1>8, <1>9, <1>10 DEF Next, Client

LEMMA FetchAlways == Spec => []FetchInv
<1>1. Init => FetchInv
  BY FetchInit
<1>2. FetchInv /\ [Next]_vars => FetchInv'
  BY FetchStep
<1> QED
  BY <1>1, <1>2, PTL DEF Spec

(* Every reachable state of the client and the endpoint has its type.      *)
THEOREM FetchTyped == Spec => []TypeOK
<1>1. FetchInv => TypeOK
  BY DEF FetchInv
<1> QED
  BY <1>1, FetchAlways, PTL

(* In no trailing window are more requests served than the quota, for any  *)
(* quota and window: what the bucket remembers after pruning is exactly    *)
(* what was served within the window (_Bucket, ticket_source.py).          *)
THEOREM QuotaHolds == Spec => []WithinQuota
<1>1. FetchInv => WithinQuota
  BY DEF FetchInv, BucketInv, WithinQuota
<1> QED
  BY <1>1, FetchAlways, PTL

---------------------------------------------------------------------------
(* Retry-After.                                                            *)

(* A client that is told how long to wait wakes when the oldest of a full  *)
(* bucket has aged out, and finds a place free until it asks.              *)
SleepSuffices ==
  advertise =>
    /\ phase = "sleep" =>
         \/ Len(Fresh) < Limit
         \/ Fresh # <<>> /\ Fresh[1] + timer >= Window
    /\ phase = "request" /\ attempt > 0 => Len(Fresh) < Limit

LEMMA SleepInit == Init => SleepSuffices
BY DEF Init, SleepSuffices

LEMMA SleepStep == FetchInv /\ SleepSuffices /\ [Next]_vars => SleepSuffices'
<1> SUFFICES ASSUME FetchInv, SleepSuffices, [Next]_vars, advertise' PROVE SleepSuffices'
  BY DEF SleepSuffices
<1>1. BucketInv
  BY DEF FetchInv
<1>2. advertise
  BY DEF Next, Client, StartPass, Serve, Throttle, Exhaust, Wake, Abandon, Crash, Tick,
         Edit, vars, sourceVars
<1>3. CASE phase' = "idle"
  BY <1>3 DEF SleepSuffices
<1>4. CASE phase' = "request" /\ ~(attempt' > 0)
  BY <1>4 DEF SleepSuffices
<1>5. CASE StartPass
  BY <1>4, <1>5 DEF StartPass
<1>6. CASE Serve
  <2>1. CASE EndPass
    BY <1>3, <2>1 DEF EndPass
  <2>2. CASE phase' = phase /\ attempt' = 0
    BY <1>4, <1>6, <2>2 DEF Serve, Take
  <2> QED
    BY <1>6, <2>1, <2>2 DEF Serve
<1>7. CASE Throttle
  <2>1. Fresh' = Fresh
    BY <1>1, <1>7, Pruning DEF Throttle
  <2>2. Fresh # <<>> /\ timer' = Window - Fresh[1]
    BY <1>2, <1>7, DelayIsNat DEF Throttle, Delay
  <2>3. Fresh[1] \in 0..(Window - 1)
    BY <1>1, <2>2, FreshProperties, HeadTailProperties, ElementOfSeq, EmptySeq, Parameters
  <2>4. Fresh[1] + timer' >= Window
    BY <2>2, <2>3, Parameters
  <2> QED
    BY <1>7, <2>1, <2>2, <2>4 DEF Throttle, SleepSuffices
<1>8. CASE Exhaust \/ Abandon \/ Crash
  BY <1>3, <1>8 DEF Exhaust, Abandon, Crash, EndPass
<1>9. CASE Wake
  <2>1. Fresh' = Fresh /\ timer = 0 /\ phase = "sleep" /\ phase' = "request"
    BY <1>9 DEF Wake, Fresh
  <2>2. CASE Fresh # <<>> /\ Fresh[1] + timer >= Window
    <3>1. Fresh[1] \in 0..(Window - 1)
      BY <1>1, <2>2, FreshProperties, HeadTailProperties, ElementOfSeq, EmptySeq, Parameters
    <3> QED
      BY <2>1, <2>2, <3>1, Parameters
  <2> QED
    BY <1>2, <2>1, <2>2 DEF SleepSuffices
<1>10. CASE Tick
  <2>1. /\ Fresh' = Within(Older(Fresh)) /\ Len(Fresh') <= Len(Fresh)
        /\ BucketInv'
    BY <1>1, <1>10, Ageing DEF Tick
  <2>2. Len(Fresh) \in Nat /\ Len(Fresh') \in Nat /\ Len(Fresh) <= Limit
    BY <1>1, <2>1, FreshProperties, LenProperties DEF BucketInv, Stamps
  <2>3. CASE Len(Fresh) < Limit
    <3>1. Len(Fresh') < Limit
      BY <2>1, <2>2, <2>3, Parameters
    <3> QED
      BY <3>1 DEF SleepSuffices
  <2>4. CASE Fresh # <<>> /\ Fresh[1] + timer >= Window
    <3> DEFINE o == Older(Fresh)
               d == Gone(o)
    <3>1. /\ Fresh \in Seq(0..(Window - 1)) /\ Stamps(Fresh)
          /\ Len(Fresh) \in Nat \ {0} /\ Fresh[1] \in 0..(Window - 1)
      BY <1>1, <2>4, FreshProperties, EmptySeq, ElementOfSeq, Parameters
    <3>2. Stamps(o) /\ Len(o) = Len(Fresh) /\ o[1] = Fresh[1] + 1
      BY <3>1, OlderProperties, Parameters DEF Smaller
    <3> HIDE DEF o
    <3>3. /\ d \in 0..Len(o) /\ Aged(o) = 1..d
          /\ Len(Within(o)) = Len(o) - d
          /\ \A n \in 1..Len(Within(o)) : Within(o)[n] = o[n + d]
          /\ Within(o) \in Seq(0..(Window - 1))
      BY <3>2, AgedFirst, WithinProperties
    <3>4. DOMAIN o = 1..Len(o)
      BY <3>2, LenProperties DEF Stamps
    <3> HIDE DEF d
    <3>5. CASE d = 0
      <4>1. Len(Within(o)) \in Nat \ {0} /\ Within(o)[1] = Fresh[1] + 1
        BY <3>1, <3>2, <3>3, <3>5
      <4>2. Within(o) # <<>>
        BY <3>3, <4>1, EmptySeq
      <4>3. timer' = timer - 1
        BY <1>10, <2>4, <3>1, FetchTypes, Parameters DEF Tick
      <4>4. Fresh' # <<>> /\ Fresh'[1] + timer' >= Window
        <5>1. Fresh' = Within(o)
          BY <2>1 DEF o
        <5>2. Fresh[1] + 1 + (timer - 1) >= Window
          BY <2>4, <3>1, FetchTypes, Parameters
        <5> QED
          BY <4>1, <4>2, <4>3, <5>1, <5>2
      <4>5. phase' = phase /\ attempt' = attempt
        BY <1>10 DEF Tick
      <4> QED
        BY <1>2, <2>1, <2>2, <4>4, <4>5, Parameters DEF SleepSuffices
    <3>6. CASE d > 0
      <4>1. Len(Within(o)) < Len(Fresh)
        BY <3>1, <3>2, <3>3, <3>6
      <4>2. Len(Fresh') < Limit
        BY <2>1, <2>2, <4>1, Parameters DEF o
      <4> QED
        BY <4>2 DEF SleepSuffices
    <3> QED
      BY <3>1, <3>2, <3>3, <3>5, <3>6
  <2>5. phase' = phase /\ attempt' = attempt
    BY <1>10 DEF Tick
  <2> QED
    BY <1>2, <2>3, <2>4, <2>5 DEF SleepSuffices
<1>11. CASE (\E i \in Issues : Edit(i)) \/ UNCHANGED vars
  <2>1. Fresh' = Fresh /\ phase' = phase /\ attempt' = attempt /\ timer' = timer
    BY <1>11 DEF Edit, passVars, vars, Fresh
  <2> QED
    BY <1>2, <2>1 DEF SleepSuffices
<1> QED
  BY <1>5, <1>6, <1>7, <1>8, <1>9, <1>10, <1>11 DEF Next, Client

(* A client that slept as long as Retry-After said is admitted on its next *)
(* try: the time until the oldest stamp ages out is enough, and no page is *)
(* throttled twice (_Bucket's docstring, ticket_source.py).                *)
THEOREM RetryAfterSuffices == Spec => []RetryAfterAdmits
<1>1. Init => SleepSuffices
  BY SleepInit
<1>2. FetchInv /\ SleepSuffices /\ [Next]_vars => SleepSuffices'
  BY SleepStep
<1>3. SleepSuffices => RetryAfterAdmits
  BY DEF SleepSuffices, RetryAfterAdmits, Admits
<1> QED
  BY <1>1, <1>2, <1>3, FetchAlways, PTL DEF Spec

---------------------------------------------------------------------------
(* Convergence.                                                            *)

(* A pass has handled every page before the one it asks for.               *)
PagesHandled ==
  phase # "idle" => \A i \in Matching : Place(i) <= startAt => handled[i] = updated[i]

ScanInv == PagesHandled /\ ScanConverges

LEMMA ScanInit == Init => ScanInv
BY DEF Init, ScanInv, PagesHandled, ScanConverges, Issues

(* Requests add to what is handled, and ask for a list that stays.         *)
LEMMA TakeScan ==
  ASSUME FetchInv, ScanInv, NEW S \in SUBSET Issues, Take(S), UNCHANGED sourceVars
  PROVE  /\ \A i \in Issues : handled[i] = updated[i] => handled'[i] = updated'[i]
         /\ \A i \in S : handled'[i] = updated'[i]
         /\ cursor' = cursor => ScanConverges'
         /\ cursor' = cursor => Matching' = Matching /\ \A i \in Issues : Place(i)' = Place(i)
<1>1. /\ updated' = updated
      /\ handled' = [i \in Issues |-> IF i \in S THEN updated[i] ELSE handled[i]]
  BY DEF Take, sourceVars
<1>2. /\ \A i \in Issues : handled[i] = updated[i] => handled'[i] = updated'[i]
      /\ \A i \in S : handled'[i] = updated'[i]
  BY <1>1
<1> QED
  BY <1>1, <1>2 DEF ScanInv, ScanConverges, Matching, Place

LEMMA ScanStep == FetchInv /\ ScanInv /\ [Next]_vars => ScanInv'
<1> SUFFICES ASSUME FetchInv, ScanInv, [Next]_vars PROVE ScanInv'
  OBVIOUS
<1>1. CASE StartPass
  <2>1. Matching' = Matching /\ startAt' = 0 /\ UNCHANGED <<updated, storeVars>>
        /\ \A i \in Issues : Place(i)' = Place(i)
    BY <1>1 DEF StartPass, sourceVars, storeVars, Matching, Place
  <2>2. \A i \in Matching : Place(i) > 0
    BY IssuesFinite, Parameters
  <2>3. PagesHandled'
    <3> SUFFICES ASSUME NEW i \in Matching' PROVE ~(Place(i)' <= startAt')
      BY DEF PagesHandled
    <3>1. i \in Matching /\ i \in Issues
      BY <2>1 DEF Matching
    <3>2. Place(i) \in Nat /\ Place(i) > 0
      BY <3>1, <2>2, IssuesFinite
    <3> QED
      BY <2>1, <3>1, <3>2
  <2> QED
    BY <2>1, <2>3 DEF ScanInv, ScanConverges, storeVars
<1>2. CASE Serve
  <2> DEFINE newest == NewestOf(PageIssues, maxSeen)
  <2>1. PageIssues \in SUBSET Issues /\ Matching \in SUBSET Issues
    BY DEF PageIssues, Matching
  <2>2. Take(PageIssues) /\ UNCHANGED sourceVars /\ phase = "request"
    BY <1>2 DEF Serve, Take
  <2>3. /\ \A i \in Issues : handled[i] = updated[i] => handled'[i] = updated'[i]
        /\ \A i \in PageIssues : handled'[i] = updated'[i]
        /\ cursor' = cursor => ScanConverges'
        /\ cursor' = cursor => Matching' = Matching /\ \A i \in Issues : Place(i)' = Place(i)
    BY <2>1, <2>2, TakeScan
  <2>4. ASSUME NEW i \in Matching, Place(i) <= NextPage PROVE handled'[i] = updated'[i]
    <3>1. Place(i) \in Nat /\ Place(i) > 0
      BY IssuesFinite, Parameters
    <3>2. CASE Place(i) <= startAt
      BY <2>1, <2>2, <2>3, <3>2 DEF ScanInv, PagesHandled
    <3>3. CASE Place(i) > startAt
      <4>1. Place(i) \in startAt + 1 .. startAt + PageSize
        BY <2>4, <3>1, <3>3, FetchTypes, Parameters DEF NextPage
      <4> QED
        BY <2>3, <4>1 DEF PageIssues
    <3> QED
      BY <3>1, <3>2, <3>3, FetchTypes
  <2>5. CASE NextPage >= Cardinality(Matching)
    <3>1. EndPass
      BY <1>2, <2>5 DEF Serve
    <3>2. ASSUME NEW i \in Issues PROVE handled'[i] = updated'[i]
      <4>1. CASE i \in Matching
        <5>1. Place(i) <= NextPage
          BY <2>5, <4>1, IssuesFinite, FetchTypes, Parameters DEF NextPage
        <5> QED
          BY <2>4, <4>1, <5>1
      <4>2. CASE i \notin Matching
        <5>1. ~(updated[i] > cursor)
          BY <4>2 DEF Matching
        <5> QED
          BY <2>3, <5>1 DEF ScanInv, ScanConverges
      <4> QED
        BY <4>1, <4>2
    <3> QED
      BY <3>1, <3>2 DEF EndPass, ScanInv, PagesHandled, ScanConverges
  <2>6. CASE ~(NextPage >= Cardinality(Matching))
    <3>1. startAt' = NextPage /\ cursor' = cursor
      BY <1>2, <2>6 DEF Serve
    <3> QED
      BY <2>1, <2>3, <2>4, <3>1 DEF ScanInv, PagesHandled
  <2> QED
    BY <2>5, <2>6
<1>3. CASE Throttle \/ Wake
  BY <1>3 DEF Throttle, Wake, sourceVars, storeVars, ScanInv, PagesHandled, ScanConverges,
              Matching, Place
<1>4. CASE Exhaust \/ Crash
  BY <1>4 DEF Exhaust, Crash, EndPass, sourceVars, storeVars, ScanInv, PagesHandled,
              ScanConverges
<1>5. CASE Abandon
  <2>1. PICK S \in SUBSET PageIssues : Take(S)
    BY <1>5 DEF Abandon
  <2>2. S \in SUBSET Issues
    BY DEF PageIssues, Matching
  <2>3. EndPass /\ UNCHANGED <<sourceVars, cursor>>
    BY <1>5 DEF Abandon
  <2>4. ScanConverges'
    BY <2>1, <2>2, <2>3, TakeScan
  <2> QED
    BY <2>3, <2>4 DEF EndPass, ScanInv, PagesHandled
<1>6. CASE Tick \/ UNCHANGED vars
  BY <1>6 DEF Tick, vars, sourceVars, passVars, storeVars, ScanInv, PagesHandled,
              ScanConverges, Matching, Place
<1>7. ASSUME NEW i \in Issues, Edit(i) PROVE ScanInv'
  <2>1. /\ phase' = "idle" /\ cursor' = cursor /\ handled' = handled
        /\ updated' = [updated EXCEPT ![i] = IssueCount + edits + 1]
    BY <1>7 DEF Edit, passVars, storeVars
  <2>2. IssueCount + edits + 1 > cursor
    BY FetchTypes, Parameters DEF FetchInv, StampsGiven
  <2>3. ScanConverges'
    BY <2>1, <2>2 DEF ScanInv, ScanConverges, FetchInv, TypeOK
  <2> QED
    BY <2>1, <2>3 DEF ScanInv, PagesHandled
<1> QED
  BY <1>1, <1>2, <1>3, <1>4, <1>5, <1>6, <1>7 DEF Next, Client

(* Whatever was throttled, crashed or repeated: the store has the current  *)
(* version of an issue, or the next pass asks for it (RUNBOOK.md).  The    *)
(* watermark moves only when every page before it was handled.             *)
THEOREM PassesConverge == Spec => []ScanConverges
<1>1. Init => ScanInv
  BY ScanInit
<1>2. FetchInv /\ ScanInv /\ [Next]_vars => ScanInv'
  BY ScanStep
<1>3. ScanInv => ScanConverges
  BY DEF ScanInv
<1> QED
  BY <1>1, <1>2, <1>3, FetchAlways, PTL DEF Spec

=============================================================================
