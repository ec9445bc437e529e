---------------------------- MODULE HubSpotSyncProofs ----------------------------
(* Theorems about the HubSpot connector under the sync pass, for every     *)
(* portal, page size, budget of tries and history of edits.                *)
EXTENDS HubSpotSync, FiniteSetTheorems, SequenceTheorems, TLAPS

LEMMA Parameters ==
  /\ Contacts \in Nat /\ Deals \in Nat /\ MaxEdits \in Nat
  /\ Attempts \in Nat /\ Attempts > 0
BY HubSpotAssumption

(* A bounded set of numbers that is not empty has a greatest one: the one  *)
(* closest to the bound.                                                   *)
LEMMA GreatestExists ==
  ASSUME NEW S \in SUBSET Nat, S # {}, NEW b \in Nat, \A s \in S : s <= b
  PROVE  \E m \in S : \A s \in S : m >= s
<1> DEFINE Below == {n \in Nat : \E s \in S : n = b - s}
<1>1. Below \subseteq Nat /\ Below # {}
  <2>1. PICK s \in S : TRUE
    OBVIOUS
  <2>2. b - s \in Below
    BY <2>1
  <2> QED
    BY <2>2
<1> HIDE DEF Below
<1>2. PICK n \in Below : \A k \in Below : ~(<<k, n>> \in OpToRel(<, Nat))
  BY <1>1, NatLessThanWellFounded, WFMin, Zenon
<1>3. \A k \in Below : ~(k < n)
  BY <1>1, <1>2 DEF OpToRel
<1>4. PICK m \in S : n = b - m
  BY DEF Below
<1>5. ASSUME NEW s \in S PROVE m >= s
  <2>1. b - s \in Below
    BY DEF Below
  <2> QED
    BY <1>3, <1>4, <2>1
<1> QED
  BY <1>5

---------------------------------------------------------------------------
(* Tables by type.                                                         *)

IsTable(f) == f \in [Type -> {f[t] : t \in Type}]

LEMMA Objects ==
  /\ Type = {"contacts", "deals"}
  /\ Object["contacts"] = 1..Contacts /\ Object["deals"] = 1..Deals
  /\ \A t \in Type : /\ Object[t] \subseteq Nat /\ Cardinality(Object[t]) \in Nat
                     /\ \A o \in Object[t] : o > 0
<1>1. Object["contacts"] = 1..Contacts /\ Object["deals"] = 1..Deals
  BY DEF Object, Type
<1>2. Cardinality(1..Contacts) \in Nat /\ Cardinality(1..Deals) \in Nat
  BY Parameters, FS_Interval, FS_CardinalityType
<1> QED
  BY <1>1, <1>2, Parameters DEF Type

---------------------------------------------------------------------------
(* Types, and no watermark names a change that was not made yet.           *)

StampsGiven ==
  /\ maxSeen <= edits
  /\ \A t \in Type : cursor[t] <= edits /\ \A o \in Object[t] : stamp[t][o] <= edits

HubSpotInv ==
  /\ TypeOK
  /\ IsTable(stamp) /\ IsTable(landed) /\ IsTable(queue)
  /\ IsTable(exhausted) /\ IsTable(cut)
  /\ StampsGiven

LEMMA HubSpotTypes ==
  ASSUME HubSpotInv
  PROVE  /\ edits \in Nat /\ edits <= MaxEdits /\ at \in Nat /\ maxSeen \in Nat
         /\ attempt \in Nat /\ phase \in Type \union {"idle"}
         /\ \A t \in Type :
              /\ cursor[t] \in Nat /\ cursor[t] <= edits
              /\ stamp[t] \in [Object[t] -> 0..MaxEdits]
              /\ landed[t] \in [Object[t] -> 0..MaxEdits]
              /\ queue[t] \in [Object[t] -> 0..MaxEdits]
              /\ \A o \in Object[t] : stamp[t][o] \in Nat /\ stamp[t][o] <= edits
BY Parameters DEF HubSpotInv, TypeOK, StampsGiven

LEMMA NewestProperties ==
  ASSUME HubSpotInv, phase # "idle", NEW S \in SUBSET Object[phase]
  PROVE  Newest(S) \in 0..MaxEdits /\ Newest(S) <= edits
<1> DEFINE T == {maxSeen} \union {stamp[phase][o] : o \in S}
<1>1. T \in SUBSET Nat /\ T # {} /\ \A n \in T : n <= edits
  BY HubSpotTypes DEF HubSpotInv, StampsGiven
<1>2. Newest(S) = CHOOSE n \in T : \A m \in T : n >= m
  BY DEF Newest
<1> HIDE DEF T
<1>3. \E n \in T : \A m \in T : n >= m
  BY <1>1, HubSpotTypes, GreatestExists
<1>4. Newest(S) \in T
  BY <1>2, <1>3
<1>5. Newest(S) \in Nat /\ Newest(S) <= edits
  BY <1>1, <1>4
<1>6. edits \in Nat /\ edits <= MaxEdits
  BY HubSpotTypes
<1> QED
  BY <1>5, <1>6, Parameters

(* What consuming some of the listed objects does to the store.            *)
LEMMA ConsumeEffect ==
  ASSUME HubSpotInv, phase # "idle", NEW S \in SUBSET Object[phase], Consume(S)
  PROVE  /\ IsTable(landed') /\ IsTable(queue') /\ IsTable(exhausted') /\ IsTable(cut')
         /\ \A t \in Type : /\ landed'[t] \in [Object[t] -> 0..MaxEdits]
                            /\ queue'[t] \in [Object[t] -> 0..MaxEdits]
                            /\ exhausted'[t] \subseteq Object[t]
                            /\ cut'[t] \subseteq Object[t] /\ cut'[t] \subseteq cut[t]
         /\ \A t \in Type \ {phase} :
              landed'[t] = landed[t] /\ queue'[t] = queue[t] /\ cut'[t] = cut[t]
         /\ \A o \in Object[phase] :
              /\ o \in Valid(S) =>
                   \/ landed'[phase][o] = stamp[phase][o]
                   \/ queue'[phase][o] = stamp[phase][o] /\ o \in exhausted'[phase]
              /\ o \in Poisoned(S) => queue'[phase][o] = stamp[phase][o]
              /\ o \notin Valid(S) => landed'[phase][o] = landed[phase][o]
              /\ o \notin Valid(S) \union Poisoned(S) =>
                   /\ queue'[phase][o] = queue[phase][o]
                   /\ o \in exhausted'[phase] <=> o \in exhausted[phase]
         /\ cut'[phase] = cut[phase] \ (Valid(S) \union Poisoned(S))
<1>0. /\ IsTable(landed) /\ IsTable(queue) /\ IsTable(exhausted) /\ IsTable(cut)
      /\ phase \in Type
  BY HubSpotTypes DEF HubSpotInv
<1>1. PICK F \in SUBSET Written(S) :
        /\ landed' = [landed EXCEPT ![phase] =
             [o \in Object[phase] |-> IF o \in Valid(S) \ F THEN stamp[phase][o]
                                      ELSE landed[phase][o]]]
        /\ queue' = [queue EXCEPT ![phase] =
             [o \in Object[phase] |-> IF o \in Poisoned(S) \union F THEN stamp[phase][o]
                                      ELSE queue[phase][o]]]
        /\ exhausted' = [exhausted EXCEPT ![phase] =
             (exhausted[phase] \ Poisoned(S)) \union F]
        /\ cut' = [cut EXCEPT ![phase] = cut[phase] \ (Valid(S) \union Poisoned(S))]
  BY DEF Consume
<1>2. F \subseteq Valid(S) /\ Valid(S) \cap Poisoned(S) = {} /\ Valid(S) \subseteq Object[phase]
  BY DEF Written, Valid, Poisoned
<1> DEFINE land == [o \in Object[phase] |-> IF o \in Valid(S) \ F THEN stamp[phase][o]
                                            ELSE landed[phase][o]]
           dead == [o \in Object[phase] |-> IF o \in Poisoned(S) \union F
                                            THEN stamp[phase][o] ELSE queue[phase][o]]
           tired == (exhausted[phase] \ Poisoned(S)) \union F
           left == cut[phase] \ (Valid(S) \union Poisoned(S))
<1>3. land \in [Object[phase] -> 0..MaxEdits] /\ dead \in [Object[phase] -> 0..MaxEdits]
  BY <1>0, HubSpotTypes
<1>4. \A t \in Type : cut[t] \subseteq Object[t] /\ exhausted[t] \subseteq Object[t]
  BY DEF HubSpotInv, TypeOK
<1>5. /\ landed' = [landed EXCEPT ![phase] = land]
      /\ queue' = [queue EXCEPT ![phase] = dead]
      /\ exhausted' = [exhausted EXCEPT ![phase] = tired]
      /\ cut' = [cut EXCEPT ![phase] = left]
  BY <1>1
<1> HIDE DEF land, dead, tired, left
<1>6. /\ IsTable(landed') /\ landed'[phase] = land
      /\ \A t \in Type \ {phase} : landed'[t] = landed[t]
  BY <1>0, <1>5 DEF IsTable
<1>7. /\ IsTable(queue') /\ queue'[phase] = dead
      /\ \A t \in Type \ {phase} : queue'[t] = queue[t]
  BY <1>0, <1>5 DEF IsTable
<1>8. /\ IsTable(exhausted') /\ exhausted'[phase] = tired
      /\ \A t \in Type \ {phase} : exhausted'[t] = exhausted[t]
  BY <1>0, <1>5 DEF IsTable
<1>9. /\ IsTable(cut') /\ cut'[phase] = left
      /\ \A t \in Type \ {phase} : cut'[t] = cut[t]
  BY <1>0, <1>5 DEF IsTable
<1>10. ASSUME NEW t \in Type
       PROVE  /\ landed'[t] \in [Object[t] -> 0..MaxEdits]
              /\ queue'[t] \in [Object[t] -> 0..MaxEdits]
              /\ exhausted'[t] \subseteq Object[t]
              /\ cut'[t] \subseteq Object[t] /\ cut'[t] \subseteq cut[t]
  <2>1. CASE t = phase
    BY <1>2, <1>3, <1>4, <1>6, <1>7, <1>8, <1>9, <2>1 DEF left, tired
  <2>2. CASE t # phase
    BY <1>4, <1>6, <1>7, <1>8, <1>9, <2>2, HubSpotTypes
  <2> QED
    BY <2>1, <2>2
<1>11. ASSUME NEW o \in Object[phase]
       PROVE  /\ o \in Valid(S) =>
                   \/ landed'[phase][o] = stamp[phase][o]
                   \/ queue'[phase][o] = stamp[phase][o] /\ o \in exhausted'[phase]
              /\ o \in Poisoned(S) => queue'[phase][o] = stamp[phase][o]
              /\ o \notin Valid(S) => landed'[phase][o] = landed[phase][o]
              /\ o \notin Valid(S) \union Poisoned(S) =>
                   /\ queue'[phase][o] = queue[phase][o]
                   /\ o \in exhausted'[phase] <=> o \in exhausted[phase]
  BY <1>2, <1>6, <1>7, <1>8 DEF land, dead, tired
<1> QED
  BY <1>6, <1>7, <1>8, <1>9, <1>10, <1>11 DEF left

(* Every version that was kept, or cut off, before a page is so after it;  *)
(* what was read of it past the watermark is kept.                         *)
LEMMA ConsumeKeeps ==
  ASSUME HubSpotInv, phase # "idle", NEW S \in SUBSET Object[phase], Consume(S),
         UNCHANGED portalVars
  PROVE  /\ \A t \in Type : Kept(t) \union cut[t] \subseteq (Kept(t) \union cut[t])'
         /\ \A t \in Type : t = phase =>
              \A o \in S : AfterCursor(o) => o \in Kept(t)'
<1>1. phase \in Type /\ stamp' = stamp
  BY HubSpotTypes DEF portalVars
<1>2. ASSUME NEW t \in Type, NEW o \in Object[t], o \in Kept(t) \union cut[t]
      PROVE  o \in (Kept(t) \union cut[t])'
  <2>1. CASE t # phase
    BY <1>1, <1>2, <2>1, ConsumeEffect DEF Kept
  <2>2. CASE t = phase /\ o \in Valid(S) \union Poisoned(S)
    BY <1>1, <2>2, ConsumeEffect DEF Kept
  <2>3. CASE t = phase /\ o \notin Valid(S) \union Poisoned(S)
    BY <1>1, <1>2, <2>3, ConsumeEffect DEF Kept
  <2> QED
    BY <2>1, <2>2, <2>3
<1>3. \A t \in Type : Kept(t) \union cut[t] \subseteq Object[t]
  BY DEF Kept, HubSpotInv, TypeOK
<1>4. ASSUME NEW t \in Type, t = phase, NEW o \in S, AfterCursor(o) PROVE o \in Kept(t)'
  <2>1. o \in Valid(S) \/ o \in Poisoned(S)
    BY <1>4 DEF Valid, Poisoned
  <2>2. o \in Object[t]
    BY <1>4
  <2>3. landed'[t][o] = stamp'[t][o] \/ queue'[t][o] = stamp'[t][o]
    BY <1>1, <1>4, <2>1, <2>2, ConsumeEffect
  <2> QED
    BY <2>2, <2>3 DEF Kept
<1> QED
  BY <1>2, <1>3, <1>4

LEMMA PageProperties ==
  ASSUME HubSpotInv, phase # "idle",
         NEW n \in at..Cardinality(Object[phase]), NEW P \in Page(n)
  PROVE  /\ n \in Nat /\ n >= at
         /\ P \in SUBSET Object[phase]
         /\ \A o \in P : o > at
         /\ \A o \in Object[phase] :
              stamp[phase][o] > 0 /\ o > at /\ (o <= n \/ Rest(n) = {}) => o \in P
<1>1. phase \in Type /\ at \in Nat /\ Object[phase] \subseteq Nat
      /\ Cardinality(Object[phase]) \in Nat
  BY HubSpotTypes, Objects
<1>2. n \in Nat /\ n >= at
  BY <1>1
<1>3. P = {o \in Rest(at) : o <= n}
  BY DEF Page
<1>4. ASSUME NEW o \in Object[phase], stamp[phase][o] > 0, o > at, o <= n \/ Rest(n) = {}
      PROVE  o \in P
  <2>1. o \in Listed /\ o \in Rest(at)
    BY <1>4 DEF Listed, Rest
  <2>2. o <= n
    <3>1. ~(o > n) \/ o \in Rest(n)
      BY <2>1 DEF Rest
    <3> QED
      BY <1>1, <1>2, <1>4, <3>1
  <2> QED
    BY <1>3, <2>1, <2>2
<1> QED
  BY <1>2, <1>3, <1>4 DEF Rest, Listed

LEMMA FinishKeeps ==
  ASSUME HubSpotInv, phase # "idle", NEW P \in SUBSET Object[phase], Finish(P)
  PROVE  /\ EndPass
         /\ cursor' \in [Type -> 0..MaxEdits] /\ \A t \in Type : cursor'[t] <= edits
         /\ \A t \in Type \ {phase} : cursor'[t] = cursor[t]
         /\ whole' = IF cursor[phase] = 0 THEN phase ELSE "none"
         /\ whole' \in Type \union {"none"}
<1>1. phase \in Type /\ cursor \in [Type -> 0..MaxEdits]
  BY HubSpotTypes DEF HubSpotInv, TypeOK
<1>2. Newest(Valid(P)) \in 0..MaxEdits /\ Newest(Valid(P)) <= edits
  <2>1. Valid(P) \in SUBSET Object[phase]
    BY DEF Valid
  <2> QED
    BY <2>1, NewestProperties
<1>3. \/ cursor' = [cursor EXCEPT ![phase] = Newest(Valid(P))]
      \/ cursor' = cursor
  BY DEF Finish
<1>4. /\ cursor' \in [Type -> 0..MaxEdits] /\ \A t \in Type : cursor'[t] <= edits
      /\ \A t \in Type \ {phase} : cursor'[t] = cursor[t]
  <2>1. CASE cursor' = cursor
    BY <1>1, <2>1, HubSpotTypes
  <2>2. CASE cursor' = [cursor EXCEPT ![phase] = Newest(Valid(P))]
    BY <1>1, <1>2, <2>2, HubSpotTypes
  <2> QED
    BY <1>3, <2>1, <2>2
<1> QED
  BY <1>1, <1>4 DEF Finish

LEMMA EndPassTypes ==
  ASSUME EndPass
  PROVE  /\ phase' \in Type \union {"idle"} /\ at' \in Nat /\ trail' \in Seq(Nat)
         /\ attempt' \in 0..(Attempts - 1) /\ maxSeen' = 0 /\ maxSeen' \in 0..MaxEdits
BY Parameters, EmptySeq DEF EndPass

LEMMA HubSpotInit == Init => HubSpotInv
<1> SUFFICES ASSUME Init PROVE HubSpotInv
  OBVIOUS
<1>1. \A t \in Type : Nothing[t] \in [Object[t] -> 0..MaxEdits]
  BY Parameters DEF Nothing
<1>2. IsTable(Nothing) /\ IsTable([t \in Type |-> {}])
  BY DEF Nothing, IsTable
<1>3. TypeOK
  BY <1>1, Parameters, EmptySeq DEF Init, TypeOK
<1>4. \A t \in Type : \A o \in Object[t] : Nothing[t][o] = 0
  BY DEF Nothing
<1> QED
  BY <1>2, <1>3, <1>4 DEF Init, HubSpotInv, StampsGiven

LEMMA HubSpotStep == HubSpotInv /\ [Next]_vars => HubSpotInv'
<1> SUFFICES ASSUME HubSpotInv, [Next]_vars PROVE HubSpotInv'
  OBVIOUS
<1>0. /\ TypeOK /\ StampsGiven
      /\ IsTable(stamp) /\ IsTable(landed) /\ IsTable(queue)
      /\ IsTable(exhausted) /\ IsTable(cut)
  BY DEF HubSpotInv
<1>1. ASSUME NEW t \in Type, StartPass(t) PROVE HubSpotInv'
  <2>1. UNCHANGED <<stamp, email, edits, landed, queue, exhausted, cursor, cut>>
    BY <1>1 DEF StartPass, portalVars, storeVars
  <2>2. /\ phase' = t /\ at' = 0 /\ trail' = <<>> /\ attempt' = 0
        /\ maxSeen' = cursor[t] /\ whole' = "none"
    BY <1>1 DEF StartPass
  <2>3. StampsGiven'
    BY <1>0, <2>1, <2>2 DEF StampsGiven
  <2>4. TypeOK'
    BY <1>0, <2>1, <2>2, Parameters, EmptySeq DEF TypeOK
  <2> QED
    BY <1>0, <2>1, <2>3, <2>4 DEF HubSpotInv, IsTable
(* A page was consumed, and the portal stays.                              *)
<1>2. ASSUME phase # "idle", NEW S \in SUBSET Object[phase], Consume(S),
             UNCHANGED portalVars
      PROVE  /\ \A t \in Type : /\ stamp'[t] \in [Object[t] -> 0..MaxEdits]
                                /\ landed'[t] \in [Object[t] -> 0..MaxEdits]
                                /\ queue'[t] \in [Object[t] -> 0..MaxEdits]
                                /\ exhausted'[t] \subseteq Object[t]
                                /\ cut'[t] \subseteq Object[t]
             /\ IsTable(stamp)' /\ IsTable(landed)' /\ IsTable(queue)'
             /\ IsTable(exhausted)' /\ IsTable(cut)'
  <2>1. stamp' = stamp
    BY <1>2 DEF portalVars
  <2>2. /\ IsTable(landed') /\ IsTable(queue') /\ IsTable(exhausted') /\ IsTable(cut')
        /\ \A t \in Type : /\ landed'[t] \in [Object[t] -> 0..MaxEdits]
                           /\ queue'[t] \in [Object[t] -> 0..MaxEdits]
                           /\ exhausted'[t] \subseteq Object[t]
                           /\ cut'[t] \subseteq Object[t]
    BY <1>2, ConsumeEffect
  <2> QED
    BY <1>0, <2>1, <2>2, HubSpotTypes DEF IsTable
<1>3. ASSUME EndPass, UNCHANGED portalVars,
             cursor' \in [Type -> 0..MaxEdits], \A t \in Type : cursor'[t] <= edits,
             whole' \in Type \union {"none"},
             \A t \in Type : /\ stamp'[t] \in [Object[t] -> 0..MaxEdits]
                             /\ landed'[t] \in [Object[t] -> 0..MaxEdits]
                             /\ queue'[t] \in [Object[t] -> 0..MaxEdits]
                             /\ exhausted'[t] \subseteq Object[t]
                             /\ cut'[t] \subseteq Object[t],
             IsTable(stamp)', IsTable(landed)', IsTable(queue)',
             IsTable(exhausted)', IsTable(cut)'
      PROVE  HubSpotInv'
  <2>1. TypeOK'
    BY <1>0, <1>3, EndPassTypes DEF TypeOK, portalVars
  <2>2. StampsGiven'
    BY <1>0, <1>3, EndPassTypes, HubSpotTypes DEF StampsGiven, portalVars
  <2> QED
    BY <1>3, <2>1, <2>2 DEF HubSpotInv
<1>4. CASE Answer
  <2>1. PICK n \in at..Cardinality(Object[phase]), more \in BOOLEAN : \E P \in Page(n) :
          /\ Consume(P)
          /\ IF IsLast(P, more) THEN Finish(P)
             ELSE /\ at' = n /\ trail' = Append(trail, n)
                  /\ attempt' = 0 /\ maxSeen' = Newest(Valid(P))
                  /\ UNCHANGED <<phase, cursor, whole>>
    BY <1>4 DEF Answer
  <2>2. PICK P \in Page(n) :
          /\ Consume(P)
          /\ IF IsLast(P, more) THEN Finish(P)
             ELSE /\ at' = n /\ trail' = Append(trail, n)
                  /\ attempt' = 0 /\ maxSeen' = Newest(Valid(P))
                  /\ UNCHANGED <<phase, cursor, whole>>
    BY <2>1
  <2>3. phase # "idle" /\ UNCHANGED portalVars
    BY <1>4 DEF Answer
  <2>4. n \in Nat /\ P \in SUBSET Object[phase]
    BY <2>3, PageProperties
  <2>5. CASE IsLast(P, more)
    <3>1. Finish(P)
      BY <2>2, <2>5
    <3> QED
      BY <1>2, <1>3, <2>2, <2>3, <2>4, <3>1, FinishKeeps
  <2>6. CASE ~IsLast(P, more)
    <3>1. /\ at' = n /\ trail' = Append(trail, n)
          /\ attempt' = 0 /\ maxSeen' = Newest(Valid(P))
          /\ UNCHANGED <<phase, cursor, whole>>
      BY <2>2, <2>6
    <3>2. Valid(P) \in SUBSET Object[phase]
      BY <2>4 DEF Valid
    <3>3. maxSeen' \in 0..MaxEdits /\ maxSeen' <= edits
      BY <2>3, <3>1, <3>2, NewestProperties
    <3>4. trail' \in Seq(Nat)
      BY <1>0, <2>4, <3>1, AppendProperties DEF TypeOK
    <3>5. /\ \A t \in Type : /\ stamp'[t] \in [Object[t] -> 0..MaxEdits]
                             /\ landed'[t] \in [Object[t] -> 0..MaxEdits]
                             /\ queue'[t] \in [Object[t] -> 0..MaxEdits]
                             /\ exhausted'[t] \subseteq Object[t]
                             /\ cut'[t] \subseteq Object[t]
          /\ IsTable(stamp)' /\ IsTable(landed)' /\ IsTable(queue)'
          /\ IsTable(exhausted)' /\ IsTable(cut)'
      BY <1>2, <2>2, <2>3, <2>4
    <3>6. TypeOK'
      BY <1>0, <2>3, <2>4, <3>1, <3>3, <3>4, <3>5, Parameters DEF TypeOK, portalVars
    <3>7. StampsGiven'
      BY <1>0, <2>3, <3>1, <3>3 DEF StampsGiven, portalVars
    <3> QED
      BY <3>5, <3>6, <3>7 DEF HubSpotInv
  <2> QED
    BY <2>5, <2>6
<1>5. CASE Garble
  <2>1. /\ phase # "idle" /\ Finish({}) /\ {} \in SUBSET Object[phase]
        /\ UNCHANGED <<stamp, landed, queue, exhausted>> /\ UNCHANGED portalVars
        /\ cut' = [cut EXCEPT ![phase] = cut[phase] \union Rest(at)]
    BY <1>5 DEF Garble, portalVars
  <2>2. Rest(at) \subseteq Object[phase]
    BY DEF Rest, Listed
  <2>3. IsTable(cut)' /\ \A t \in Type : cut'[t] \subseteq Object[t]
    BY <1>0, <2>1, <2>2 DEF IsTable, TypeOK
  <2>4. IsTable(stamp)' /\ IsTable(landed)' /\ IsTable(queue)' /\ IsTable(exhausted)'
    BY <1>0, <2>1 DEF IsTable
  <2>5. \A t \in Type : /\ stamp'[t] \in [Object[t] -> 0..MaxEdits]
                        /\ landed'[t] \in [Object[t] -> 0..MaxEdits]
                        /\ queue'[t] \in [Object[t] -> 0..MaxEdits]
                        /\ exhausted'[t] \subseteq Object[t]
    BY <1>0, <2>1 DEF TypeOK
  <2> QED
    BY <1>3, <2>1, <2>3, <2>4, <2>5, FinishKeeps
<1>6. CASE Repeat
  <2>1. PICK n \in at..Cardinality(Object[phase]) : \E P \in Page(n) : Consume(P)
    BY <1>6 DEF Repeat
  <2>2. PICK P \in Page(n) : Consume(P)
    BY <2>1
  <2>3. phase # "idle" /\ EndPass /\ UNCHANGED portalVars /\ UNCHANGED <<cursor, whole>>
    BY <1>6 DEF Repeat
  <2>4. P \in SUBSET Object[phase]
    BY <2>3, PageProperties
  <2> QED
    BY <1>0, <1>2, <1>3, <2>2, <2>3, <2>4, HubSpotTypes DEF TypeOK
<1>7. CASE Retry
  <2>1. /\ attempt' = attempt + 1 /\ attempt < Attempts - 1
        /\ UNCHANGED <<stamp, email, edits, phase, at, trail, maxSeen, landed,
                       queue, exhausted, cursor,
                       whole, cut>>
    BY <1>7 DEF Retry, portalVars, storeVars, historyVars
  <2>2. attempt' \in 0..(Attempts - 1)
    BY <2>1, HubSpotTypes, Parameters
  <2> QED
    BY <1>0, <2>1, <2>2 DEF HubSpotInv, TypeOK, StampsGiven, IsTable
<1>8. CASE Raise
  <2>1. /\ EndPass
        /\ UNCHANGED <<stamp, email, edits, landed, queue, exhausted, cursor, whole, cut>>
    BY <1>8 DEF Raise, portalVars, storeVars, historyVars
  <2>2. TypeOK'
    BY <1>0, <2>1, EndPassTypes DEF TypeOK
  <2>3. StampsGiven'
    BY <1>0, <2>1, EndPassTypes, HubSpotTypes DEF StampsGiven
  <2> QED
    BY <1>0, <2>1, <2>2, <2>3 DEF HubSpotInv, IsTable
<1>9. CASE Abandon
  <2>1. PICK n \in at..Cardinality(Object[phase]) :
          \E P \in Page(n) : \E k \in 0..n : Consume({o \in P : o <= k})
    BY <1>9 DEF Abandon
  <2>2. PICK P \in Page(n) : \E k \in 0..n : Consume({o \in P : o <= k})
    BY <2>1
  <2>3. PICK k \in 0..n : Consume({o \in P : o <= k})
    BY <2>2
  <2>4. phase # "idle" /\ EndPass /\ UNCHANGED portalVars /\ UNCHANGED <<cursor, whole>>
    BY <1>9 DEF Abandon
  <2>5. {o \in P : o <= k} \in SUBSET Object[phase]
    BY <2>4, PageProperties
  <2> QED
    BY <1>0, <1>2, <1>3, <2>3, <2>4, <2>5, HubSpotTypes DEF TypeOK
<1>10. ASSUME NEW t \in Type, ResetCursor(t) PROVE HubSpotInv'
  <2>1. /\ cursor' = [cursor EXCEPT ![t] = 0] /\ whole' = "none"
        /\ UNCHANGED <<stamp, email, edits, phase, at, trail, attempt, maxSeen, landed,
                       queue, exhausted,
                       cut>>
    BY <1>10 DEF ResetCursor, portalVars, passVars
  <2>2. cursor' \in [Type -> 0..MaxEdits] /\ \A u \in Type : cursor'[u] <= edits
    BY <1>0, <2>1, HubSpotTypes, Parameters DEF TypeOK
  <2>3. TypeOK'
    BY <1>0, <2>1, <2>2 DEF TypeOK
  <2>4. StampsGiven'
    BY <1>0, <2>1, <2>2 DEF StampsGiven
  <2> QED
    BY <1>0, <2>1, <2>3, <2>4 DEF HubSpotInv, IsTable
<1>11. ASSUME NEW t \in Type, NEW o \in Object[t], Edit(t, o) PROVE HubSpotInv'
  <2>1. /\ edits' = edits + 1 /\ edits < MaxEdits
        /\ stamp' = [stamp EXCEPT ![t] = [stamp[t] EXCEPT ![o] = edits + 1]]
        /\ whole' = "none"
        /\ UNCHANGED <<phase, at, trail, attempt, maxSeen, landed,
                       queue, exhausted, cursor, cut>>
    BY <1>11 DEF Edit, passVars, storeVars
  <2>2. email' \subseteq 1..Contacts
    BY <1>0, <1>11, Objects DEF Edit, TypeOK
  <2>3. edits' \in 0..MaxEdits /\ edits <= edits' /\ edits + 1 \in 0..MaxEdits
    BY <2>1, HubSpotTypes, Parameters
  <2>4. IsTable(stamp)'
    BY <1>0, <2>1 DEF IsTable
  <2>5. ASSUME NEW u \in Type
        PROVE  /\ stamp'[u] \in [Object[u] -> 0..MaxEdits]
               /\ \A x \in Object[u] : stamp'[u][x] <= edits'
    <3>1. stamp[u] \in [Object[u] -> 0..MaxEdits]
          /\ \A x \in Object[u] : stamp[u][x] \in Nat /\ stamp[u][x] <= edits
      BY HubSpotTypes
    <3>2. CASE u # t
      <4>1. stamp'[u] = stamp[u]
        BY <1>0, <2>1, <3>2 DEF IsTable
      <4> QED
        BY <2>1, <3>1, <4>1, HubSpotTypes
    <3>3. CASE u = t
      <4>1. stamp'[u] = [stamp[u] EXCEPT ![o] = edits + 1]
        BY <1>0, <2>1, <3>3 DEF IsTable
      <4>2. stamp'[u] \in [Object[u] -> 0..MaxEdits]
        BY <2>3, <3>1, <3>3, <4>1
      <4>3. \A x \in Object[u] : stamp'[u][x] = edits + 1 \/ stamp'[u][x] = stamp[u][x]
        BY <3>1, <4>1
      <4> QED
        BY <2>1, <3>1, <4>2, <4>3, HubSpotTypes
    <3> QED
      BY <3>2, <3>3
  <2>6. TypeOK'
    BY <1>0, <2>1, <2>2, <2>3, <2>5 DEF TypeOK
  <2>7. StampsGiven'
    BY <1>0, <2>1, <2>5, HubSpotTypes DEF StampsGiven
  <2> QED
    BY <1>0, <2>1, <2>4, <2>6, <2>7 DEF HubSpotInv, IsTable
<1>12. CASE UNCHANGED vars
  <2>1. UNCHANGED <<stamp, email, edits, phase, at, trail, attempt, maxSeen, landed,
                    queue, exhausted,
                    cursor, whole, cut>>
    BY <1>12 DEF vars, portalVars, passVars, storeVars, historyVars
  <2> QED
    BY <1>0, <2>1 DEF HubSpotInv, TypeOK, StampsGiven, IsTable
<1> QED
  BY <1>1, <1>4, <1>5, <1>6, <1>7, <1>8, <1>9, <1>10, <1>11, <1>12 DEF Next, Client

LEMMA HubSpotAlways == Spec => []HubSpotInv
<1>1. Init => HubSpotInv
  BY HubSpotInit
<1>2. HubSpotInv /\ [Next]_vars => HubSpotInv'
  BY HubSpotStep
<1> QED
  BY <1>1, <1>2, PTL DEF Spec

(* Every reachable state of the connector has its type.                    *)
THEOREM HubSpotTyped == Spec => []TypeOK
<1>1. HubSpotInv => TypeOK
  BY DEF HubSpotInv
<1> QED
  BY <1>1, HubSpotAlways, PTL

---------------------------------------------------------------------------
(* What a watermark has passed.                                            *)

Accounted(t) == Kept(t) \union cut[t]

(* What the pass has read so far, past the watermark, is accounted for: the*)
(* watermark may name any of it once the listing was read to its end.      *)
ReadIsKept ==
  \A t \in Type : phase = t =>
    \A o \in Object[t] :
      stamp[t][o] > 0 /\ o <= at /\ stamp[t][o] > cursor[t] => o \in Accounted(t)

CoverInv == ReadIsKept /\ WatermarkCoversUnlessCut

LEMMA CoverInit == Init => CoverInv
BY DEF Init, Nothing, CoverInv, ReadIsKept, WatermarkCoversUnlessCut, Passed, Type

(* A pass that stops where it is leaves what was accounted for so.         *)
LEMMA StopCovers ==
  ASSUME HubSpotInv, CoverInv, EndPass, UNCHANGED <<stamp, cursor>>,
         \A t \in Type : Accounted(t) \subseteq Accounted(t)'
  PROVE  CoverInv'
<1>1. ReadIsKept'
  BY Objects DEF EndPass, ReadIsKept
<1>2. WatermarkCoversUnlessCut'
  BY DEF CoverInv, WatermarkCoversUnlessCut, Passed, Accounted
<1> QED
  BY <1>1, <1>2 DEF CoverInv

(* A pass whose listing was read to its end may move the watermark anywhere*)
(* when every object past the old one is accounted for.                    *)
LEMMA FinishCovers ==
  ASSUME HubSpotInv, CoverInv, phase # "idle", UNCHANGED stamp,
         NEW P \in SUBSET Object[phase], Finish(P),
         \A t \in Type : Accounted(t) \subseteq Accounted(t)',
         \A t \in Type : phase = t =>
           \A o \in Object[t] : stamp[t][o] > 0 /\ stamp[t][o] > cursor[t] => o \in Accounted(t)'
  PROVE  CoverInv'
<1>1. /\ EndPass
      /\ \A t \in Type \ {phase} : cursor'[t] = cursor[t]
  BY FinishKeeps
<1>2. ReadIsKept'
  BY <1>1, Objects DEF EndPass, ReadIsKept
<1>3. ASSUME NEW t \in Type, NEW o \in Passed(t)' PROVE o \in Accounted(t)'
  <2>1. o \in Object[t] /\ 0 < stamp[t][o] /\ stamp[t][o] <= cursor'[t]
    BY <1>3 DEF Passed
  <2>2. stamp[t][o] \in Nat /\ cursor[t] \in Nat
    BY <2>1, HubSpotTypes
  <2>3. CASE stamp[t][o] <= cursor[t]
    BY <2>1, <2>3 DEF CoverInv, WatermarkCoversUnlessCut, Passed, Accounted
  <2>4. CASE stamp[t][o] > cursor[t]
    <3>1. t = phase
      BY <1>1, <2>1, <2>2, <2>4
    <3> QED
      BY <2>1, <2>4, <3>1
  <2> QED
    BY <2>2, <2>3, <2>4
<1> QED
  BY <1>2, <1>3 DEF CoverInv, WatermarkCoversUnlessCut, Accounted

LEMMA CoverStep == HubSpotInv /\ CoverInv /\ [Next]_vars => CoverInv'
<1> SUFFICES ASSUME HubSpotInv, CoverInv, [Next]_vars PROVE CoverInv'
  OBVIOUS
<1>1. ASSUME NEW t \in Type, StartPass(t) PROVE CoverInv'
  <2>1. at' = 0 /\ UNCHANGED <<stamp, landed, queue, exhausted, cursor, cut>>
    BY <1>1 DEF StartPass, portalVars, storeVars
  <2>2. ReadIsKept'
    <3> SUFFICES ASSUME NEW u \in Type, NEW o \in Object[u] PROVE ~(o <= 0)
      BY <2>1 DEF ReadIsKept
    <3> QED
      BY Objects
  <2> QED
    BY <2>1, <2>2 DEF CoverInv, WatermarkCoversUnlessCut, Passed, Kept
<1>2. CASE Answer
  <2>1. PICK n \in at..Cardinality(Object[phase]), more \in BOOLEAN : \E P \in Page(n) :
          /\ Rest(n) # {} => more
          /\ Consume(P)
          /\ IF IsLast(P, more) THEN Finish(P)
             ELSE at' = n /\ UNCHANGED <<phase, cursor, whole>>
    BY <1>2 DEF Answer
  <2>2. PICK P \in Page(n) :
          /\ Rest(n) # {} => more
          /\ Consume(P)
          /\ IF IsLast(P, more) THEN Finish(P)
             ELSE at' = n /\ UNCHANGED <<phase, cursor, whole>>
    BY <2>1
  <2>3. phase # "idle" /\ UNCHANGED portalVars /\ UNCHANGED stamp
    BY <1>2 DEF Answer, portalVars
  <2>4. /\ P \in SUBSET Object[phase]
        /\ \A o \in Object[phase] :
             stamp[phase][o] > 0 /\ o > at /\ (o <= n \/ Rest(n) = {}) => o \in P
    BY <2>3, PageProperties
  <2>5. /\ \A t \in Type : Accounted(t) \subseteq Accounted(t)'
        /\ \A t \in Type : t = phase =>
             \A o \in P : AfterCursor(o) => o \in Kept(t)'
    BY <2>2, <2>3, <2>4, ConsumeKeeps DEF Accounted
  <2>6. ASSUME NEW t \in Type, phase = t, NEW o \in Object[t],
               stamp[t][o] > 0, stamp[t][o] > cursor[t], o <= n \/ Rest(n) = {}
        PROVE  o \in Accounted(t)'
    <3>1. o \in Nat /\ at \in Nat
      BY Objects, HubSpotTypes
    <3>2. CASE o <= at
      BY <2>5, <2>6, <3>2 DEF CoverInv, ReadIsKept
    <3>3. CASE o > at
      <4>1. o \in P /\ AfterCursor(o)
        BY <2>4, <2>6, <3>3 DEF AfterCursor
      <4> QED
        BY <2>5, <2>6, <4>1 DEF Accounted
    <3> QED
      BY <3>1, <3>2, <3>3
  <2>7. CASE IsLast(P, more)
    <3>1. Finish(P) /\ Rest(n) = {}
      BY <2>2, <2>7 DEF IsLast
    <3> QED
      BY <2>3, <2>4, <2>5, <2>6, <3>1, FinishCovers
  <2>8. CASE ~IsLast(P, more)
    <3>1. at' = n /\ phase' = phase /\ cursor' = cursor
      BY <2>2, <2>8
    <3>2. ReadIsKept'
      BY <2>3, <2>6, <3>1 DEF ReadIsKept
    <3> QED
      BY <2>3, <2>5, <3>1, <3>2 DEF CoverInv, WatermarkCoversUnlessCut, Passed, Accounted
  <2> QED
    BY <2>7, <2>8
<1>3. CASE Garble
  <2>1. /\ phase # "idle" /\ Finish({}) /\ {} \in SUBSET Object[phase]
        /\ UNCHANGED <<stamp, landed, queue, exhausted>>
        /\ cut' = [cut EXCEPT ![phase] = cut[phase] \union Rest(at)]
    BY <1>3 DEF Garble, portalVars
  <2>2. \A t \in Type : /\ cut[t] \subseteq cut'[t]
                        /\ t = phase => Rest(at) \subseteq cut'[t]
    BY <2>1 DEF HubSpotInv, IsTable
  <2>3. \A t \in Type : Accounted(t) \subseteq Accounted(t)'
    BY <2>1, <2>2 DEF Accounted, Kept
  <2>4. ASSUME NEW t \in Type, phase = t, NEW o \in Object[t],
               stamp[t][o] > 0, stamp[t][o] > cursor[t]
        PROVE  o \in Accounted(t)'
    <3>1. o \in Nat /\ at \in Nat
      BY Objects, HubSpotTypes
    <3>2. CASE o <= at
      BY <2>3, <2>4, <3>2 DEF CoverInv, ReadIsKept
    <3>3. CASE o > at
      <4>1. o \in Rest(at)
        BY <2>4, <3>3 DEF Rest, Listed
      <4> QED
        BY <2>2, <2>4, <4>1 DEF Accounted
    <3> QED
      BY <3>1, <3>2, <3>3
  <2> QED
    BY <2>1, <2>3, <2>4, FinishCovers
<1>4. ASSUME phase # "idle", NEW S \in SUBSET Object[phase], Consume(S), EndPass,
             UNCHANGED portalVars, UNCHANGED cursor
      PROVE  CoverInv'
  <2>1. \A t \in Type : Accounted(t) \subseteq Accounted(t)'
    BY <1>4, ConsumeKeeps DEF Accounted
  <2> QED
    BY <1>4, <2>1, StopCovers DEF portalVars
<1>5. CASE Repeat
  <2>1. PICK n \in at..Cardinality(Object[phase]) : \E P \in Page(n) : Consume(P)
    BY <1>5 DEF Repeat
  <2>2. PICK P \in Page(n) : Consume(P)
    BY <2>1
  <2>3. phase # "idle" /\ EndPass /\ UNCHANGED portalVars /\ UNCHANGED cursor
    BY <1>5 DEF Repeat
  <2> QED
    BY <1>4, <2>2, <2>3, PageProperties
<1>6. CASE Abandon
  <2>1. PICK n \in at..Cardinality(Object[phase]) :
          \E P \in Page(n) : \E k \in 0..n : Consume({o \in P : o <= k})
    BY <1>6 DEF Abandon
  <2>2. PICK P \in Page(n) : \E k \in 0..n : Consume({o \in P : o <= k})
    BY <2>1
  <2>3. PICK k \in 0..n : Consume({o \in P : o <= k})
    BY <2>2
  <2>4. phase # "idle" /\ EndPass /\ UNCHANGED portalVars /\ UNCHANGED cursor
    BY <1>6 DEF Abandon
  <2>5. {o \in P : o <= k} \in SUBSET Object[phase]
    BY <2>4, PageProperties
  <2> QED
    BY <1>4, <2>3, <2>4, <2>5
<1>7. CASE Raise
  <2>1. EndPass /\ UNCHANGED <<stamp, landed, queue, exhausted, cursor, cut>>
    BY <1>7 DEF Raise, portalVars, storeVars, historyVars
  <2>2. \A t \in Type : Accounted(t) \subseteq Accounted(t)'
    BY <2>1 DEF Accounted, Kept
  <2> QED
    BY <2>1, <2>2, StopCovers
<1>8. CASE Retry \/ UNCHANGED vars
  <2>1. UNCHANGED <<phase, at, stamp, landed, queue, exhausted, cursor, cut>>
    BY <1>8 DEF Retry, vars, portalVars, passVars, storeVars, historyVars
  <2> QED
    BY <2>1 DEF CoverInv, ReadIsKept, WatermarkCoversUnlessCut, Passed, Kept, Accounted
<1>9. ASSUME NEW t \in Type, ResetCursor(t) PROVE CoverInv'
  <2>1. /\ phase' = "idle" /\ cursor' = [cursor EXCEPT ![t] = 0]
        /\ UNCHANGED <<stamp, landed, queue, exhausted, cut>>
    BY <1>9 DEF ResetCursor, portalVars, passVars
  <2>2. ReadIsKept'
    BY <2>1, Objects DEF ReadIsKept
  <2>3. ASSUME NEW u \in Type, NEW o \in Passed(u)' PROVE o \in Passed(u)
    <3>1. o \in Object[u] /\ 0 < stamp[u][o] /\ stamp[u][o] <= cursor'[u]
      BY <2>1, <2>3 DEF Passed
    <3>2. cursor'[u] = cursor[u] \/ cursor'[u] = 0
      BY <2>1 DEF HubSpotInv, TypeOK
    <3> QED
      BY <3>1, <3>2, HubSpotTypes DEF Passed
  <2> QED
    BY <2>1, <2>2, <2>3 DEF CoverInv, WatermarkCoversUnlessCut, Kept
<1>10. ASSUME NEW t \in Type, NEW o \in Object[t], Edit(t, o) PROVE CoverInv'
  <2>1. /\ phase' = "idle"
        /\ stamp' = [stamp EXCEPT ![t] = [stamp[t] EXCEPT ![o] = edits + 1]]
        /\ UNCHANGED <<landed, queue, exhausted, cursor, cut>>
    BY <1>10 DEF Edit, passVars, storeVars
  <2>2. ReadIsKept'
    BY <2>1, Objects DEF ReadIsKept
  <2>3. ASSUME NEW u \in Type, NEW x \in Passed(u)'
        PROVE  x \in Passed(u) /\ stamp'[u][x] = stamp[u][x]
    <3>1. x \in Object[u] /\ 0 < stamp'[u][x] /\ stamp'[u][x] <= cursor[u]
      BY <2>1, <2>3 DEF Passed
    <3>2. /\ stamp[u] \in [Object[u] -> 0..MaxEdits] /\ cursor[u] \in Nat
          /\ cursor[u] <= edits /\ edits \in Nat
      BY HubSpotTypes
    <3>3. stamp'[u] = IF u = t THEN [stamp[u] EXCEPT ![o] = edits + 1] ELSE stamp[u]
      BY <2>1 DEF HubSpotInv, IsTable
    <3>4. stamp'[u][x] = stamp[u][x]
      <4>1. CASE u = t /\ x = o
        <5>1. stamp'[u][x] = edits + 1
          BY <3>1, <3>2, <3>3, <4>1
        <5> QED
          BY <3>1, <3>2, <5>1
      <4>2. CASE ~(u = t /\ x = o)
        BY <3>1, <3>2, <3>3, <4>2
      <4> QED
        BY <4>1, <4>2
    <3> QED
      BY <3>1, <3>4 DEF Passed
  <2>4. ASSUME NEW u \in Type, NEW x \in Passed(u)' PROVE x \in Accounted(u)'
    <3>1. x \in Passed(u) /\ stamp'[u][x] = stamp[u][x] /\ x \in Object[u]
      BY <2>3, <2>4 DEF Passed
    <3>2. x \in Kept(u) \union cut[u]
      BY <3>1 DEF CoverInv, WatermarkCoversUnlessCut
    <3> QED
      BY <2>1, <3>1, <3>2 DEF Accounted, Kept
  <2> QED
    BY <2>2, <2>4 DEF CoverInv, WatermarkCoversUnlessCut, Accounted
<1> QED
  BY <1>1, <1>2, <1>3, <1>5, <1>6, <1>7, <1>8, <1>9, <1>10 DEF Next, Client

(* A watermark passes no version that is neither in the CRM nor in the     *)
(* dead-letter queue, whatever pages failed, came empty, were cut short or *)
(* repeated: only what a garbled page cut off the listing is missed        *)
(* (hubspot_source.py, the paging loop and the sync pass over it).         *)
THEOREM WatermarksCover == Spec => []WatermarkCoversUnlessCut
<1>1. Init => CoverInv
  BY CoverInit
<1>2. HubSpotInv /\ CoverInv /\ [Next]_vars => CoverInv'
  BY CoverStep
<1>3. CoverInv => WatermarkCoversUnlessCut
  BY DEF CoverInv
<1> QED
  BY <1>1, <1>2, <1>3, HubSpotAlways, PTL DEF Spec

---------------------------------------------------------------------------
(* What a whole pass over the deals lands.                                 *)

Lands(d) ==
  (stamp["deals"][d] > 0 /\ \E c \in Associated[d] : Resolves(c))
     => landed["deals"][d] = stamp["deals"][d] \/ Exhausted(d)

(* A pass over the deals from no watermark lands, page by page, each deal  *)
(* whose contact was synced, or queues it for a write that exhausted its   *)
(* retries, and says it was whole only when it ends.                       *)
ReadLands ==
  phase = "deals" /\ cursor["deals"] = 0 =>
    \A d \in 1..Deals \ cut["deals"] : d <= at => Lands(d)

LandInv ==
  /\ phase # "idle" => whole = "none"
  /\ ReadLands
  /\ ResetLandsDeals

LEMMA LandInit == Init => LandInv
BY DEF Init, LandInv, ReadLands, ResetLandsDeals

(* A pass that does not report itself whole promises nothing.              *)
LEMMA NotWhole ==
  ASSUME HubSpotInv, whole' = "none", phase' \in {"idle", "contacts"}
  PROVE  LandInv'
BY DEF LandInv, ReadLands, ResetLandsDeals

(* A page of deals, with the contacts as they are.                         *)
LEMMA PageLands ==
  ASSUME HubSpotInv, LandInv, phase = "deals", cursor["deals"] = 0,
         NEW n \in at..Cardinality(Object[phase]), NEW P \in Page(n), Consume(P),
         UNCHANGED stamp,
         NEW d \in 1..Deals \ cut'["deals"], d <= n \/ Rest(n) = {}
  PROVE  Lands(d)'
<1>1. /\ P \in SUBSET Object[phase] /\ \A o \in P : o > at
      /\ stamp["deals"][d] > 0 /\ d > at /\ (d <= n \/ Rest(n) = {}) => d \in P
  BY PageProperties, Objects
<1>2. /\ landed'["contacts"] = landed["contacts"]
      /\ d \in Valid(P) => landed'["deals"][d] = stamp["deals"][d] \/ Exhausted(d)'
      /\ d \notin Valid(P) \union Poisoned(P) =>
           /\ landed'["deals"][d] = landed["deals"][d]
           /\ Exhausted(d)' <=> Exhausted(d)
      /\ cut'["deals"] = cut["deals"] \ (Valid(P) \union Poisoned(P))
  BY <1>1, ConsumeEffect, Objects DEF Exhausted
<1> SUFFICES ASSUME stamp["deals"][d] > 0, NEW c \in Associated[d], Resolves(c),
                    d \notin Valid(P)
             PROVE  /\ landed'["deals"][d] = landed["deals"][d]
                    /\ Exhausted(d)' <=> Exhausted(d)
                    /\ landed["deals"][d] = stamp["deals"][d] \/ Exhausted(d)
  BY <1>2 DEF Lands, Resolves
<1>3. d \notin P
  <2>1. AfterCursor(d) /\ HasAddress(d)
    BY DEF AfterCursor, HasAddress
  <2> QED
    BY <2>1 DEF Valid
<1>4. d \notin Valid(P) \union Poisoned(P) /\ d \notin cut["deals"]
  BY <1>2, <1>3 DEF Valid, Poisoned
<1>5. d <= at
  BY <1>1, <1>3, HubSpotTypes, Parameters
<1> QED
  BY <1>2, <1>4, <1>5 DEF LandInv, ReadLands, Lands

LEMMA LandStep == HubSpotInv /\ LandInv /\ [Next]_vars => LandInv'
<1> SUFFICES ASSUME HubSpotInv, LandInv, [Next]_vars PROVE LandInv'
  OBVIOUS
<1>1. ASSUME NEW t \in Type, StartPass(t) PROVE LandInv'
  <2>1. at' = 0 /\ whole' = "none"
    BY <1>1 DEF StartPass
  <2>2. \A d \in 1..Deals : ~(d <= 0)
    OBVIOUS
  <2> QED
    BY <2>1, <2>2 DEF LandInv, ReadLands, ResetLandsDeals
<1>2. CASE Answer
  <2>1. PICK n \in at..Cardinality(Object[phase]), more \in BOOLEAN : \E P \in Page(n) :
          /\ Rest(n) # {} => more
          /\ Consume(P)
          /\ IF IsLast(P, more) THEN Finish(P)
             ELSE at' = n /\ UNCHANGED <<phase, cursor, whole>>
    BY <1>2 DEF Answer
  <2>2. PICK P \in Page(n) :
          /\ Rest(n) # {} => more
          /\ Consume(P)
          /\ IF IsLast(P, more) THEN Finish(P)
             ELSE at' = n /\ UNCHANGED <<phase, cursor, whole>>
    BY <2>1
  <2>3. phase # "idle" /\ UNCHANGED stamp /\ P \in SUBSET Object[phase]
    BY <1>2, PageProperties DEF Answer, portalVars
  <2>4. ASSUME phase = "deals", cursor["deals"] = 0,
               NEW d \in 1..Deals \ cut'["deals"], d <= n \/ Rest(n) = {}
        PROVE  Lands(d)'
    BY <2>2, <2>3, <2>4, PageLands
  <2>5. CASE IsLast(P, more)
    <3>1. Finish(P) /\ Rest(n) = {}
      BY <2>2, <2>5 DEF IsLast
    <3>2. phase' = "idle" /\ whole' = IF cursor[phase] = 0 THEN phase ELSE "none"
      BY <2>3, <3>1, FinishKeeps DEF EndPass
    <3>3. ResetLandsDeals'
      <4> SUFFICES ASSUME whole' = "deals", NEW d \in 1..Deals \ cut'["deals"]
                   PROVE  Lands(d)'
        BY DEF ResetLandsDeals, Lands
      <4>1. phase = "deals" /\ cursor["deals"] = 0
        BY <3>2
      <4> QED
        BY <2>4, <3>1, <4>1
    <3> QED
      BY <3>2, <3>3 DEF LandInv, ReadLands
  <2>6. CASE ~IsLast(P, more)
    <3>1. at' = n /\ UNCHANGED <<phase, cursor, whole>>
      BY <2>2, <2>6
    <3>2. whole' = "none"
      BY <2>3, <3>1 DEF LandInv
    <3>3. ReadLands'
      BY <2>4, <3>1 DEF ReadLands
    <3> QED
      BY <3>2, <3>3 DEF LandInv, ResetLandsDeals
  <2> QED
    BY <2>5, <2>6
<1>3. CASE Garble
  <2>1. /\ phase # "idle" /\ Finish({}) /\ {} \in SUBSET Object[phase]
        /\ UNCHANGED <<stamp, landed, queue, exhausted>>
        /\ cut' = [cut EXCEPT ![phase] = cut[phase] \union Rest(at)]
    BY <1>3 DEF Garble, portalVars
  <2>2. phase' = "idle" /\ whole' = IF cursor[phase] = 0 THEN phase ELSE "none"
    BY <2>1, FinishKeeps DEF EndPass
  <2>3. ResetLandsDeals'
    <3> SUFFICES ASSUME whole' = "deals", NEW d \in 1..Deals \ cut'["deals"],
                        stamp["deals"][d] > 0
                 PROVE  Lands(d)'
      BY <2>1 DEF ResetLandsDeals, Lands
    <3>1. phase = "deals" /\ cursor["deals"] = 0
      BY <2>2
    <3>2. d \notin cut["deals"] /\ d \notin Rest(at)
      BY <2>1, <3>1, Objects DEF HubSpotInv, IsTable
    <3>3. d <= at
      BY <3>1, <3>2, Objects, HubSpotTypes, Parameters DEF Rest, Listed
    <3>4. Lands(d)
      BY <3>1, <3>2, <3>3 DEF LandInv, ReadLands
    <3> QED
      BY <2>1, <3>4 DEF Lands, Resolves, Exhausted
  <2> QED
    BY <2>2, <2>3 DEF LandInv, ReadLands
<1>4. CASE Repeat \/ Abandon \/ Raise
  <2>1. phase # "idle" /\ EndPass /\ whole' = whole
    BY <1>4 DEF Repeat, Abandon, Raise, historyVars
  <2> QED
    BY <2>1, NotWhole DEF LandInv, EndPass
<1>5. CASE Retry \/ UNCHANGED vars
  <2>1. UNCHANGED <<phase, at, stamp, landed, queue, exhausted, cursor, whole, cut>>
    BY <1>5 DEF Retry, vars, portalVars, passVars, storeVars, historyVars
  <2> QED
    BY <2>1 DEF LandInv, ReadLands, ResetLandsDeals, Lands, Resolves, Exhausted
<1>6. ASSUME NEW t \in Type, ResetCursor(t) PROVE LandInv'
  <2>1. phase' = "idle" /\ whole' = "none"
    BY <1>6 DEF ResetCursor, passVars
  <2> QED
    BY <2>1, NotWhole
<1>7. ASSUME NEW t \in Type, NEW o \in Object[t], Edit(t, o) PROVE LandInv'
  <2>1. phase' = "idle" /\ whole' = "none"
    BY <1>7 DEF Edit, passVars
  <2> QED
    BY <2>1, NotWhole
<1> QED
  BY <1>1, <1>2, <1>3, <1>4, <1>5, <1>6, <1>7 DEF Next, Client

(* After one whole pass over the deals from a reset watermark every deal   *)
(* one of whose contacts was synced has landed, in whatever order and on   *)
(* however many pages the deals come, or waits in the queue because its    *)
(* write exhausted its retries; none is left refused for its address.      *)
THEOREM WholePassLandsDeals == Spec => []ResetLandsDeals
<1>1. Init => LandInv
  BY LandInit
<1>2. HubSpotInv /\ LandInv /\ [Next]_vars => LandInv'
  BY LandStep
<1>3. LandInv => ResetLandsDeals
  BY DEF LandInv
<1> QED
  BY <1>1, <1>2, <1>3, HubSpotAlways, PTL DEF Spec

=============================================================================
