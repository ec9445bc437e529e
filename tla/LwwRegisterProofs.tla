----------------------------- MODULE LwwRegisterProofs -----------------------------
(* The register converges: what it holds does not depend on the order, or  *)
(* on the number of times, the versions of a key were delivered.           *)
EXTENDS LwwRegister, TLAPS

LEMMA RegisterTypes == ASSUME Version \subseteq Versions PROVE Spec => []TypeOK
<1>1. Init => TypeOK
  BY DEF Init, TypeOK
<1>2. TypeOK /\ [Next]_vars => TypeOK'
  BY DEF TypeOK, Next, Offer, vars
<1> QED
  BY <1>1, <1>2, PTL DEF Spec

(* Among the delivered versions of a key the register holds the latest     *)
(* (sync_engine.py:338-351).                                               *)
THEOREM RegisterHoldsLatest == ASSUME Version \subseteq Versions PROVE Spec => []HoldsLatest
<1>1. Init => HoldsLatest
  BY DEF Init, HoldsLatest
<1>2. TypeOK /\ HoldsLatest /\ [Next]_vars => HoldsLatest'
  <2> SUFFICES ASSUME TypeOK, HoldsLatest, Next PROVE HoldsLatest'
    BY DEF HoldsLatest, vars
  <2>1. PICK k \in Key, v \in Version : Offer(k, v)
    BY DEF Next
  <2>2. \A j \in Key : /\ value[j] \in Versions \union {NoVersion}
                       /\ offered[j] \subseteq Versions
    BY DEF TypeOK
  <2> SUFFICES ASSUME NEW j \in Key
               PROVE  /\ value'[j] \in offered'[j] \union {NoVersion}
                      /\ \A u \in offered'[j] : ~Later(u, value'[j])
    BY DEF HoldsLatest
  <2>3. CASE j # k
    BY <2>1, <2>3 DEF Offer, TypeOK, HoldsLatest
  <2>4. CASE j = k
    <3>1. /\ offered'[k] = offered[k] \union {v}
          /\ value'[k] = IF Later(v, value[k]) THEN v ELSE value[k]
      BY <2>1 DEF Offer, TypeOK
    <3>2. /\ value[k] \in offered[k] \union {NoVersion}
          /\ \A u \in offered[k] : ~Later(u, value[k])
      BY DEF HoldsLatest
    <3>3. v \in Versions
      OBVIOUS
    <3>4. CASE Later(v, value[k])
      BY <2>2, <2>4, <3>1, <3>2, <3>3, <3>4 DEF Later, Versions, NoVersion
    <3>5. CASE ~Later(v, value[k])
      BY <2>4, <3>1, <3>2, <3>5
    <3> QED
      BY <3>4, <3>5
  <2> QED
    BY <2>3, <2>4
<1> QED
  BY <1>1, <1>2, RegisterTypes, PTL DEF Spec

=============================================================================
