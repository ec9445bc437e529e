------------------------------- MODULE LwwRegister -------------------------------
(***************************************************************************)
(* What the CRM target promises for one natural key: a last-write-wins     *)
(* register on event time.  Deliveries arrive in any order and any number  *)
(* of times; the register always holds the latest version delivered so     *)
(* far, a later event time winning and an equal event time falling back to *)
(* the order of the content hashes.  SyncEngine implements this module     *)
(* (SyncEngineProofs!EngineRefinesRegister).                               *)
(***************************************************************************)
EXTENDS Naturals

CONSTANTS Key,      \* natural keys, each standing for one (source, natural_key) pair
          Version   \* the versions that can be delivered

VARIABLES offered,  \* key -> the versions delivered for it so far
          value     \* key -> the version the register holds, or NoVersion

vars == <<offered, value>>

(* A version is an event time and the rank of its content hash.  Zero is   *)
(* kept for "nothing": every real event time and hash rank is positive.    *)
Versions  == [at : Nat \ {0}, hash : Nat \ {0}]
NoVersion == [at |-> 0, hash |-> 0]

(* v wins over w: a strictly later event, or the same event time and a     *)
(* greater hash.  Every version is later than NoVersion.                   *)
Later(v, w) == v.at > w.at \/ (v.at = w.at /\ v.hash > w.hash)

Init == /\ offered = [k \in Key |-> {}]
        /\ value = [k \in Key |-> NoVersion]

Offer(k, v) ==
  /\ offered' = [offered EXCEPT ![k] = @ \union {v}]
  /\ value' = [value EXCEPT ![k] = IF Later(v, @) THEN v ELSE @]

Next == \E k \in Key, v \in Version : Offer(k, v)

Spec == Init /\ [][Next]_vars

---------------------------------------------------------------------------
TypeOK == /\ offered \in [Key -> SUBSET Version]
          /\ value \in [Key -> Version \union {NoVersion}]

(* The register holds one of the versions delivered for its key and no     *)
(* delivered version is later than it, whatever order they arrived in.     *)
HoldsLatest ==
  \A k \in Key : /\ value[k] \in offered[k] \union {NoVersion}
                 /\ \A v \in offered[k] : ~Later(v, value[k])

=============================================================================
