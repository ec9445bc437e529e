-------------------------------- MODULE HubSpotSync --------------------------------
(***************************************************************************)
(* The HubSpot connector (integration_sync/hubspot_source.py) under the    *)
(* sync pass: contacts and deals are paged by continuation token, with     *)
(* retries, and a deal is attached to a contact that was synced before.    *)
(*                                                                         *)
(* Contacts and deals are numbered in the order the server lists them.  A  *)
(* stamp stands for updatedAt; 0 is an object that does not exist yet.     *)
(* The portal is edited between passes only, as one recording differs from *)
(* the next; a live portal that changes under a pass is not modelled.      *)
(***************************************************************************)
EXTENDS Naturals, Sequences, FiniteSets

CONSTANTS
  Contacts,    \* how many contacts the portal may hold
  Deals,       \* how many deals
  Associated,  \* the contacts each deal is associated with
  PageSize,    \* page_size
  Attempts,    \* tries per page
  MaxEdits,    \* bound: creations and edits of objects
  MaxEmpty     \* bound: tokens already handed out when a page comes empty

Type == {"contacts", "deals"}
Object == [t \in Type |-> IF t = "contacts" THEN 1..Contacts ELSE 1..Deals]

ASSUME HubSpotAssumption ==
  /\ {Contacts, Deals, MaxEdits, MaxEmpty} \subseteq Nat
  /\ {PageSize, Attempts} \subseteq Nat \ {0}
  /\ Associated \in [1..Deals -> SUBSET (1..Contacts)]

VARIABLES
  \* the portal
  stamp,    \* type -> object -> when it last changed
  email,    \* the contacts that have an address
  edits,    \* how many edits happened, and the newest stamp
  \* the pass
  phase,    \* "idle", or the type being paged
  at,       \* the last object of the pages read so far
  trail,    \* seen_tokens, each as the place where its page starts
  attempt,  \* attempt of the page being fetched, from 0
  maxSeen,  \* newest stamp applied in this pass
  \* the store
  landed,   \* type -> object -> the version in the CRM, 0 for none
  queue,    \* type -> object -> the version its dead-letter row holds, 0 for none
  exhausted, \* type -> objects whose dead-letter row has category transient_exhausted
  cursor,   \* type -> watermark, 0 for NULL
  \* history
  whole,    \* the type just read in one whole pass, from no watermark
  cut       \* type -> the objects a garbled page cut off, not read since

portalVars == <<stamp, email, edits>>
passVars   == <<phase, at, trail, attempt, maxSeen>>
storeVars  == <<landed, queue, exhausted, cursor>>
historyVars == <<whole, cut>>
vars == <<portalVars, passVars, storeVars, historyVars>>

---------------------------------------------------------------------------
Nothing == [t \in Type |-> [o \in Object[t] |-> 0]]

Init ==
  /\ stamp = Nothing /\ email = {} /\ edits = 0
  /\ phase = "idle" /\ at = 0 /\ trail = <<>> /\ attempt = 0 /\ maxSeen = 0
  /\ landed = Nothing /\ queue = Nothing /\ exhausted = [t \in Type |-> {}]
  /\ cursor = [t \in Type |-> 0]
  /\ whole = "none" /\ cut = [t \in Type |-> {}]

EndPass == phase' = "idle" /\ at' = 0 /\ trail' = <<>> /\ attempt' = 0 /\ maxSeen' = 0

StartPass(t) ==
  /\ phase = "idle"
  /\ phase' = t /\ at' = 0 /\ trail' = <<>> /\ attempt' = 0
  /\ maxSeen' = cursor[t]
  /\ whole' = "none"
  /\ UNCHANGED <<portalVars, storeVars, cut>>

---------------------------------------------------------------------------
(* Consuming a page.                                                       *)

Bug_AfterCursor(o) == stamp[phase][o] > maxSeen

(* The filter of the readers: strictly after the watermark.                *)
AfterCursor(o) == stamp[phase][o] > cursor[phase]

(* The resolver finds the address of a contact that was synced before.     *)
Resolves(c) == landed["contacts"][c] > 0

(* normalize() wants an address: a contact's own, or for a deal that of an *)
(* associated contact.                                                     *)
HasAddress(o) ==
  IF phase = "contacts" THEN o \in email ELSE \E c \in Associated[o] : Resolves(c)

Newest(S) == CHOOSE n \in {maxSeen} \union {stamp[phase][o] : o \in S} :
               \A m \in {maxSeen} \union {stamp[phase][o] : o \in S} : n >= m

Valid(S)    == {o \in S : AfterCursor(o) /\ HasAddress(o)}
Poisoned(S) == {o \in S : AfterCursor(o) /\ ~HasAddress(o)}

(* What may exhaust its retries: what is written.  A contact that landed   *)
(* under its stamp is not; a deal may be, with another address.            *)
Written(S) == {o \in Valid(S) : phase = "deals" \/ landed[phase][o] # stamp[phase][o]}

(* The engine lands the records of S that validate, but for some whose     *)
(* write exhausts its retries: it dead-letters these, as those that do not *)
(* validate, and goes on.                                                  *)
Consume(S) == \E F \in SUBSET Written(S) :
  /\ landed' = [landed EXCEPT ![phase] =
       [o \in Object[phase] |-> IF o \in Valid(S) \ F THEN stamp[phase][o] ELSE @[o]]]
  /\ queue' = [queue EXCEPT ![phase] =
       [o \in Object[phase] |->
          IF o \in Poisoned(S) \union F THEN stamp[phase][o] ELSE @[o]]]
  /\ exhausted' = [exhausted EXCEPT ![phase] = (@ \ Poisoned(S)) \union F]
  /\ cut' = [cut EXCEPT ![phase] = @ \ (Valid(S) \union Poisoned(S))]

---------------------------------------------------------------------------
(* The client and the server it talks to.                                  *)

Listed == {o \in Object[phase] : stamp[phase][o] > 0}
Rest(n) == {o \in Listed : o > n}

(* The pages the server may answer with: the next objects in order, up to  *)
(* page_size of them, at times none at all.                                *)
Page(n) ==
  {P \in SUBSET Rest(at) : /\ Cardinality(P) <= PageSize
                           /\ P = {o \in Rest(at) : o <= n}
                           /\ n \in P \union {at}}

Bug_IsLast(P, more) == ~more \/ P = {}
(* The last page is the one without a continuation token, empty or not.    *)
IsLast(P, more) == ~more

(* The watermark moves when the last page was consumed, unless the caller  *)
(* asked not to.                                                           *)
Finish(P) ==
  /\ \E advance \in BOOLEAN :
       IF advance THEN cursor' = [cursor EXCEPT ![phase] = Newest(Valid(P))]
                  ELSE UNCHANGED cursor
  /\ whole' = IF cursor[phase] = 0 THEN phase ELSE "none"
  /\ EndPass

(* A page arrives, with a token for the next unless it is the last one.    *)
Answer ==
  /\ phase # "idle"
  /\ \E n \in at..Cardinality(Object[phase]), more \in BOOLEAN : \E P \in Page(n) :
       /\ Rest(n) # {} => more
       /\ P = {} /\ more => Len(trail) < MaxEmpty
       /\ Consume(P)
       /\ IF IsLast(P, more)
          THEN Finish(P)
          ELSE /\ at' = n /\ trail' = Append(trail, n)
               /\ attempt' = 0 /\ maxSeen' = Newest(Valid(P))
               /\ UNCHANGED <<phase, cursor, whole>>
  /\ UNCHANGED portalVars

Bug_Repeat ==
  /\ phase # "idle"
  /\ \E n \in at..Cardinality(Object[phase]), i \in DOMAIN trail : \E P \in Page(n) :
       /\ Consume(P)
       /\ at' = trail[i]
       /\ attempt' = 0 /\ maxSeen' = Newest(Valid(P))
  /\ UNCHANGED <<portalVars, phase, trail, cursor, whole>>

(* A 2xx answer whose body is not a JSON object reads as an empty page     *)
(* without a token: the pass ends as if the listing did.                   *)
Garble ==
  /\ phase # "idle"
  /\ Finish({})
  /\ cut' = [cut EXCEPT ![phase] = @ \union Rest(at)]
  /\ UNCHANGED <<portalVars, landed, queue, exhausted>>

(* The token of a page was handed out before: the page is consumed, then   *)
(* the client raises instead of looping.                                   *)
Repeat ==
  /\ phase # "idle" /\ trail # <<>>
  /\ \E n \in at..Cardinality(Object[phase]) : \E P \in Page(n) : Consume(P)
  /\ EndPass
  /\ UNCHANGED <<portalVars, cursor, whole>>

Bug_Retry ==
  /\ phase # "idle" /\ attempt <= Attempts - 1
  /\ attempt' = attempt + 1
  /\ UNCHANGED <<portalVars, phase, at, trail, maxSeen, storeVars, historyVars>>

(* A 429, a 5xx or a network failure, with tries left.                     *)
Retry ==
  /\ phase # "idle" /\ attempt < Attempts - 1
  /\ attempt' = attempt + 1
  /\ UNCHANGED <<portalVars, phase, at, trail, maxSeen, storeVars, historyVars>>

(* The same on the last try, or at any time a refused credential, another  *)
(* 4xx or a dead process: the exception leaves the pass, and the watermark *)
(* stays.                                                                  *)
Raise ==
  /\ phase # "idle"
  /\ EndPass
  /\ UNCHANGED <<portalVars, storeVars, historyVars>>

(* The process dies with a page partly consumed.                           *)
Abandon ==
  /\ phase # "idle"
  /\ \E n \in at..Cardinality(Object[phase]) : \E P \in Page(n) :
       \E k \in 0..n : Consume({o \in P : o <= k})
  /\ EndPass
  /\ UNCHANGED <<portalVars, cursor, whole>>

---------------------------------------------------------------------------
(* People edit the portal; the operator resets a cursor.                   *)
Edit(t, o) ==
  /\ phase = "idle" /\ edits < MaxEdits
  /\ edits' = edits + 1
  /\ stamp' = [stamp EXCEPT ![t][o] = edits + 1]
  /\ IF t = "contacts" THEN email' \in {email \union {o}, email \ {o}}
                       ELSE UNCHANGED email
  /\ whole' = "none"
  /\ UNCHANGED <<passVars, storeVars, cut>>

ResetCursor(t) ==
  /\ phase = "idle" /\ cursor[t] > 0
  /\ cursor' = [cursor EXCEPT ![t] = 0]
  /\ whole' = "none"
  /\ UNCHANGED <<portalVars, passVars, landed, queue, exhausted, cut>>

(* What may come of a request.                                             *)
Client == Answer \/ Garble \/ Repeat \/ Retry \/ Raise

Next == \/ \E t \in Type : StartPass(t) \/ ResetCursor(t)
        \/ Client \/ Abandon
        \/ \E t \in Type : \E o \in Object[t] : Edit(t, o)

Spec == Init /\ [][Next]_vars

---------------------------------------------------------------------------
(* What must hold.                                                         *)

TypeOK ==
  /\ \A f \in {stamp, landed, queue} :
       \A t \in Type : f[t] \in [Object[t] -> 0..MaxEdits]
  /\ email \subseteq 1..Contacts
  /\ edits \in 0..MaxEdits
  /\ phase \in Type \union {"idle"}
  /\ at \in Nat /\ trail \in Seq(Nat)
  /\ attempt \in 0..(Attempts - 1)
  /\ maxSeen \in 0..MaxEdits
  /\ cursor \in [Type -> 0..MaxEdits]
  /\ whole \in Type \union {"none"}
  /\ \A t \in Type : cut[t] \subseteq Object[t] /\ exhausted[t] \subseteq Object[t]

Passed(t) == {o \in Object[t] : 0 < stamp[t][o] /\ stamp[t][o] <= cursor[t]}
Kept(t)   == {o \in Object[t] : stamp[t][o] \in {landed[t][o], queue[t][o]}}

(* Every version the watermark has passed is in the CRM or in the dead-    *)
(* letter queue, whatever pages failed, came empty or repeated, but for the*)
(* objects cut off by a garbled page: there the listing looks whole and is *)
(* not, which README.md:323 would have raise.                              *)
WatermarkCoversUnlessCut == \A t \in Type : Passed(t) \subseteq Kept(t) \union cut[t]

(* The deal waits in the queue because the write of its present version    *)
(* exhausted its retries.                                                  *)
Exhausted(d) ==
  d \in exhausted["deals"] /\ queue["deals"][d] = stamp["deals"][d]

(* After one whole pass over the deals from a reset watermark, every deal  *)
(* one of whose contacts was synced has landed, in whatever order the deals*)
(* come, unless its write exhausted its retries and it waits in the queue  *)
(* for that (sync_engine.py:160-172); none is refused for its address: the *)
(* way back for a deal that was dead-lettered before its contact came.     *)
(* RUNBOOK.md:197-200 says "sync contacts first"; that alone does not do,  *)
(* because the watermark may have passed the deal and no drain rebuilds it.*)
ResetLandsDeals ==
  whole = "deals" =>
    \A d \in 1..Deals \ cut["deals"] :
      (stamp["deals"][d] > 0 /\ \E c \in Associated[d] : Resolves(c))
         => landed["deals"][d] = stamp["deals"][d] \/ Exhausted(d)

(* The server answers, one way or another.                                 *)
FairSpec == Spec /\ WF_vars(Client)

(* Every pass ends, even against a server whose tokens go round in circles *)
(* (README.md, "Loop safety").                                             *)
PassEnds == phase # "idle" ~> phase = "idle"

=============================================================================
