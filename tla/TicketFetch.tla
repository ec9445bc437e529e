-------------------------------- MODULE TicketFetch --------------------------------
(***************************************************************************)
(* The rate-limited, paginated ticket endpoint and its client              *)
(* (integration_sync/ticket_source.py), with the watermark of the sync pass*)
(* that consumes the pages.                                                *)
(*                                                                         *)
(* Time is discrete.  The clock is modelled by ages: what a Tick adds to   *)
(* every stamp and takes from a sleep.  An age never matters beyond the    *)
(* window, where it stays.                                                 *)
(***************************************************************************)
EXTENDS Naturals, Sequences, FiniteSets

CONSTANTS
  IssueCount,    \* issues of the board, in the order the endpoint lists them
  PageSize,      \* page_size
  Limit,         \* requests admitted per window
  Window,        \* the trailing window of the bucket
  Attempts,      \* tries per page
  Base,          \* first delay of the client's own schedule
  MaxDelay,      \* cap of that schedule
  MaxEdits       \* bound: edits of issues

ASSUME FetchAssumption ==
  /\ {IssueCount, PageSize, Limit, Window, Attempts} \subseteq Nat \ {0}
  /\ {Base, MaxDelay, MaxEdits} \subseteq Nat

Issues == 1..IssueCount

VARIABLES
  \* the source
  updated,    \* the update stamp of each issue; stamps are never reused
  edits,      \* how many edits happened
  stamps,     \* _Bucket.stamps: age of each admitted request, oldest first
  advertise,  \* does the server send Retry-After?
  \* the pass
  phase,      \* "idle", "request" or "sleep"
  startAt,    \* start_at of the page being fetched
  attempt,    \* attempt of that page, from 0
  timer,      \* what is left of the sleep
  maxSeen,    \* newest stamp handled in this pass
  \* the store
  cursor,     \* the watermark, 0 for none
  handled,    \* the version of each issue the store has, 0 for none
  \* history, read by the properties only
  admitted    \* ages of all requests served within the last window

sourceVars == <<updated, edits, advertise>>
passVars   == <<phase, startAt, attempt, timer, maxSeen>>
storeVars  == <<cursor, handled>>
vars == <<sourceVars, stamps, passVars, storeVars, admitted>>

---------------------------------------------------------------------------
Larger(a, b)  == IF a >= b THEN a ELSE b
Smaller(a, b) == IF a <= b THEN a ELSE b

Init ==
  /\ updated = [i \in Issues |-> i]
  /\ edits = 0
  /\ stamps = <<>> /\ admitted = <<>>
  /\ advertise \in BOOLEAN
  /\ phase = "idle" /\ startAt = 0 /\ attempt = 0 /\ timer = 0 /\ maxSeen = 0
  /\ cursor = 0
  /\ handled = [i \in Issues |-> 0]

---------------------------------------------------------------------------
(* The bucket.                                                             *)

InWindow(age) == age < Window

(* Stamps still inside the trailing window.  Requests are stamped in order,*)
(* so those that aged out are the first ones.                              *)
Aged(ages)   == {n \in DOMAIN ages : ~InWindow(ages[n])}
Within(ages) == SubSeq(ages, Cardinality(Aged(ages)) + 1, Len(ages))

Fresh == Within(stamps)

Bug_Admits == Len(Fresh) <= Limit
Admits == Len(Fresh) < Limit

(* What a refusal reports: the time until the oldest stamp ages out.       *)
Wait == Window - Head(Fresh)

---------------------------------------------------------------------------
(* The endpoint: one page of the issues after the watermark.               *)

Matching == {i \in Issues : cursor = 0 \/ updated[i] > cursor}

(* The place of an issue in that list.                                     *)
Place(i) == Cardinality({j \in Matching : j <= i})

PageIssues == {i \in Matching : Place(i) \in startAt + 1 .. startAt + PageSize}

NewestOf(S, floor) ==
  CHOOSE t \in {updated[i] : i \in S} \union {floor} :
    \A u \in {updated[i] : i \in S} \union {floor} : t >= u

---------------------------------------------------------------------------
(* The client: fetch_pages() and _fetch_one() under read_tickets().        *)

EndPass == phase' = "idle" /\ startAt' = 0 /\ attempt' = 0 /\ timer' = 0 /\ maxSeen' = 0

StartPass ==
  /\ phase = "idle"
  /\ phase' = "request" /\ startAt' = 0 /\ attempt' = 0 /\ timer' = 0
  /\ maxSeen' = cursor
  /\ UNCHANGED <<sourceVars, stamps, storeVars, admitted>>

Bug_NextPage == startAt
NextPage == startAt + PageSize

(* A request is admitted, and the consumer handles the issues in S.        *)
Take(S) ==
  /\ phase = "request" /\ Admits
  /\ stamps' = Append(Fresh, 0)
  /\ admitted' = Append(admitted, 0)
  /\ handled' = [i \in Issues |-> IF i \in S THEN updated[i] ELSE handled[i]]

(* The whole page is handled, then the client asks for the next one, or    *)
(* the pass ends and the watermark moves.                                  *)
Serve ==
  /\ Take(PageIssues)
  /\ LET newest == NewestOf(PageIssues, maxSeen)
     IN  IF NextPage >= Cardinality(Matching)
         THEN EndPass /\ cursor' = newest
         ELSE /\ startAt' = NextPage /\ attempt' = 0 /\ maxSeen' = newest
              /\ UNCHANGED <<phase, timer, cursor>>
  /\ UNCHANGED sourceVars

Schedule == Smaller(Base * 2 ^ attempt, MaxDelay)

Bug_Delay == IF advertise THEN Smaller(Wait, Schedule) ELSE Schedule
(* Retry-After wins over the client's own schedule.                        *)
Delay == IF advertise THEN Wait ELSE Schedule

Bug_Throttle ==
  /\ phase = "request" /\ ~Admits
  /\ attempt <= Attempts - 1
  /\ stamps' = Fresh
  /\ phase' = "sleep" /\ timer' = Delay
  /\ UNCHANGED <<sourceVars, startAt, attempt, maxSeen, storeVars, admitted>>

(* Refused with tries left: sleep.                                         *)
Throttle ==
  /\ phase = "request" /\ ~Admits
  /\ attempt < Attempts - 1
  /\ stamps' = Fresh
  /\ phase' = "sleep" /\ timer' = Delay
  /\ UNCHANGED <<sourceVars, startAt, attempt, maxSeen, storeVars, admitted>>

Bug_Exhaust ==
  /\ phase = "request" /\ ~Admits
  /\ attempt >= Attempts - 1
  /\ stamps' = Fresh
  /\ EndPass
  /\ cursor' = maxSeen
  /\ UNCHANGED <<sourceVars, handled, admitted>>

(* Refused on the last try: the throttle is re-raised, out of the pass.    *)
(* What was handled stays, the watermark does not move.                    *)
Exhaust ==
  /\ phase = "request" /\ ~Admits
  /\ attempt >= Attempts - 1
  /\ stamps' = Fresh
  /\ EndPass
  /\ UNCHANGED <<sourceVars, storeVars, admitted>>

Wake ==
  /\ phase = "sleep" /\ timer = 0
  /\ phase' = "request" /\ attempt' = attempt + 1
  /\ UNCHANGED <<sourceVars, stamps, startAt, timer, maxSeen, storeVars, admitted>>

(* The process dies with a page partly handled, or between two pages.      *)
Abandon ==
  /\ \E S \in SUBSET PageIssues : Take(S)
  /\ EndPass
  /\ UNCHANGED <<sourceVars, cursor>>

Crash ==
  /\ phase # "idle"
  /\ EndPass
  /\ UNCHANGED <<sourceVars, stamps, storeVars, admitted>>

---------------------------------------------------------------------------
(* The environment.                                                        *)

Older(ages) == [n \in DOMAIN ages |-> Smaller(ages[n] + 1, Window)]

Tick ==
  /\ stamps' = Older(stamps)
  /\ admitted' = Within(Older(admitted))
  /\ timer' = IF timer > 0 THEN timer - 1 ELSE 0
  /\ UNCHANGED <<sourceVars, phase, startAt, attempt, maxSeen, storeVars>>

(* Somebody edits an issue: it gets a stamp of its own, its place in the   *)
(* listing stays.  The list the endpoint was built over does not change    *)
(* while a pass reads it.                                                  *)
Edit(i) ==
  /\ phase = "idle" /\ edits < MaxEdits
  /\ edits' = edits + 1
  /\ updated' = [updated EXCEPT ![i] = IssueCount + edits + 1]
  /\ UNCHANGED <<stamps, advertise, passVars, storeVars, admitted>>

Client == Serve \/ Throttle \/ Exhaust \/ Wake

Next == StartPass \/ Client \/ Abandon \/ Crash \/ Tick \/ \E i \in Issues : Edit(i)

Spec == Init /\ [][Next]_vars

---------------------------------------------------------------------------
(* What must hold.                                                         *)

TypeOK ==
  /\ updated \in [Issues -> 1..(IssueCount + MaxEdits)]
  /\ edits \in 0..MaxEdits
  /\ stamps \in Seq(0..Window) /\ admitted \in Seq(0..(Window - 1))
  /\ advertise \in BOOLEAN
  /\ phase \in {"idle", "request", "sleep"}
  /\ startAt \in 0..IssueCount
  /\ attempt \in 0..(Attempts - 1)
  /\ timer \in Nat
  /\ maxSeen \in Nat /\ cursor \in Nat
  /\ handled \in [Issues -> Nat]

(* In no trailing window are more requests served than the quota, although *)
(* the bucket prunes its stamps only when it is asked.                     *)
WithinQuota == Len(admitted) <= Limit

(* A client that sleeps as long as Retry-After says is admitted on its next*)
(* try (_Bucket's docstring, ticket_source.py:69-75): no page is throttled *)
(* twice.                                                                  *)
RetryAfterAdmits == advertise /\ phase = "request" /\ attempt > 0 => Admits

(* Every version of an issue is in the store, or the next pass still asks  *)
(* for it: throttled, crashed and repeated passes converge                 *)
(* (RUNBOOK.md:255-256).                                                   *)
ScanConverges == \A i \in Issues : handled[i] = updated[i] \/ updated[i] > cursor

(* The client runs and time passes.                                        *)
FairSpec == Spec /\ WF_vars(Client) /\ WF_vars(Tick)

(* Every pass ends, served or raised: waits are finite and every page has  *)
(* a bounded budget.                                                       *)
PassEnds == phase # "idle" ~> phase = "idle"

=============================================================================
