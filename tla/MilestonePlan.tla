------------------------------- MODULE MilestonePlan -------------------------------
(***************************************************************************)
(* The milestone plan and the rules over it: loading a plan file, ordering *)
(* the dependency graph, deriving each milestone's slip (milestones.py),   *)
(* running the five escalation rules and recording what they find          *)
(* (escalation.py, and the milestone and escalation tables of              *)
(* crm_store.py).                                                          *)
(*                                                                         *)
(* Milestone keys are numbers, in the order their strings sort; dates are  *)
(* day numbers from 1, and 0 is a missing date.                            *)
(***************************************************************************)
EXTENDS Integers, Sequences, FiniteSets

CONSTANTS
  Key,         \* milestone keys
  Ticket,      \* ticket keys
  PlanFile,    \* the plan files that may be loaded
  Board,       \* the states the synced ticket board may be in
  LastDay,     \* bound: the last day looked at
  MaxLoads,    \* bound: plan files loaded
  Tolerance,   \* dependency_slip_threshold_days
  Horizon      \* unowned_within_days

Row == [planned : Nat, actual : Nat, done : BOOLEAN, owned : BOOLEAN]

(* A file names some milestones, each with a row and its dependencies.     *)
File == UNION {[K -> [row : Row, deps : SUBSET Key]] : K \in SUBSET Key}

BoardTicket == [ticket : Ticket, milestone : Key, open : BOOLEAN, due : Nat]

ASSUME PlanAssumption ==
  /\ Key \subseteq Nat \ {0} /\ Ticket \subseteq Nat \ {0}
  /\ IsFiniteSet(Key)
  /\ \A f \in PlanFile : /\ DOMAIN f \subseteq Key
                         /\ \A k \in DOMAIN f : f[k].row \in Row /\ f[k].deps \subseteq Key
  /\ Board \subseteq SUBSET BoardTicket
  /\ LastDay \in Nat \ {0} /\ {MaxLoads, Tolerance, Horizon} \subseteq Nat

VARIABLES
  \* the world
  today,        \* the as_of date of the next look at the plan
  board,        \* the tickets table
  \* the store
  rows,         \* the milestones table
  edges,        \* milestone_deps: pairs <<milestone, predecessor>>
  escalations,  \* the escalations table, by its uniqueness key
  \* a look at the plan
  pc,           \* "idle", "order", "view" or "planned"
  indegree, ready, order,  \* Kahn's algorithm
  views,        \* the milestones seen so far
  outcome,      \* how the last look ended: "ok", or what it raised
  \* history
  loads,        \* how many files were loaded
  lastFile,     \* the last one
  last          \* the last plan that was built, and the table it came from

storeVars == <<rows, edges, escalations>>
kahnVars  == <<indegree, ready, order>>
fileVars  == <<loads, lastFile>>
vars == <<today, board, storeVars, pc, kahnVars, views, outcome, fileVars, last>>

---------------------------------------------------------------------------
Larger(a, b) == IF a >= b THEN a ELSE b
MaxOf(S) == CHOOSE m \in S : \A n \in S : m >= n

Sorted(S) == CHOOSE s \in [1..Cardinality(S) -> S] :
               \A i, j \in 1..Cardinality(S) : i < j => s[i] < s[j]

Empty == [k \in {} |-> 0]

Parents(k)  == {p \in Key : <<k, p>> \in edges}
Children(p) == {k \in Key : <<k, p>> \in edges}
EdgesOf(f)  == {e \in (DOMAIN f) \X Key : e[2] \in f[e[1]].deps}

Init ==
  /\ today = 1
  /\ board \in Board
  /\ rows = Empty /\ edges = {} /\ escalations = {}
  /\ pc = "idle"
  /\ indegree = Empty /\ ready = <<>> /\ order = <<>>
  /\ views = Empty /\ outcome = "none"
  /\ loads = 0 /\ lastFile = Empty
  /\ last = [rows |-> Empty, edges |-> {}, views |-> Empty]

---------------------------------------------------------------------------
(* Loading a file, one transaction: each row it names is inserted or       *)
(* overwritten, and its dependencies are added to those already there.     *)
Load(f) ==
  /\ pc = "idle" /\ loads < MaxLoads
  /\ rows' = [k \in DOMAIN rows \union DOMAIN f |->
                IF k \in DOMAIN f THEN f[k].row ELSE rows[k]]
  /\ edges' = edges \union EdgesOf(f)
  /\ loads' = loads + 1 /\ lastFile' = f
  /\ outcome' = "none"
  /\ UNCHANGED <<today, board, escalations, pc, kahnVars, views, last>>

---------------------------------------------------------------------------
(* Building the plan.                                                      *)

EndLook(how) ==
  /\ outcome' = how
  /\ pc' = "idle"
  /\ indegree' = Empty /\ ready' = <<>> /\ order' = <<>> /\ views' = Empty

Bug_InDegree(k) == Cardinality(Parents(k) \ {k})
InDegree(k) == Cardinality(Parents(k))

Begin ==
  /\ pc = "idle"
  /\ IF \E e \in edges : e[2] \notin DOMAIN rows
     THEN EndLook("unknown")
     ELSE /\ indegree' = [k \in DOMAIN rows |-> InDegree(k)]
          /\ ready' = Sorted({k \in DOMAIN rows : InDegree(k) = 0})
          /\ order' = <<>> /\ views' = Empty
          /\ outcome' = "none" /\ pc' = "order"
  /\ UNCHANGED <<today, board, storeVars, fileVars, last>>

Bug_NewlyReady(k) == {c \in Children(k) : indegree[c] <= 2}
NewlyReady(k) == {c \in Children(k) : indegree[c] = 1}

Pop ==
  /\ pc = "order" /\ ready # <<>>
  /\ LET k == Head(ready)
     IN  /\ order' = Append(order, k)
         /\ indegree' = [c \in DOMAIN rows |->
              IF c \in Children(k) THEN indegree[c] - 1 ELSE indegree[c]]
         /\ ready' = Tail(ready) \o Sorted(NewlyReady(k))
  /\ UNCHANGED <<today, board, storeVars, pc, views, outcome, fileVars, last>>

Bug_Ordered ==
  /\ pc = "order" /\ ready = <<>>
  /\ pc' = "view"
  /\ UNCHANGED <<today, board, storeVars, kahnVars, views, outcome, fileVars, last>>

(* Nothing is ready: either every milestone has its place, or the rest is  *)
(* stuck in a cycle.                                                       *)
Ordered ==
  /\ pc = "order" /\ ready = <<>>
  /\ IF Len(order) # Cardinality(DOMAIN rows)
     THEN EndLook("cycle")
     ELSE /\ pc' = "view"
          /\ UNCHANGED <<kahnVars, views, outcome>>
  /\ UNCHANGED <<today, board, storeVars, fileVars, last>>

IsDone(k) == rows[k].done /\ rows[k].actual > 0

Bug_Inherited(k) == MaxOf({0} \union {views[p].slip : p \in {p \in Parents(k) : ~IsDone(p)}})
Inherited(k) == MaxOf({0} \union {views[p].slip : p \in Parents(k)})

(* An open milestone finishes neither in the past nor before what it waits *)
(* for lets it.                                                            *)
Finish(k) == IF IsDone(k) THEN rows[k].actual
             ELSE Larger(rows[k].planned + Inherited(k), today)

Bug_ViewOf(k) ==
  [finish |-> Finish(k), slip |-> Finish(k) - Larger(rows[k].planned, today)]
ViewOf(k) == [finish |-> Finish(k), slip |-> Finish(k) - rows[k].planned]

View ==
  /\ pc = "view" /\ Cardinality(DOMAIN views) < Len(order)
  /\ LET k == order[Cardinality(DOMAIN views) + 1]
     IN  IF rows[k].planned = 0
         THEN EndLook("undated")
         ELSE /\ views' = [m \in DOMAIN views \union {k} |->
                             IF m = k THEN ViewOf(k) ELSE views[m]]
              /\ UNCHANGED <<pc, kahnVars, outcome>>
  /\ UNCHANGED <<today, board, storeVars, fileVars, last>>

Viewed ==
  /\ pc = "view" /\ Cardinality(DOMAIN views) = Len(order)
  /\ pc' = "planned"
  /\ UNCHANGED <<today, board, storeVars, kahnVars, views, outcome, fileVars, last>>

---------------------------------------------------------------------------
(* The rules: what evaluate() finds over a built plan.                     *)

Open == {k \in DOMAIN views : ~IsDone(k)}
Overdue(k) == rows[k].planned < today

Flag(k, rule, subject) ==
  [asOf |-> today, milestone |-> k, rule |-> rule, subject |-> subject]

OverdueFlags == {Flag(k, "milestone_overdue", 0) : k \in {k \in Open : Overdue(k)}}

TicketFlags ==
  {Flag(t.milestone, "blocking_ticket_overdue", t.ticket) :
     t \in {t \in board : t.milestone \in Open /\ t.open /\ 0 < t.due /\ t.due < today}}

SlipFlags ==
  {Flag(e[1], "dependency_slip", e[2]) :
     e \in {e \in edges : e[1] \in Open /\ views[e[2]].slip > Tolerance}}

Bug_LateFlags ==
  {Flag(k, "projected_late", 0) : k \in {k \in Open : views[k].finish > rows[k].planned}}
LateFlags ==
  {Flag(k, "projected_late", 0) :
     k \in {k \in Open : ~Overdue(k) /\ views[k].finish > rows[k].planned}}

UnownedFlags ==
  {Flag(k, "unowned_milestone", 0) :
     k \in {k \in Open : ~rows[k].owned /\ rows[k].planned - today \in 0..Horizon}}

Found == OverdueFlags \union TicketFlags \union SlipFlags \union LateFlags \union UnownedFlags

(* evaluate() is pure, and record() one transaction of INSERT OR IGNOREs.  *)
Record ==
  /\ pc = "planned"
  /\ escalations' = escalations \union Found
  /\ last' = [rows |-> rows, edges |-> edges, views |-> views]
  /\ EndLook("ok")
  /\ UNCHANGED <<today, board, rows, edges, fileVars>>

---------------------------------------------------------------------------
(* The script dies half-way; a day passes; a sync changes the board.       *)
Stop ==
  /\ pc # "idle"
  /\ EndLook("none")
  /\ UNCHANGED <<today, board, storeVars, fileVars, last>>

NextDay ==
  /\ pc = "idle" /\ today < LastDay
  /\ today' = today + 1
  /\ outcome' = "none"
  /\ UNCHANGED <<board, storeVars, pc, kahnVars, views, fileVars, last>>

SyncTickets ==
  /\ pc = "idle"
  /\ board' \in Board
  /\ UNCHANGED <<today, storeVars, pc, kahnVars, views, outcome, fileVars, last>>

Build == Begin \/ Pop \/ Ordered \/ View \/ Viewed \/ Record

Next == \/ \E f \in PlanFile : Load(f)
        \/ Build \/ Stop \/ NextDay \/ SyncTickets

Spec == Init /\ [][Next]_vars

---------------------------------------------------------------------------
(* What must hold.                                                         *)

ViewType == [finish : Nat, slip : Int]

TypeOK ==
  /\ today \in 1..LastDay
  /\ board \in Board
  /\ DOMAIN rows \subseteq Key /\ \A k \in DOMAIN rows : rows[k] \in Row
  /\ edges \subseteq (DOMAIN rows) \X Key
  /\ pc \in {"idle", "order", "view", "planned"}
  /\ DOMAIN indegree \subseteq DOMAIN rows
  /\ \A k \in DOMAIN indegree : indegree[k] \in Nat
  /\ ready \in Seq(DOMAIN rows) /\ order \in Seq(DOMAIN rows)
  /\ DOMAIN views \subseteq DOMAIN rows /\ \A k \in DOMAIN views : views[k] \in ViewType
  /\ outcome \in {"none", "ok", "cycle", "unknown", "undated"}
  /\ loads \in 0..MaxLoads

(* A graph has a cycle when some milestones all wait for one another.      *)
Cyclic(E) ==
  \E S \in (SUBSET {e[1] : e \in E}) \ {{}} : \A k \in S : \E p \in S : <<k, p>> \in E

(* Kahn's algorithm gives up on exactly the graphs that have a cycle       *)
(* (milestones.py:118-120), and on no other.                               *)
CycleIffStuck ==
  /\ outcome = "cycle" => Cyclic(edges)
  /\ pc \in {"view", "planned"} => ~Cyclic(edges)

(* Every milestone is placed once, and after everything it waits for: no   *)
(* slip is read before it is derived.                                      *)
ParentsFirst ==
  \A i, j \in 1..Len(order) :
    /\ order[i] = order[j] => i = j
    /\ order[j] \in Parents(order[i]) => j < i

(* What a milestone is late by on its own account.                         *)
OwnSlip(k) == IF IsDone(k) THEN rows[k].actual - rows[k].planned
                           ELSE today - rows[k].planned

(* The milestones a delay of which reaches k: those upstream of k along    *)
(* paths on which k and every milestone between is still open.             *)
Upstream(k) ==
  {u \in DOMAIN rows :
     \E n \in 0..Cardinality(DOMAIN rows) : \E path \in [0..n -> DOMAIN rows] :
       /\ path[0] = k /\ path[n] = u
       /\ \A i \in 0..n - 1 : ~IsDone(path[i]) /\ path[i + 1] \in Parents(path[i])}

(* The slip derived one edge at a time is the worst slip anywhere upstream *)
(* (milestones.py:8-28): an open milestone is as late as the latest of     *)
(* those it waits for, and never early.                                    *)
SlipIsWorstUpstream ==
  \A k \in DOMAIN views :
    views[k].slip = IF IsDone(k) THEN OwnSlip(k)
                    ELSE MaxOf({0} \union {OwnSlip(u) : u \in Upstream(k)})

(* Each open milestone that will land late is raised once, as overdue or   *)
(* as projected late, and no other is (escalation.py:9-19).                *)
FlaggedIffLate ==
  pc = "planned" => \A k \in Open :
    (views[k].slip > 0) <=>
      Cardinality({f \in Found : /\ f.milestone = k
                                 /\ f.rule \in {"milestone_overdue", "projected_late"}}) = 1

(* A delay does not heal by waiting: as long as nobody touches the plan,   *)
(* no milestone's slip shrinks from one day to the next.                   *)
SlipNeverHeals ==
  (pc = "planned" /\ last.rows = rows /\ last.edges = edges) =>
    \A k \in DOMAIN last.views : views[k].slip >= last.views[k].slip

(* What RUNBOOK.md:324-326 says of a DependencyCycle: "Fix the plan".  A   *)
(* build then fails only when the plan that was loaded has a cycle.        *)
FixedPlanBuilds ==
  outcome = "cycle" /\ DOMAIN lastFile = DOMAIN rows => Cyclic(EdgesOf(lastFile))

=============================================================================
