----------------------------- MODULE MCMilestonePlan -----------------------------
(* Small instances of MilestonePlan for TLC.                               *)
EXTENDS MilestonePlan

Milestone(planned, actual, owned) ==
  [planned |-> planned, actual |-> actual, done |-> actual > 0, owned |-> owned]

(* Due at once, due later, done late.                                      *)
Rows == {Milestone(1, 0, TRUE), Milestone(2, 0, FALSE), Milestone(1, 3, TRUE)}

(* Every graph over the keys in which only milestone 1 may wait for itself.*)
Graphs == {d \in [Key -> SUBSET Key] : \A k \in Key : k \in d[k] => k = 1}

WholePlans == {[k \in Key |-> [row |-> r[k], deps |-> d[k]]] : r \in [Key -> Rows], d \in Graphs}

(* A plan that waits for a milestone it does not name, a plan with an early*)
(* finish, and one with a date missing at its end.                         *)
OddPlans ==
  {[k \in {1, 2} |-> [row |-> Milestone(1, 0, TRUE), deps |-> {k + 1}]],
   [k \in {1, 2} |-> [row |-> Milestone(4, 2 * (2 - k), TRUE), deps |-> {1} \ {k}]],
   [k \in {1, 2} |-> [row |-> Milestone(2 - k, 0, TRUE), deps |-> {1} \ {k}]]}

MCPlans == WholePlans \union OddPlans

(* Two milestones that wait for each other, and the plan with that fixed.  *)
FixedPlans ==
  {[k \in {1, 2} |-> [row |-> Milestone(1, 0, TRUE), deps |-> {3 - k}]],
   [k \in {1, 2} |-> [row |-> Milestone(1, 0, TRUE), deps |-> {1} \ {k}]]}

(* An overdue ticket that is open on milestone 2, and the same one closed. *)
MCBoards == {{[ticket |-> 9, milestone |-> 2, open |-> o, due |-> 1]} : o \in BOOLEAN}

=============================================================================
