------------------------------- MODULE MCOpsMetrics -------------------------------
(* A small instance of OpsMetrics for TLC.                                 *)
EXTENDS OpsMetrics, TLC

CONSTANTS tickets, email, a, noKey

MCSourceOf == (a :> tickets) @@ (noKey :> email)

Record(k, t, h, ok) ==
  [slot |-> k, at |-> t, hidden |-> FALSE, hash |-> h, valid |-> ok,
   notes |-> {}, parties |-> {}]

(* A sound record, and one without a key that never lands.                 *)
MCRaw == {Record(a, 1, 2, TRUE), Record(noKey, 1, 5, TRUE)}

=============================================================================
