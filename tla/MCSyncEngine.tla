------------------------------ MODULE MCSyncEngine ------------------------------
(* Small instances of SyncEngine for TLC.                                  *)
EXTENDS SyncEngine, TLC

CONSTANTS tickets, email, a, noKey, renamed, ann, acme

MCSourceOf == (a :> tickets) @@ (noKey :> email)

Record(k, t, h, ok, ns) ==
  [slot |-> k, at |-> t, hidden |-> t = 0, hash |-> h, valid |-> ok, notes |-> ns,
   parties |-> {ann, acme}]

(* A key with an old version, the same version read under a renamed field, *)
(* and a newer version whose hash sorts first.                             *)
RawConflicts == {Record(a, 1, 4, TRUE, {}),
                 Record(a, 1, 4, TRUE, {renamed}),
                 Record(a, 2, 1, TRUE, {})}

(* Two rival versions of one event time, a malformed delivery of the same  *)
(* key, and a record of another source that came without a key.            *)
RawQueue == {Record(a, 1, 2, TRUE, {}),
             Record(a, 1, 3, TRUE, {}),
             Record(a, 2, 9, FALSE, {}),
             Record(noKey, 1, 5, TRUE, {})}

(* For the liveness run: one sound delivery of a key and one without a     *)
(* usable event time.                                                      *)
RawDrains == {Record(a, 1, 2, TRUE, {}), Record(a, 0, 9, FALSE, {})}

=============================================================================
