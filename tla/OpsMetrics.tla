-------------------------------- MODULE OpsMetrics --------------------------------
(***************************************************************************)
(* The operations dashboard (dashboard/app.py) reading the numbers of      *)
(* ops_metrics.py from the store while the engine of SyncEngine writes to  *)
(* it.  Each number is a SELECT of its own, outside any transaction and in *)
(* another process, so the engine may commit between any two of them.      *)
(*                                                                         *)
(* Bug_X is a plausible mistake in X; no behaviour uses it.                *)
(***************************************************************************)
EXTENDS SyncEngine

CONSTANT MaxCommits   \* bound: commits during a look are counted up to this

ASSUME MaxCommitsAssumption == MaxCommits \in Nat \ {0}

VARIABLES
  look,     \* what the dashboard has read so far
  commits   \* commits since its first SELECT

opsVars == <<vars, look, commits>>

---------------------------------------------------------------------------
(* What each SELECT returns of the state it runs in.                       *)

LedgerKeys == {k \in Slot : Recorded(k)}
QueueKeys  == {k \in Slot : dlq[k] # NoRow}

(* Rows that were dead-lettered and never landed: those that did land have *)
(* recovered, whatever became of their queue row.                          *)
Bug_Unrecovered == QueueKeys
Unrecovered == QueueKeys \ LedgerKeys

Ingested == Cardinality(LedgerKeys \union QueueKeys)
Upserted == Cardinality(LedgerKeys)

Bug_FailedValidation == Cardinality({k \in Unrecovered : dlq[k].category = "poison"})

FailedValidation ==
  Cardinality({k \in Unrecovered : dlq[k].category \in {"poison", "poison_no_key"}})
FailedWrite ==
  Cardinality({k \in Unrecovered : dlq[k].category = "transient_exhausted"})

OpenRows == Cardinality({k \in Slot : dlq[k].open})

(* Per source: the audit rows that say "created", which is what the write  *)
(* of a key without a ledger row says, and the ledger rows.                *)
CreatedRows(k) == {i \in DOMAIN auditWrites[k] : auditWrites[k][i].old = 0}

Created(s) ==
  Cardinality(UNION {{k} \X CreatedRows(k) : k \in {k \in Slot : SourceOf[k] = s}})
Records(s) == Cardinality({k \in LedgerKeys : SourceOf[k] = s})

---------------------------------------------------------------------------
NoLook == [stage |-> "idle", source |-> AnySource, depth |-> 0, ingested |-> 0,
           upserted |-> 0, validation |-> 0, write |-> 0, open |-> 0,
           created |-> 0, records |-> 0]

OpsInit == Init /\ look = NoLook /\ commits = 0

(* One SELECT: it answers from the database as it is now.                  *)
Select(from, to, column, answer) ==
  /\ look.stage = from
  /\ look' = [look EXCEPT !.stage = to, ![column] = answer]
  /\ UNCHANGED <<vars, commits>>

(* A look begins with the queue's depth: dead_letter_report().             *)
ReadDepth ==
  /\ look.stage \in {"idle", "done"}
  /\ look' = [NoLook EXCEPT !.stage = "depth", !.depth = OpenRows]
  /\ commits' = 0
  /\ UNCHANGED vars

(* funnel(), one count after the other.                                    *)
ReadFunnel ==
  \/ Select("depth", "ingested", "ingested", Ingested)
  \/ Select("ingested", "upserted", "upserted", Upserted)
  \/ Select("upserted", "validation", "validation", FailedValidation)
  \/ Select("validation", "write", "write", FailedWrite)
  \/ Select("write", "open", "open", OpenRows)

Bug_ReadThroughput(s) ==
  \/ /\ look.stage = "open"
     /\ look' = [look EXCEPT !.stage = "records", !.source = s, !.records = Records(s)]
     /\ UNCHANGED <<vars, commits>>
  \/ look.source = s /\ Select("records", "done", "created", Created(s))

(* throughput_by_source(), for one of its sources: the trail is counted    *)
(* before the ledger it explains.                                          *)
ReadThroughput(s) ==
  \/ /\ look.stage = "open"
     /\ look' = [look EXCEPT !.stage = "created", !.source = s, !.created = Created(s)]
     /\ UNCHANGED <<vars, commits>>
  \/ look.source = s /\ Select("created", "done", "records", Records(s))

Look == ReadDepth \/ ReadFunnel \/ \E s \in Source : ReadThroughput(s)

Commits == dbVars' # dbVars \/ dlq' # dlq \/ cursor' # cursor

Sync ==
  /\ Next
  /\ commits' = IF Commits /\ look.stage \notin {"idle", "done"} /\ commits < MaxCommits
                THEN commits + 1 ELSE commits
  /\ UNCHANGED look

OpsNext == Sync \/ Look
OpsSpec == OpsInit /\ [][OpsNext]_opsVars

---------------------------------------------------------------------------
(* What must hold.                                                         *)

(* At any one moment the funnel adds up: every record the engine reached a *)
(* decision about is in the ledger, or failed validation, or failed its    *)
(* write, and in one of these only (ops_metrics.py:127-137); and the       *)
(* created rows of the trail are as many as the records they created.      *)
FunnelAddsUp ==
  /\ Ingested = Upserted + FailedValidation + FailedWrite
  /\ \A r \in applied : r.slot \in LedgerKeys
  /\ \A s \in Source : Created(s) = Records(s)

Apart(m, n, d) == m <= n + d /\ n <= m + d

(* A look while the engine runs shows numbers of different moments, but    *)
(* they disagree by no more than the commits in between: the funnel's sum, *)
(* the stages against each other, and the depth shown twice.               *)
TornByCommits ==
  look.stage = "done" /\ commits < MaxCommits =>
    /\ Apart(look.ingested, look.upserted + look.validation + look.write, commits)
    /\ look.upserted <= look.ingested + commits
    /\ Apart(look.depth, look.open, commits)

(* However the engine runs in between, a source never shows more records   *)
(* created than it has: the ledger only grows, and is read last.           *)
CreatedAreRecords ==
  look.stage = "done" => look.created <= look.records

=============================================================================
