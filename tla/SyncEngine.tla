-------------------------------- MODULE SyncEngine --------------------------------
(***************************************************************************)
(* The sync engine (integration_sync/sync_engine.py) over its SQLite store *)
(* (crm_store.py): incremental passes over a source, the transactional     *)
(* apply of one record with retries, the dead-letter queue and its         *)
(* reprocessing, and the operator's documented moves (RUNBOOK.md).         *)
(*                                                                         *)
(* A process step runs between two COMMITs: the database only changes at a *)
(* COMMIT, so Stop (a crash, or an exception nobody catches) may come      *)
(* between any two steps and loses exactly the process variables.          *)
(*                                                                         *)
(* A definition named Bug_X is a plausible mistake in the definition X     *)
(* that follows it.  No behaviour uses it: substituting it for X shows     *)
(* that a property can tell the difference (README.md, "Mutants").         *)
(***************************************************************************)
EXTENDS Naturals, Sequences, FiniteSets

CONSTANTS
  Source,         \* the source systems
  Key,            \* natural keys, each standing for one (source, natural_key)
  Digest,         \* machine-derived dead-letter keys of records without a key
  SourceOf,       \* the source of each key and digest
  Note,           \* schema-drift lines
  Party,          \* contact addresses and account names
  Raw,            \* the raw records the sources can deliver
  NoRaw,          \* not a raw record
  MaxYield,       \* bound: records a reader yields in one run
  Attempts,       \* retry budget of one record, counting the first try
  Projected,      \* sources whose records have a projection (tickets, deals)
  DrainProjects,  \* does the engine that drains the queue carry the projectors?
  Rebuildable     \* sources with a rebuilder in dead_letter_rebuilders()

Slot == Key \union Digest

(* A raw record carries what the engine tells apart: the natural key, or   *)
(* the digest it gets in the queue when the key is missing; the event time *)
(* the reader parsed (0: none); whether the reader's comparison hides it   *)
(* from incremental runs when there is none; the rank of its content hash; *)
(* whether the rest of its payload passes normalize(); its drift lines;    *)
(* the contact and account it names.                                       *)
RawRecord == [slot : Slot, at : Nat, hidden : BOOLEAN, hash : Nat, valid : BOOLEAN,
              notes : SUBSET Note, parties : SUBSET Party]

ASSUME SlotsAssumption ==
  /\ Source # {}
  /\ Key \intersect Digest = {}
  /\ SourceOf \in [Slot -> Source]
  /\ Projected \subseteq Source
  /\ Rebuildable \subseteq Source
  /\ DrainProjects \in BOOLEAN

ASSUME RawAssumption ==
  /\ Raw \subseteq RawRecord
  /\ NoRaw \notin Raw
  /\ \A r \in Raw : r.valid => r.at > 0 /\ r.hash > 0

(* occurred_at is one of the hashed fields (models.py:80-95), and so are   *)
(* the contact and the account: equal hashes mean equal content.           *)
ASSUME HashAssumption ==
  \A r, q \in Raw : (r.valid /\ q.valid /\ r.hash = q.hash)
                       => (r.at = q.at /\ r.parties = q.parties)

ASSUME AttemptsAssumption == Attempts \in Nat \ {0}

VARIABLES
  \* the database
  ledger,         \* sync_records: last hash and version of each key
  activity,       \* activities: the version each key shows
  projection,     \* tickets / deals: the version the projection shows
  parties,        \* contacts and accounts
  auditWrites,    \* audit_log, created/updated rows of a key, in order
  auditConflicts, \* audit_log, number of conflict_ignored rows per key and hash
  auditDrift,     \* audit_log, number of schema_drift rows per key and line
  dlq,            \* dead_letter: one row per key or digest
  cursor,         \* sync_state: the watermark of each source, 0 for NULL
  \* the process
  pc,             \* where the engine is
  source,         \* source being synced
  yielded,        \* everything the reader yields in this run
  batch,          \* the part of it not yet pulled
  maxSeen,        \* max_seen, the watermark-to-be
  todo,           \* dead-letter rows still to reprocess in this drain
  job,            \* the record being applied, with its row's category in a drain
  attempt,        \* which attempt of the retry budget is next
  \* history, read by the properties only
  applied,        \* raw records whose apply returned a decision
  owed,           \* yielded records that a finished run's watermark passed
  replaced,       \* records whose open dead-letter row was overwritten
  retired         \* records whose dead-letter row an operator retired or edited

dbVars      == <<ledger, activity, projection, parties,
                 auditWrites, auditConflicts, auditDrift>>
runVars     == <<source, yielded, batch, maxSeen>>
historyVars == <<applied, owed, replaced, retired>>
vars == <<dbVars, dlq, cursor, pc, runVars, todo, job, attempt, historyVars>>

---------------------------------------------------------------------------
Nothing == [at |-> 0, hash |-> 0]
Ver(r)  == [at |-> r.at, hash |-> r.hash]
Later(v, w) == v.at > w.at \/ (v.at = w.at /\ v.hash > w.hash)

NoRow   == [payload |-> NoRaw, category |-> "none", open |-> FALSE]
NoJob   == [raw |-> NoRaw, category |-> "none"]

AnySource == CHOOSE s \in Source : TRUE

Latest(a, b) == IF a >= b THEN a ELSE b

Categories == {"poison", "poison_no_key", "transient_exhausted"}

(* normalize() accepts a record that came with a natural key and a sound   *)
(* payload; hasKey is FALSE for a record handed over without its key.      *)
Normalizes(r, hasKey) == hasKey /\ r.valid

(* What the readers filter on: strictly after the watermark.  A record     *)
(* without a usable time passes, except where the reader compares its raw  *)
(* text (crm_import, tickets) and that text sorts low.                     *)
AfterCursor(r, c) == c = 0 \/ r.at > c \/ (r.at = 0 /\ ~r.hidden)

Init ==
  /\ ledger = [k \in Slot |-> [hash |-> 0, version |-> 0]]
  /\ activity = [k \in Slot |-> Nothing]
  /\ projection = [k \in Slot |-> Nothing]
  /\ parties = {}
  /\ auditWrites = [k \in Slot |-> <<>>]
  /\ auditConflicts = [k \in Slot |-> [h \in {r.hash : r \in Raw} |-> 0]]
  /\ auditDrift = [k \in Slot |-> [n \in Note |-> 0]]
  /\ dlq = [k \in Slot |-> NoRow]
  /\ cursor = [s \in Source |-> 0]
  /\ pc = "idle"
  /\ source = AnySource
  /\ yielded = {} /\ batch = {} /\ maxSeen = 0
  /\ todo = {} /\ job = NoJob /\ attempt = 1
  /\ applied = {} /\ owed = {} /\ replaced = {} /\ retired = {}
---------------------------------------------------------------------------
(* Dead-letter rows.  add_dead_letter() inserts, or overwrites payload and *)
(* category and re-opens; resolve_dead_letter() closes.                    *)

(* Does this row still hold r, or a version of the same key that makes r   *)
(* stale anyway?                                                           *)
Holds(row, r) ==
  /\ row.open
  /\ \/ row.payload = r
     \/ row.payload.valid /\ r.valid /\ ~Later(Ver(r), Ver(row.payload))

(* The records that the row of slot k holds now and `row` would not.       *)
Dropped(k, row) ==
  {r \in Raw : r.slot = k /\ Holds(dlq[k], r) /\ ~Holds(row, r)}

AddDeadLetter(r, category) ==
  LET row == [payload |-> r, category |-> category, open |-> TRUE]
  IN  /\ dlq' = [dlq EXCEPT ![r.slot] = row]
      /\ replaced' = replaced \union Dropped(r.slot, row)

CategoryOf(r) == IF r.slot \in Digest THEN "poison_no_key" ELSE "poison"

---------------------------------------------------------------------------
(* One incremental pass: sync_source().                                    *)

ProcessReset ==
  /\ pc' = "idle"
  /\ source' = AnySource
  /\ yielded' = {} /\ batch' = {} /\ maxSeen' = 0
  /\ todo' = {} /\ job' = NoJob /\ attempt' = 1

Bug_StartingWatermark(s) == 0
StartingWatermark(s) == cursor[s]

(* The source holds whatever it holds: any set of its records, of which    *)
(* the reader yields those after the watermark, in any order.              *)
StartRun(s) ==
  /\ pc = "idle"
  /\ \E content \in SUBSET {r \in Raw : SourceOf[r.slot] = s} :
       yielded' = {r \in content : AfterCursor(r, cursor[s])}
  /\ Cardinality(yielded') <= MaxYield
  /\ batch' = yielded'
  /\ source' = s
  /\ maxSeen' = StartingWatermark(s)
  /\ pc' = "pull"
  /\ UNCHANGED <<dbVars, dlq, cursor, todo, job, attempt, historyVars>>

Bug_PullPoison(r) ==
  /\ pc = "pull" /\ r \in batch
  /\ ~Normalizes(r, r.slot \in Key)
  /\ batch' = batch \ {r}
  /\ AddDeadLetter(r, CategoryOf(r))
  /\ maxSeen' = Latest(maxSeen, r.at)
  /\ UNCHANGED <<dbVars, cursor, pc, source, yielded,
                 todo, job, attempt, applied, owed, retired>>

(* A poison record goes to the dead-letter queue at once and leaves the    *)
(* watermark alone.                                                        *)
PullPoison(r) ==
  /\ pc = "pull" /\ r \in batch
  /\ ~Normalizes(r, r.slot \in Key)
  /\ batch' = batch \ {r}
  /\ AddDeadLetter(r, CategoryOf(r))
  /\ UNCHANGED <<dbVars, cursor, pc, source, yielded, maxSeen,
                 todo, job, attempt, applied, owed, retired>>

Pull(r) ==
  /\ pc = "pull" /\ r \in batch
  /\ Normalizes(r, r.slot \in Key)
  /\ batch' = batch \ {r}
  /\ job' = [raw |-> r, category |-> "none"]
  /\ attempt' = 1
  /\ pc' = "apply"
  /\ UNCHANGED <<dbVars, dlq, cursor, source, yielded, maxSeen,
                 todo, historyVars>>

Bug_FinishRun(advance) ==
  /\ pc = "pull"
  /\ cursor' = [cursor EXCEPT ![source] = maxSeen]
  /\ owed' = owed \union {r \in yielded : r.at <= maxSeen}
  /\ ProcessReset
  /\ UNCHANGED <<dbVars, dlq, applied, replaced, retired>>

(* The reader is exhausted: one commit moves the watermark, and with it    *)
(* every record it passed becomes the engine's responsibility.  `advance`  *)
(* is the caller's advance_cursor argument, read only here.                *)
FinishRun(advance) ==
  /\ pc = "pull" /\ batch = {}
  /\ IF advance
       THEN /\ cursor' = [cursor EXCEPT ![source] = maxSeen]
            /\ owed' = owed \union {r \in yielded : r.at <= maxSeen}
       ELSE UNCHANGED <<cursor, owed>>
  /\ ProcessReset
  /\ UNCHANGED <<dbVars, dlq, applied, replaced, retired>>

---------------------------------------------------------------------------
(* Applying one record: _apply_once() under call_with_retry(), from a run  *)
(* (pc = "apply") or from a drain (pc = "reapply").                        *)

Applying == pc \in {"apply", "reapply"}

Recorded(k)  == ledger[k].version > 0
Unchanged(r) == Recorded(r.slot) /\ ledger[r.slot].hash = r.hash

Bug_WinsByArrival(r) == TRUE
Bug_WinsByHash(r)    == r.hash > ledger[r.slot].hash
Bug_WinsTies(r)      == ~Recorded(r.slot) \/ r.at >= activity[r.slot].at

(* _decide(): last write wins by event time, ties by content hash.         *)
Wins(r) ==
  \/ ~Recorded(r.slot)
  \/ r.at > activity[r.slot].at
  \/ r.at = activity[r.slot].at /\ r.hash > ledger[r.slot].hash

Bug_NewNotes(r) == r.notes
NewNotes(r) == {n \in r.notes : auditDrift[r.slot][n] = 0}

RecordDrift(r) ==
  auditDrift' = [auditDrift EXCEPT ![r.slot] =
    [n \in Note |-> IF n \in NewNotes(r) THEN @[n] + 1 ELSE @[n]]]

Bug_Projects(r) == SourceOf[r.slot] \in Projected /\ pc = "apply"

Projects(r) ==
  SourceOf[r.slot] \in Projected /\ (pc = "reapply" => DrainProjects)

(* The apply returned a decision: a run counts it and raises its           *)
(* watermark-to-be, a drain goes on to close the row.                      *)
Applied(r) ==
  /\ applied' = applied \union {r}
  /\ attempt' = 1
  /\ \/ /\ pc = "apply"
        /\ pc' = "pull"
        /\ maxSeen' = Latest(maxSeen, r.at)
        /\ job' = NoJob
     \/ /\ pc = "reapply"
        /\ pc' = "resolve"
        /\ UNCHANGED <<maxSeen, job>>
  /\ UNCHANGED <<dlq, cursor, source, yielded, batch, todo,
                 owed, replaced, retired>>

Bug_ApplyUnchanged ==
  /\ Applying /\ Unchanged(job.raw)
  /\ Applied(job.raw)
  /\ UNCHANGED dbVars

(* Same hash as the ledger: no write but the drift lines not yet seen.     *)
ApplyUnchanged ==
  /\ Applying /\ Unchanged(job.raw)
  /\ RecordDrift(job.raw)
  /\ Applied(job.raw)
  /\ UNCHANGED <<ledger, activity, projection, parties, auditWrites,
                 auditConflicts>>

(* A stale record loses: one audit row the first time, nothing else.       *)
ApplyConflict ==
  /\ Applying /\ ~Unchanged(job.raw) /\ ~Wins(job.raw)
  /\ LET k == job.raw.slot  h == job.raw.hash
     IN  IF auditConflicts[k][h] = 0
         THEN auditConflicts' = [auditConflicts EXCEPT ![k][h] = @ + 1]
         ELSE UNCHANGED auditConflicts
  /\ Applied(job.raw)
  /\ UNCHANGED <<ledger, activity, projection, parties, auditWrites,
                 auditDrift>>

Bug_LedgerRow(r) == [hash |-> r.hash, version |-> 1]
LedgerRow(r) == [hash |-> r.hash, version |-> ledger[r.slot].version + 1]

UpsertParties(r)  == parties' = parties \union r.parties
UpsertActivity(r) == activity' = [activity EXCEPT ![r.slot] = Ver(r)]

(* The whole ticket or deal row is overwritten, under the same key.        *)
UpsertProjection(r) ==
  projection' = IF Projects(r) THEN [projection EXCEPT ![r.slot] = Ver(r)]
                               ELSE projection

(* Created or updated: contact, account, activity, projection, ledger and  *)
(* audit rows in one transaction.                                          *)
ApplyWrite ==
  /\ Applying /\ ~Unchanged(job.raw) /\ Wins(job.raw)
  /\ LET r == job.raw  k == r.slot
     IN  /\ UpsertParties(r)
         /\ UpsertActivity(r)
         /\ UpsertProjection(r)
         /\ ledger' = [ledger EXCEPT ![k] = LedgerRow(r)]
         /\ auditWrites' = [auditWrites EXCEPT ![k] =
              Append(@, [old |-> ledger[k].hash, new |-> r.hash])]
         /\ RecordDrift(r)
         /\ Applied(r)
  /\ UNCHANGED auditConflicts

(* The downstream write fails: the transaction rolls back and the engine   *)
(* sleeps, or, with the budget spent, the record is dead-lettered.         *)
Fails == Applying /\ ~Unchanged(job.raw) /\ Wins(job.raw)

Bug_RetryUnbounded ==
  /\ Fails /\ attempt <= Attempts
  /\ attempt' = attempt + 1
  /\ UNCHANGED <<dbVars, dlq, cursor, pc, runVars, todo, job, historyVars>>

Bug_RetryHalfWritten ==
  /\ Fails /\ attempt < Attempts
  /\ attempt' = attempt + 1
  /\ activity' = [activity EXCEPT ![job.raw.slot] = Ver(job.raw)]
  /\ UNCHANGED <<ledger, projection, parties, auditWrites, auditConflicts,
                 auditDrift, dlq, cursor, pc, runVars, todo, job, historyVars>>

Retry ==
  /\ Fails /\ attempt < Attempts
  /\ attempt' = attempt + 1
  /\ UNCHANGED <<dbVars, dlq, cursor, pc, runVars, todo, job, historyVars>>

(* In a run an exhausted record counts as handled: the watermark passes it.*)
GiveUp ==
  /\ pc = "apply" /\ Fails /\ attempt = Attempts
  /\ AddDeadLetter(job.raw, "transient_exhausted")
  /\ maxSeen' = Latest(maxSeen, job.raw.at)
  /\ pc' = "pull" /\ job' = NoJob /\ attempt' = 1
  /\ UNCHANGED <<dbVars, cursor, source, yielded, batch, todo,
                 applied, owed, retired>>

---------------------------------------------------------------------------
(* Reprocessing the queue: reprocess_dead_letter().                        *)

RowJob(k) == [raw |-> dlq[k].payload, category |-> dlq[k].category]

Bug_StartDrain ==
  /\ pc = "idle"
  /\ todo' = {RowJob(k) : k \in {k \in Slot : /\ dlq[k].open /\ ~Recorded(k)
                                             /\ SourceOf[k] \in Rebuildable}}
  /\ pc' = "drain"
  /\ UNCHANGED <<dbVars, dlq, cursor, runVars, job, attempt, historyVars>>

(* One SELECT lists the open rows; rows of a source without a rebuilder    *)
(* are skipped.                                                            *)
StartDrain ==
  /\ pc = "idle"
  /\ todo' = {RowJob(k) : k \in {k \in Slot : dlq[k].open
                                             /\ SourceOf[k] \in Rebuildable}}
  /\ pc' = "drain"
  /\ UNCHANGED <<dbVars, dlq, cursor, runVars, job, attempt, historyVars>>

Bug_HasKey(row) == TRUE
HasKey(row) == row.category # "poison_no_key"

DrainApply(row) ==
  /\ pc = "drain" /\ row \in todo
  /\ Normalizes(row.raw, HasKey(row))
  /\ todo' = todo \ {row}
  /\ job' = row /\ attempt' = 1 /\ pc' = "reapply"
  /\ UNCHANGED <<dbVars, dlq, cursor, runVars, historyVars>>

Bug_DrainPoison(row) ==
  /\ pc = "drain" /\ row \in todo
  /\ ~Normalizes(row.raw, HasKey(row))
  /\ AddDeadLetter(row.raw, row.category)
  /\ UNCHANGED <<dbVars, cursor, pc, runVars, todo, job, attempt,
                 applied, owed, retired>>

(* Still poison: the row keeps its payload and category, re-opened.        *)
DrainPoison(row) ==
  /\ pc = "drain" /\ row \in todo
  /\ ~Normalizes(row.raw, HasKey(row))
  /\ todo' = todo \ {row}
  /\ AddDeadLetter(row.raw, row.category)
  /\ UNCHANGED <<dbVars, cursor, pc, runVars, job, attempt,
                 applied, owed, retired>>

(* Still failing: the row is re-opened under its old category.             *)
DrainGiveUp ==
  /\ pc = "reapply" /\ Fails /\ attempt = Attempts
  /\ AddDeadLetter(job.raw, job.category)
  /\ pc' = "drain" /\ job' = NoJob /\ attempt' = 1
  /\ UNCHANGED <<dbVars, cursor, runVars, todo, applied, owed, retired>>

(* The record has landed; closing its row is a commit of its own.          *)
Resolve ==
  /\ pc = "resolve"
  /\ dlq' = [dlq EXCEPT ![job.raw.slot].open = FALSE]
  /\ pc' = "drain" /\ job' = NoJob
  /\ UNCHANGED <<dbVars, cursor, runVars, todo, attempt, historyVars>>

EndDrain ==
  /\ pc = "drain" /\ todo = {}
  /\ ProcessReset
  /\ UNCHANGED <<dbVars, dlq, cursor, historyVars>>

---------------------------------------------------------------------------
(* The process dies, or an exception neither PoisonError nor TransientError*)
(* (a reader that gives up, a bug) escapes: what was committed stays.      *)
Stop ==
  /\ pc # "idle"
  /\ ProcessReset
  /\ UNCHANGED <<dbVars, dlq, cursor, historyVars>>

(* The operator's moves, made while no engine runs (single writer).        *)
ResetCursor(s) ==
  /\ pc = "idle"
  /\ \E c \in {0} \union {r.at : r \in Raw} :
       c < cursor[s] /\ cursor' = [cursor EXCEPT ![s] = c]
  /\ UNCHANGED <<dbVars, dlq, pc, runVars, todo, job, attempt, historyVars>>

RetireRow(k) ==
  /\ pc = "idle" /\ dlq[k].open
  /\ LET row == [dlq[k] EXCEPT !.open = FALSE]
     IN  /\ dlq' = [dlq EXCEPT ![k] = row]
         /\ retired' = retired \union Dropped(k, row)
  /\ UNCHANGED <<dbVars, cursor, pc, runVars, todo, job, attempt,
                 applied, owed, replaced>>

FixPayload(k, r) ==
  /\ pc = "idle" /\ dlq[k].open /\ ~dlq[k].payload.valid
  /\ r.slot = k /\ r.valid
  /\ LET row == [dlq[k] EXCEPT !.payload = r]
     IN  /\ dlq' = [dlq EXCEPT ![k] = row]
         /\ retired' = retired \union Dropped(k, row)
  /\ UNCHANGED <<dbVars, cursor, pc, runVars, todo, job, attempt,
                 applied, owed, replaced>>

---------------------------------------------------------------------------
Run     == \/ \E r \in batch : Pull(r) \/ PullPoison(r)
           \/ \E advance \in BOOLEAN : FinishRun(advance)
Apply   == ApplyUnchanged \/ ApplyConflict \/ ApplyWrite \/ Retry
           \/ GiveUp \/ DrainGiveUp
Drain   == \/ \E row \in todo : DrainApply(row) \/ DrainPoison(row)
           \/ Resolve \/ EndDrain
Operate == \/ \E s \in Source : ResetCursor(s)
           \/ \E k \in Slot : RetireRow(k) \/ \E r \in Raw : FixPayload(k, r)

Next == \/ \E s \in Source : StartRun(s)
        \/ StartDrain
        \/ Run \/ Apply \/ Drain \/ Stop \/ Operate

Spec == Init /\ [][Next]_vars

---------------------------------------------------------------------------
(* What must hold.                                                         *)

HashRanks == {r.hash : r \in Raw}
VersionOrNothing == [at : Nat, hash : Nat]
Jobs == [raw : Raw, category : Categories \union {"none"}]

DatabaseTypeOK ==
  /\ ledger \in [Slot -> [hash : Nat, version : Nat]]
  /\ activity \in [Slot -> VersionOrNothing]
  /\ projection \in [Slot -> VersionOrNothing]
  /\ parties \subseteq Party
  /\ auditWrites \in [Slot -> Seq([old : Nat, new : Nat])]
  /\ auditConflicts \in [Slot -> [HashRanks -> Nat]]
  /\ auditDrift \in [Slot -> [Note -> Nat]]

QueueTypeOK ==
  /\ dlq \in [Slot -> [payload : Raw \union {NoRaw},
                       category : Categories \union {"none"},
                       open : BOOLEAN]]
  /\ replaced \subseteq Raw

ProcessTypeOK ==
  /\ pc \in {"idle", "pull", "apply", "drain", "reapply", "resolve"}
  /\ source \in Source
  /\ yielded \subseteq Raw /\ batch \subseteq yielded
  /\ maxSeen \in Nat
  /\ todo \subseteq Jobs
  /\ job \in Jobs \union {NoJob}
  /\ attempt \in 1..Attempts

(* Types of every variable: what the schema (crm_store.py:32-168) and the  *)
(* engine's locals can hold.                                               *)
TypeOK ==
  /\ DatabaseTypeOK
  /\ QueueTypeOK
  /\ cursor \in [Source -> Nat]
  /\ ProcessTypeOK
  /\ applied \subseteq Raw /\ owed \subseteq Raw /\ retired \subseteq Raw

(* The engine implements a last-write-wins register per key: whatever the  *)
(* order of deliveries, retries, crashes, drains and cursor resets, the    *)
(* activity shows the latest version whose apply ever returned             *)
(* (sync_engine.py:239-351).                                               *)
Register == INSTANCE LwwRegister WITH
  Key     <- Slot,
  Version <- {Ver(r) : r \in {q \in Raw : q.valid}},
  offered <- [k \in Slot |-> {Ver(r) : r \in {q \in applied : q.slot = k}}],
  value   <- activity

ImplementsRegister == Register!Spec

(* The ledger and the activity it vouches for never diverge: a key has     *)
(* both or neither, and with the same content (RUNBOOK.md:160-162).        *)
LedgerMatchesActivity ==
  \A k \in Slot : /\ Recorded(k) <=> activity[k] # Nothing
                  /\ ledger[k].hash = activity[k].hash

(* In a source with a projection, the ticket or deal row shows exactly the *)
(* version the activity shows.                                             *)
ProjectionAgrees ==
  \A k \in Slot : SourceOf[k] \in Projected => projection[k] = activity[k]

(* The created/updated rows of a key replay to its ledger entry: one row   *)
(* per version, each starting from the hash the previous one wrote.        *)
AuditReplays ==
  \A k \in Slot :
    LET rows == auditWrites[k]
    IN  /\ Len(rows) = ledger[k].version
        /\ \A i \in 1..Len(rows) :
             rows[i].old = IF i = 1 THEN 0 ELSE rows[i - 1].new
        /\ Len(rows) > 0 => rows[Len(rows)].new = ledger[k].hash

(* Re-seeing a stale record or an already-noted schema change, in any      *)
(* number of runs and drains, adds no second audit row                     *)
(* (crm_store.py:514-541).                                                 *)
AuditedOnce ==
  \A k \in Slot : /\ \A h \in HashRanks : auditConflicts[k][h] <= 1
                  /\ \A n \in Note : auditDrift[k][n] <= 1

(* Every applied record whose content is the one shown, whether it wrote   *)
(* that version or found it there, has its drift lines in the trail.  The  *)
(* lines of a record that loses the conflict are not written               *)
(* (sync_engine.py:260-276), though README.md:149 says each one is.        *)
DriftRecorded ==
  \A r \in applied : (Recorded(r.slot) /\ ledger[r.slot].hash = r.hash)
                        => \A n \in r.notes : auditDrift[r.slot][n] = 1

(* A record is accounted for when its key shows it, or something later, or *)
(* an open dead-letter row still holds it.                                 *)
Accounted(r) ==
  \/ Holds(dlq[r.slot], r)
  \/ r.valid /\ Recorded(r.slot) /\ ~Later(Ver(r), activity[r.slot])

(* Once a watermark has passed a record that was yielded at or below it,   *)
(* the record is accounted for, across crashes and later runs, unless      *)
(* another delivery overwrote its dead-letter row or an operator gave it   *)
(* up.                                                                     *)
AccountedUnlessReplaced ==
  \A r \in owed : Accounted(r) \/ r \in replaced \/ r \in retired

(* What the module docstring says: a record that exhausts its retries is   *)
(* dead-lettered "so nothing is silently dropped" (sync_engine.py:29-31).  *)
NothingSilentlyDropped ==
  \A r \in owed : r.valid => Accounted(r) \/ r \in retired

(* A watermark stands on a record that passed validation: poison never     *)
(* moves it (sync_engine.py:146-156).                                      *)
CursorEarned ==
  \A s \in Source : cursor[s] > 0 =>
    \E r \in owed : /\ SourceOf[r.slot] = s /\ r.at >= cursor[s]
                    /\ Normalizes(r, r.slot \in Key)

(* A record without a key is never landed under its machine-derived key,   *)
(* and only a human closes its row (RUNBOOK.md:100-102).                   *)
KeylessWaitsForHuman ==
  [][\A d \in Digest : /\ ~Recorded(d)'
                       /\ dlq[d].open /\ ~dlq'[d].open => pc = "idle"]_vars

(* A watermark falls only by the operator's hand.                          *)
CursorNeverFalls ==
  [][\A s \in Source : cursor'[s] < cursor[s] => pc = "idle"]_vars

(* Delivering again a record that was applied before writes nothing: no    *)
(* content, no version, no projection, no write or drift row.              *)
RedeliveryIsNoOp ==
  [][Applying /\ job.raw \in applied =>
       UNCHANGED <<ledger, activity, projection, parties,
                   auditWrites, auditDrift>>]_vars

---------------------------------------------------------------------------
(* The engine is one thread that runs on once started.  Nobody promises    *)
(* that the operator drains or that the dependency heals, unless stated.   *)
EngineProgress == WF_vars(Run \/ Apply \/ Drain)

FairSpec == Spec /\ EngineProgress

(* Every run and every drain ends: the retry loop is bounded and the drain *)
(* walks one list of rows, re-opened rows included (sync_engine.py:193).   *)
PassesEnd == pc # "idle" ~> pc = "idle"

(* The operator keeps draining, and neither crashes nor the dependency hit *)
(* the same record every time.                                             *)
DrainingSpec ==
  /\ FairSpec
  /\ SF_vars(StartDrain)
  /\ \A r \in Raw :
       /\ SF_vars(\E row \in todo : row.raw = r /\ DrainApply(row))
       /\ SF_vars(pc = "reapply" /\ job.raw = r
                    /\ (ApplyWrite \/ ApplyUnchanged \/ ApplyConflict))
       /\ SF_vars(job.raw = r /\ Resolve)

(* Then a row whose only trouble was the dependency leaves the queue       *)
(* (RUNBOOK.md:74-76).                                                     *)
QueueDrains ==
  \A k \in Key : SourceOf[k] \in Rebuildable =>
    (dlq[k].open /\ dlq[k].category = "transient_exhausted")
       ~> ~(dlq[k].open /\ dlq[k].category = "transient_exhausted")

=============================================================================
