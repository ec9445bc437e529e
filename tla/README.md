# A verification of the CRM sync sketch

TLA+ models of `integration_sync` (the package under `src/integration_sync/`),
the TLC configurations that check them on small instances, and theorems about
every component modelled that TLAPS proves for every instance. Paths below are relative to the
repository; a line number is that of the commit the models were written from.
`PROJECT.json` lists the same things in a form tools can read, with the lines
each definition models.

## The system and its parts

A single process pulls records out of source systems, puts them through a
validation boundary, and writes them to a CRM store (one SQLite file). Delivery
is at least once; everything else is about making that harmless.

| Component | State it keeps | Operations | Talks to |
|---|---|---|---|
| **Sync engine** (`sync_engine.py`, `retry.py`, `errors.py`) | none between calls; in a pass the reader's position, `max_seen`, the attempt number; in a drain the list of rows | `sync_source`, `_apply_once` under `call_with_retry`, `_dead_letter`, `reprocess_dead_letter` | readers (pulls), the store (one transaction per record), the projectors (called inside that transaction) |
| **CRM store** (`crm_store.py`) | accounts, contacts, activities, tickets, deals, milestones and their dependencies, escalations, `sync_records` (the ledger), `sync_state` (watermarks), `dead_letter`, `audit_log` | upserts, `add_dead_letter`, `resolve_dead_letter`, `set_cursor`, `audit_once`, `transaction` | everything writes through it |
| **Validation and identity** (`normalize.py`, `models.py`, `hashing.py`, `timeutil.py`) | none | `normalize` (accept or `PoisonError`), `content_hash` | called by the engine |
| **File readers** (`calendar_source.py`, `email_source.py`, `crm_import_source.py`) | none | yield the raw records after a watermark | called lazily by the engine's loop |
| **Ticket source** (`ticket_source.py`) | the quota bucket of the endpoint; the client's page and attempt | `SyntheticTicketApi.search`, `fetch_pages`, `read_tickets`, `resolve_fields` | an endpoint that throttles; yields to the engine page by page |
| **HubSpot connector** (`hubspot_source.py`) | the client's token, the tokens it has seen, the attempt | `iter_pages`, `_get_with_retry`, two readers, the contact resolver, the deal projector | an external API; the resolver reads the store in the middle of a pass |
| **Milestone plan** (`milestones.py`) | none | `load_milestones`, `topological_order`, `build_plan` | reads the store |
| **Escalation rules** (`escalation.py`) | none | `evaluate`, `record` | a built plan, the tickets table, the escalations table |
| **Pipeline wiring** (`pipeline.py`) | none | which source has a reader, and which a rebuilder of dead-letter rows | the engine |
| **Operations metrics** (`ops_metrics.py`) | none | funnel, lag, dead-letter and milestone reports | read-only, against the live store |
| Dashboard, report, demo scripts, data generator, logging | none | rendering and driving | read-only or linear |

### What makes each part correct, and what is hard about it

* **Engine.** The activity of a key shows the last version by event time, in
  whatever order versions came: from runs, re-runs after a reset cursor, or a
  drain days later. Every attempt is one transaction; a crash may fall between
  any two commits, and in particular between a record and the watermark, and
  between a reprocessed record and the closing of its row. What the watermark has
  passed must be in the CRM or in the queue. The trail (`audit_log`) must record
  each change once however often a record is seen again.
* **Queue.** One row per key, overwritten by every later failure, re-opened while
  a drain is walking an older snapshot of it.
* **Ticket client.** A quota over a sliding window, a server that tells how long
  to wait, a budget per page, and offsets into a list that changes while it is
  being read.
* **HubSpot client.** Empty pages that are not the last, tokens that repeat,
  failures half-way through a listing; and deals that depend on contacts which
  another pass must have brought in.
* **Milestones.** Kahn's algorithm with a queue, slip derived edge by edge, dates
  on a boundary, edges that outlive the plan file which named them.
* **Escalations.** Two rules share the late milestones between them; recording
  is idempotent within a day.

`PROJECT.json` lists the hazards one by one, at the line where each bites, with
the properties that cover it, or the reason why none does yet.

## Modules

| Module | What it is |
|---|---|
| `LwwRegister` | The abstract specification: per key, a last-write-wins register on (event time, hash) |
| `SyncEngine` | The engine, its store, its queue, the operator's documented moves |
| `MCSyncEngine` | Its instances: three sets of raw records |
| `LwwRegisterProofs` | The register's theorem |
| `SyncEngineProofs` | Types, the refinement, what is accounted for, watermarks |
| `SyncStoreProofs` | The trail, the projections, the keyless rows |
| `TicketFetch`, `TicketFetchProofs` | The rate-limited endpoint, its client, and the watermark of the pass |
| `HubSpotSync`, `MCHubSpotSync`, `HubSpotSyncProofs` | The token-paged client, contacts and deals, the watermark of each |
| `MilestonePlan`, `MCMilestonePlan`, `MilestonePlanProofs` | Loading a plan, ordering it, slip, the five rules |
| `Intake`, `MCIntake`, `IntakeProofs` | How a source's row becomes a raw record: the readers' filters, the ticket contract, validation, what the queue keeps |
| `OpsMetrics`, `MCOpsMetrics`, `OpsMetricsProofs` | The dashboard's numbers, read while `SyncEngine` runs |

### SyncEngine

*Time.* The database changes at a COMMIT and at no other moment, so one action is
what the process does from one commit to the next. `Stop` is a crash, or an
exception that nobody catches, and may come between any two actions: it loses
the process variables (`pc`, `batch`, `maxSeen`, `todo`, `job`, `attempt`) and
nothing else. There is one writer, as the runbook demands; the operator's
moves happen while no engine runs.

*Data.* A raw record is what the engine can tell apart: the key (or the digest the
queue uses for a record that has none), the event time, the rank of its
content hash, whether `normalize` accepts its payload, its drift lines, the
contact and account it names. `HashAssumption` says equal hashes mean equal
content, which is the engine's own assumption about SHA-256. The time of a
malformed record is 0 when it has none, and `hidden` says what the reader's
comparison of raw text then does with it (`crm_import_source.py:44-51`,
`ticket_source.py:425-429`): in some sources such a record disappears once a
watermark exists.

| Code | Actions |
|---|---|
| `sync_source` | `StartRun`, `Pull`, `PullPoison`, `FinishRun(advance)` |
| `_apply_once` | `ApplyUnchanged`, `ApplyConflict`, `ApplyWrite` |
| `call_with_retry` | `Retry`, `GiveUp` (in a run), `DrainGiveUp` (in a drain) |
| `reprocess_dead_letter` | `StartDrain`, `DrainApply`, `DrainPoison`, `Resolve`, `EndDrain` |
| `RUNBOOK.md`: reset a cursor, retire a row, fix a payload | `ResetCursor`, `RetireRow`, `FixPayload` |

The source may hold any set of its records at each run, in any order: that
covers re-delivery, reordering, late arrival and records that vanish.

The four history variables are read by the properties only: `applied` (records
whose apply returned), `owed` (records a finished pass had yielded at or below
its watermark), `replaced` and `retired` (records whose open row was overwritten
by another delivery, or given up by an operator).

### TicketFetch

Each request, sleep and wake of the client is an action, and `Tick` lets time
pass between any two of them. The clock is kept as ages, cut off at the window, so
that the state space is finite without a last day: `stamps` is the bucket, oldest
first, `Within` its pruning, and `admitted` remembers every admission of the last
window whether the bucket does or not. The endpoint filters and
slices its list anew for each request (`search`): an issue is on a page by its
place in that list. `handled` is the version of
each issue the engine has dealt with. Edits fall between passes: the endpoint of
the repository reads a list that nothing changes while a pass runs. `Abandon` and `Crash` are the process dying
with part of a page consumed, or none of it.

### HubSpotSync

`trail` is `seen_tokens`. The server lists objects in a fixed order and answers
with the next ones, sometimes with none and a token all the same (`Answer`),
or with a token it gave before (`Repeat`); requests fail and are tried again
(`Retry`) or end the pass (`Raise`); a body that does not parse reads as the
last page (`Garble`). What the engine does with a page is
abstracted to `Consume`: a record that validates lands, or exhausts the retries of
its write and gets a dead-letter row of that category (`exhausted`), as one that does
not validate gets its own; the pass goes on and the watermark moves either way
(`sync_engine.py:158-172`). SyncEngine has the rest. The server is modelled from how the
client uses it, and is marked external in `PROJECT.json`.

### MilestonePlan

`Load` is one transaction; `Begin`, `Pop` and `Ordered` are Kahn's algorithm one
iteration at a time, `View` derives one milestone after another, `Record` runs the
rules (`evaluate` is pure) and commits what they found. The look may be cut short
by `Stop`, and between looks the date moves and the ticket board changes.

### Intake

`SyncEngine` takes a raw record as given: valid or not, under a key or none. Here
it is made from a row of the source, whose shape may change between two passes,
and the question is what can get lost, blanked or doubled on the way. Which shapes
a source can send is a constant (`Feed`); `IntakeAssumption` asks only that a
stamp which parses is a time, that a source without a field contract sends
every field as expected, and that the shape of a value is told apart only in a field
with a coercion. A row says
how it names itself (`name`), what its stamp is (a time, a text in its place with
its rank among the times, or nothing), whether it has an address, and for tickets
how each field is sent: under the expected spelling, an alias, a spelling
nobody declared yet, with its value under one spelling and an empty one under
another, in the other shape (an object for text, text for an object), as an object
with none of the keys its coercion looks under, empty, or not at all. `summary`,
`status` and `updated` are the required fields, the last being the event time; of the
optional ones `assignee` is the address, and `due` stands for the rest. `status` and
`assignee` have a coercion (`_named`, `_email`), which makes the same text of both
shapes and an empty text of an object it cannot read.

| Code | Definitions |
|---|---|
| `resolve_key`, `resolve_fields` with `_named` and `_email`, `_to_raw` | `Identity`, `Missing`, `Columns`, `Unmapped`, `Read` |
| `_updated_of`, the filters of `search`, `read_ics`, `read_mbox`, `read_crm_export` | `EndpointRank`, `Compares`, `Compared`, `Yields` |
| `normalize` | `Accepts` |
| the engine, as far as one record goes | `ReadPoison`, `ReadSound`, `ReadFailing`, `EndPass`, `Crash` |
| `dead_letter_rebuilders`, `reprocess_dead_letter` | `Drain` |
| `RUNBOOK.md`: add an alias, reset a cursor | `DeclareSpelling`, `ResetCursor` |

The engine is cut down to what one record does. Which of two contents of one
instant has the greater hash is not known here, so `MayWin` and `MayLose` overlap;
`SyncEngine` settles it. A row changes between passes only, as in the other
modules.

`late` remembers the rows that came with a stamp (or a text read as one) which the
watermark had already passed, the documented limit of an incremental read.
`NothingVanishes` says there is no other way to go missing. It is also where
`crm_import` and `tickets` part from the mail and calendar readers: there a
malformed row can be `late`, because its text is compared; a mail or calendar entry
without a date never is.

### OpsMetrics

It extends `SyncEngine` with a reader that is another process: each SELECT of
`dead_letter_report`, `funnel` and `throughput_by_source` is an action
(`ReadDepth`, `ReadFunnel`, `ReadThroughput`) that sees the database as it is at
that moment, and any step of the engine may come between two of them. `commits`
counts those that changed the database. Throughput is read for one source, any.

## What the runs check

Every run takes less than two and a half minutes on two cores.

| Run | States | Question |
|---|---|---|
| `Conflicts` | 157,804 | Three records of one key, among them a newer version whose hash sorts first and an old one read under a renamed field. Content, projection and trail stay one story; the engine implements `LwwRegister`; re-delivery writes nothing |
| `Queue` | 968,814 | Two rivals of one instant, a malformed delivery of the same key, a record without a key. What the watermark passed is accounted for; poison moves no watermark; watermarks fall only by hand; keyless rows wait for a human |
| `Drains` | 7,231 | Every pass and drain ends; rows whose dependency recovered leave the queue |
| `Tickets` | 40,700 | Quota over every window, Retry-After suffices, passes end, re-running converges after throttles and crashes |
| `HubSpot` | 522,135 | What a watermark passed is in the CRM or queued, in spite of empty pages, repeats and failures, unless a garbled page cut it off; after a reset every deal with a synced contact lands or is queued for an exhausted write; every pass ends |
| `Intake` | 2,400,579 | Two rows of each kind of source, changed three times: nothing vanishes, nothing lands blank or twice but for stated reasons, no rename or change of shape loses a value or rewrites a row, but for an object that its coercion cannot read, and a re-read recovers what a drain cannot |
| `Dashboard` | 471,537 | The funnel adds up at every moment; a look during a sync is torn by no more than the commits in it; created rows never exceed records |
| `Plans` | 353,718 | Every graph over three milestones with every mixture of three kinds of row: cycles, order, slip, late flags, slip against the calendar |

The properties that say the most:

* `ImplementsRegister` is refinement: `activity` is the register, the versions
  whose apply returned are what was offered to it. It rules out every dependence
  on the order of arrival, at once for runs, retries, crashes and drains.
* `AccountedUnlessReplaced` relates the watermark to the CRM and the queue
  together, at every moment after the pass, not only at its end.
* `RedeliveryIsNoOp` is idempotency as an action property: a record that was
  applied before changes neither content nor version nor projection nor drift
  rows. A conflict row is left out of it on purpose: a record that won once and
  was overtaken loses the next time, and that is logged once (`AuditedOnce`).
* `ScanConverges` and `WatermarkCoversUnlessCut` are its counterparts one layer
  down, for pages in place of records.
* `NothingVanishes` relates a row of the source to the reader, the CRM and the
  queue at every moment: ahead of the reader, shown, queued, or late.
* `LandedKeepsEverything` and `RenameRewritesNothing` hold together what the README
  claims of renames: a value is in its column or among the unmapped fields (with one
  exception, below), and a row is rewritten only when a value changed or moved to or from a spelling the
  contract does not know.
* `TornByCommits` bounds how far the dashboard's numbers may contradict each other,
  by the number of commits in between.
* `SlipIsWorstUpstream` compares the edge-by-edge derivation with a definition
  over paths: an open milestone's slip is the worst delay upstream along paths
  whose milestones are still open.

### Bounds, and why they are enough

* *Engine.* One key and one keyless record: no statement of the engine relates
  two keys except through the order of a pass and the watermark, which the
  keyless record and the versions of one key exercise (and the theorems cover
  any number of keys and sources). Three or four raw records make every pairwise case of
  `_decide`: later, earlier, same instant with either hash, same hash.
  `MaxYield = 2` bounds the records of one pass, the number of passes is
  unbounded. `Attempts = 2` has a retry and an exhaustion; the default of the code
  is 4.
* *Tickets.* Four issues in pages of two, two requests per window of three ticks,
  two tries per page, two edits: a pass needs two or more requests, so the quota
  binds inside a pass, and a pass can be throttled and exhausted after its first
  page. Longer schedules and bigger quotas repeat these cases.
* *HubSpot.* One contact and two deals, one per page, so a listing of deals has
  more than one page; a page can come empty before, between and after them
  (`MaxEmpty = 2`; with 1, no page could come empty after a full one); three
  edits, which suffice for a contact, its deal and a change of either.
* *Intake.* Two rows, three changes, two times and a text on either side of them.
  The first row takes every way of naming itself, of being stamped and of sending
  each kind of field, the status in each shape and an unreadable assignee, one
  deviation from the plain row at a time; the second is
  there to move the watermark, to come late, to go unseen or to be refused. Three
  changes are enough for both rows to appear and one of them to be renamed or
  to turn malformed, or for one row to go wrong and be sound again. The operator's
  moves (`DeclareSpelling`, `ResetCursor`, `Drain`) are not bounded.
* *Dashboard.* One key and one record without a key; `MaxCommits = 3` commits are
  counted during a look, after which the count stands still and `TornByCommits`
  says nothing; the passes go on, so `FunnelAddsUp` and `CreatedAreRecords` cover
  looks of any length.
* *Milestones.* Three milestones have chains, diamonds' halves, forks, joins,
  two- and three-cycles; a milestone that waits for itself is included. Rows are
  due today, due later, or done late, with single plans for an early finish, a
  missing date and an unknown predecessor; three days cross every boundary of the
  rows.

`MaxYield`, `MaxEdits`, `MaxEmpty`, `MaxCommits`, `LastStamp`, `LastDay` and
`MaxLoads` are bounds of the models, not of the code. `MaxEmpty` is more: a server that hands out fresh
tokens with empty pages for ever would keep the client for ever, and nothing in
the client prevents it.

### Fairness

* `SyncEngine!FairSpec`: weak fairness of the engine's own steps together: one
  thread, no waits but bounded sleeps. It does not exclude crashes.
* `SyncEngine!DrainingSpec` adds what `QueueDrains` is conditional on, an
  *operator who keeps draining* (strong fairness of `StartDrain`) and a
  dependency that does not fail on the same record, and a machine that does not
  crash on it, every time (strong fairness of each record's success and of its
  `Resolve`). The code promises neither; the property says what it does when
  granted both.
* `TicketFetch!FairSpec`: the client runs when it can, and time passes.
* `HubSpotSync!FairSpec`: a request is answered, refused or given up in the end
  (the live transport has a timeout).

`MilestonePlan` is a script's straight run, `Intake` asks what can be lost and
`OpsMetrics` only looks: the three state no liveness.

### Disagreements with the documentation

Four have a run of their own that ends in a counterexample; `PROJECT.json` quotes
the sentences.

1. `Overwrite`. A newer version of a key exhausts its retries, then an older one
   of the same key does: `add_dead_letter` keeps the later failure, the newer
   payload is gone from the queue, and the watermark has passed it. The engine's
   docstring says nothing is silently dropped. (`AccountedUnlessReplaced` is what
   does hold.)
2. `BareDrain`. The runbook drains the queue with an engine built without
   projectors: a ticket lands as activity and ledger row, without its tickets
   row, and being unchanged from then on never gets it. `sync_engine.py:75-77` says
   that a projection "either commits with the activity, the ledger, and the audit
   row, or not at all".
3. `RenamedTickets`. A ticket whose required field came under an unknown spelling
   is queued with an emptied payload. Declaring the spelling and reprocessing the
   queue, as the runbook says, fails validation for ever. (`RereadRecovers` is
   what does hold: another read of the source lands it.)
4. `FixedPlan`. After a `DependencyCycle`, loading the corrected plan changes
   nothing: loading adds dependencies and never removes one.

Four more show in how a property had to be stated:

* The conflict path returns before the drift lines are recorded, so a rename first
  seen on a stale record is not in the trail, where `README.md:149` says every
  resolution is. `DriftRecorded` speaks of the records that won.
* A 2xx answer whose body is not JSON (a proxy's page, a truncated body) is read as
  an empty page without a token, which is how a listing ends: the pass succeeds
  and the watermark moves past what was never listed. `README.md:323` says a
  short listing raises. `WatermarkCoversUnlessCut` excepts passes cut off so.
* A required column can land blank although a value was sent. `status` is flattened by
  `_named` (`ticket_source.py:265-272`), which returns an empty text for an object with
  none of the keys `name`, `value`, `displayName`, `id`: `{"label": "Open"}` counts as
  present, is taken out of `unmapped_json` and lands as a blank status, of an open
  ticket. `README.md:206` says a text that became an object is flattened and `:207` that
  what is not recognized is kept, `README.md:221-223` and `ticket_source.py:330-333` that no empty string is written for
  a required field, `RUNBOOK.md:275` that the drift is "already handled". A required
  field that is sent empty lands blank too. `LandedKeepsEverything` excepts the first
  (`"opaque"`), `BlankOnlyIfSentBlank` both; what they leave is that no value gets lost
  through a rename, and that a field which is missing is never defaulted.
* A deal that was dead-lettered because its contact was missing does not land once
  contacts are synced: the deals watermark may have passed it, and its source has no
  rebuilder, so draining skips it. `ResetLandsDeals` says what does bring it back:
  a pass that starts from a reset cursor, unless the deal's write exhausts its retries
  there, and then it is in the queue for that and needs another.

### Mutants

A definition named `Bug_X` is a plausible mistake in the definition `X` below it:
a dropped guard, a wrong order of comparison, a transaction split in two. No
behaviour uses it. Put in place of `X` it makes TLC report the property that
`PROJECT.json` pairs with it, for every property of every passing run; so none of
them holds merely by the shape of the model.

## What is proved

Every invariant and every action property that a passing run checks is also a
theorem, for every value of the constants that satisfies the named assumptions of
its module. TLC evaluates those on its instances.

| Module | What is assumed of the constants |
|---|---|
| `SyncEngine` | `SlotsAssumption`: keys and digests are disjoint and have a source. `RawAssumption`: raw records have their type, a valid one has a time and a hash. `HashAssumption`: equal hashes, equal content. `AttemptsAssumption`: at least one try |
| `OpsMetrics` | those, and `MaxCommitsAssumption`: a look counts at least one commit |
| `Intake` | `IntakeAssumption`: rows have their shape, what parses is a time, only tickets have a field contract, only a field with a coercion cares for the shape of its value |
| `TicketFetch` | `FetchAssumption`: issues, page size, quota, window and tries are positive |
| `HubSpotSync` | `HubSpotAssumption`: page size and tries are positive, deals name contacts that the portal may hold |
| `MilestonePlan` | `PlanAssumption`: finitely many milestones, plan files and boards that have their types |

| Theorem | Invariant it rests on |
|---|---|
| `RegisterHoldsLatest`: the register holds the latest version offered | its type |
| `TypeCorrect` | `ProcInv`: `TypeOK`; an open row holds a record of its own slot, under a category that fits; the job at hand is sound; what a drain still has to do comes from such rows |
| `LedgerNeverDiverges`, `EngineRefinesRegister`, `EngineShowsLatest` | `RegInv`: `ProcInv`; ledger and activity agree; nothing applied is later than what is shown; what is shown was applied |
| `AuditReplaysAlways` | the write of a ledger row and the appending of its audit row are one step (`AppendReplays`) |
| `AuditedOnceAlways`, `DriftRecordedAlways`, `RedeliveryWritesNothing` | `DriftInv`: `RegInv` with both drift properties |
| `ProjectionsAgree` | an additional hypothesis: the engine that drains carries the projectors (`DrainProjects`), without which `BareDrain` refutes it |
| `AccountedAlways` | `SafeInv`: `RegInv`; every record already handled in the current pass (`Settled`) is in the CRM or in the queue or replaced or retired |
| `CursorAlwaysEarned`, `CursorMonotone` | `CursorInv`: the watermark-to-be stands on a record that was handled, and is no lower than the stored one |
| `KeylessAlwaysWaits` | `KeylessInv`: rows of digests keep the keyless category, and no job comes from one |
| `FunnelAlwaysAddsUp`, `NeverMoreCreatedThanRecords` | `FunnelInv`: `RegInv`, `AuditReplays`; every row of the queue has one of the categories the funnel counts; no write leaves an empty hash; finitely many keys were met so far. `LookInv`: between its two SELECTs, a look holds no more created rows of a source than the source has records by now |
| `TornOnlyByCommits` | `TornInv`: were the rest of the look read now, its numbers would differ by no more than the commits so far |
| `IntakeTyped`, `EverythingIsKept`, `NothingIsDefaulted` | `StoreInv`: types; whatever is in the CRM or queued was once read off a row its source can send, and reading that row again, under a contract that learnt spellings since, accepts what it accepted then |
| `NothingEverVanishes` | `VanishInv`: `StoreInv`; a row the running pass has behind it is in the CRM, queued, or late |
| `OneIdentityAlways` | an issue that was always sent under a declared key has nothing under its internal id, in the CRM or the queue |
| `RereadAlwaysRecovers` | `RecoveryInv`: `StoreInv`; in a pass from a reset watermark, what has been read so far has recovered and the rest will still be read |
| `RenamesRewriteNothing` | `StoreInv`: the row a landed record came from is compared with the row read now |
| `FetchTyped`, `QuotaHolds` | `FetchInv`: types; the bucket, pruned, is what was admitted in the last window, oldest first, and within the quota; a sleep has a try left after it; no watermark is ahead of the stamps given out |
| `RetryAfterSuffices` | `FetchInv` and `SleepSuffices`: what is left of an advised sleep is no less than what the oldest stamp needs to age out, and a place is free until the client asks |
| `PassesConverge` | `ScanInv`: the store has the current version of every issue the pass asked for on the pages before the present one |
| `HubSpotTyped` | `HubSpotInv`: types, table by table; no version is newer than the last edit |
| `WatermarksCover` | `CoverInv`: what the pass has read past the watermark is in the CRM or queued, or cut off |
| `WholePassLandsDeals` | `LandInv`: in a pass from a reset watermark, every deal behind it whose contact was synced has landed, or is queued for a write that exhausted its retries |
| `PlanTyped`, `PlacedAfterParents`, `StuckOnCyclesOnly`, `LateAreFlaggedOnce` | `PlanInv`: `indegree` counts the predecessors not yet placed, a milestone is placed or waits in the queue exactly when all its parents are placed; the views derived so far are those of the front of the order, each what the rule says of the views before it |
| `SlipsNeverHeal` | `LastInv`: the plan looked at last obeys the slip rule, for a day that is not in the future |
| `SlipIsTheWorst` | `PlanInv`, and `WorstIsPassedOn`: a milestone's slip is the worst over the paths that end in it |

Why the strengthenings. `ImplementsRegister` is not inductive: the step that
compares an incoming record with `activity` makes the right choice only when
the ledger agrees with it (`LedgerMatchesActivity`), and the skip on an equal hash
is a stutter of the register only if what is shown has the hash's content
(`HashAssumption`). `AccountedUnlessReplaced` speaks of finished passes; the
invariant must already hold for the unfinished one, record by record, so that
`FinishRun` merely hands `Settled` over to `owed`. The same shape serves
`NothingVanishes`, `ScanConverges`, `WatermarkCoversUnlessCut`, `ResetLandsDeals` and
`RereadRecovers`: each speaks of a pass that has ended, and is proved from what the
pass has behind it at each moment. `TornByCommits` speaks of a look that is
complete; its invariant says of every incomplete one what it would show if it were
completed on the spot, and that one commit moves each number by one at most.

`CycleIffStuck` needs both directions of the counting. If the queue runs dry with
milestones unplaced, the count of each is above zero, so each waits for another of
them: that set is the cycle. If there is a cycle, no member of it can be the first
to be placed. `SlipIsWorstUpstream` relates a derivation, edge by edge along the
order, to a definition over paths. It is proved for the milestone that comes
first in the order among those for which it might fail: its parents come
before it, so it holds of them, and a path that ends in it is a path that ends in a
parent, one edge longer.

Induction is out of the prover's reach, because the library's induction theorems
take an operator as a parameter. Where an argument wants it, a least element does
instead: the least index of a sequence, a minimal finite subset, the greatest of a
bounded set of numbers (`LeastExists`, `MinimalSubset`, `GreatestExists`), each
from the library's well-founded orderings.

Each proof has one step per action, and shared facts are lemmas: `WriteIffLater`
(the engine's three-way decision is the register's order), `ShownStays` (what is
shown never gets older), `HeldStays` and `QueueMoves` (how a row can lose what it
holds), `CursorMoves`, `OneKeyAtATime` and `NumbersMove` (what a commit can move).

The dashboard's specification implies the engine's (`OnlyReads`), so every theorem
about the engine holds while somebody watches, and the funnel's theorems build on
them. They need no assumption that keys are finitely many: counting makes sense
because only finitely many were met, and that is part of the invariant.

Only model-checked: liveness, which is `PassesEnd`, `QueueDrains` and the two
`PassEnds`. Each is a temporal property under fairness, and the prover has no rule
for `ENABLED`. Beyond the four runs that end in a counterexample, nothing else is.

## Not modelled

* The text of the records: which malformed date or address `normalize` rejects,
  the parsing of the file formats. A record is valid or it is not.
* Names of contacts and accounts. A contact's name follows the order of arrival
  (`crm_store.py:223`); the model keeps only which contacts exist.
* In the ticket contract, which key of an object its value was found under, and the
  wording of drift notes; an object in a field without a coercion is kept as the text
  of it, which the model does not tell from any other value. In the CRM exports, entries
  that are not objects: the reader skips them, and its docstring says so
  (`crm_import_source.py:35-37`).
* A ticket board, or a HubSpot portal, that changes between two pages of a pass: with
  offsets that would skip issues and the watermark pass them. The endpoint and the
  recordings in the repository cannot do that; a live service could.
* Two engines on one file. The runbook forbids it, and SQLite would serialise
  the transactions but not the passes.
* Times the store keeps beside its rows: when a dead-letter row was first seen
  survives its being closed and opened again (`crm_store.py:580`), which only
  its reported age shows.
* Of `ops_metrics.py`, ages and bands, the buckets of activity, sums of amounts and
  the lag of a cursor: arithmetic on text, over rows the models have.
* Rendering (dashboard and report), the demo scripts, the data generator and
  logging, which keep no state of the system.

## Plan

Done, in this order: the register, the engine and its theorems; the ticket client;
the plan and its rules; the HubSpot client; the intake of rows; the dashboard's
numbers and their theorems; the theorems about intake, the ticket client, the HubSpot
client, the plan, and a torn look.

Next: *composition*. HubSpot's `Consume`, the ticket client's `handled` and Intake's
reads as refinements of one pass of `SyncEngine`, so that the engine's theorems
apply to them in place of the abstraction each makes of the engine.
