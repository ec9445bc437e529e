---------------------------------- MODULE Intake ----------------------------------
(***************************************************************************)
(* What stands between a source and the engine: the readers' filters       *)
(* (calendar_source.py, email_source.py, crm_import_source.py), the ticket *)
(* contract with its aliases and required fields (ticket_source.py), the   *)
(* validation boundary (normalize.py), and what a dead-letter row keeps of *)
(* a record that the drain will get to see again (pipeline.py).            *)
(*                                                                         *)
(* SyncEngine takes a raw record as given; here it is made, from a row of  *)
(* the source whose shape may change between two passes.  In exchange the  *)
(* engine is cut down to what one record does: land, lose, or be queued.   *)
(*                                                                         *)
(* Bug_X is a plausible mistake in X; no behaviour uses it.                *)
(***************************************************************************)
EXTENDS Naturals, FiniteSets

CONSTANTS
  Kind,       \* the kinds of source checked, of "calendar", "email",
              \* "crm_import" and "tickets"
  Id,         \* the issues, events, messages or rows of the source
  Feed(_, _), \* the shapes in which a kind of source can send a row
  None,       \* no row
  MaxEdits,   \* bound: how often the source's rows change
  LastStamp   \* bound: the latest event time

Required == {"summary", "status", "updated"}
Optional == {"assignee", "due"}
Field    == Required \union Optional

(* Fields whose spec flattens an object to text; of any other field, an    *)
(* object is kept as the text of it, a value like any other.               *)
Coerced == {"status", "assignee"}

(* How a ticket sends a field: as the contract expects it, under a declared*)
(* alias, as an object where text is expected or as text where an object   *)
(* is ("reshaped"), as an object with none of the keys its coercion looks  *)
(* under ("opaque"), under a declared spelling without a value ("null"),   *)
(* with the expected spelling empty while the value sits under an alias    *)
(* ("half": a rename under way), under a spelling the contract learns only *)
(* when the operator declares it ("moved"), or not at all.                 *)
Sending == {"first", "alias", "reshaped", "opaque", "null", "half", "moved", "gone"}

(* How a row names itself: as expected, under a declared alias, under an   *)
(* unknown spelling beside the tracker's internal id, or not at all.       *)
Naming == {"key", "alias", "id", "none"}

(* A stamp is its place among the times and texts that the readers compare,*)
(* 0 sorting before every time; `parses` tells a time from mere text, and  *)
(* `absent` a missing stamp from an empty one.                             *)
Stamp == [rank : 0..LastStamp + 1, parses : BOOLEAN, absent : BOOLEAN]
Row   == [name : Naming, stamp : Stamp, addressed : BOOLEAN, sent : [Field -> Sending]]

(* Only the ticket source has a field contract to send fields under.  Only *)
(* of a field with a coercion does it matter which shape the value has.    *)
ASSUME IntakeAssumption ==
  /\ Kind \subseteq {"calendar", "email", "crm_import", "tickets"}
  /\ {MaxEdits, LastStamp} \subseteq Nat
  /\ \A k \in Kind, i \in Id : Feed(k, i) \subseteq Row /\ None \notin Feed(k, i)
  /\ \A k \in Kind, i \in Id : \A r \in Feed(k, i) :
       /\ r.stamp.parses => r.stamp.rank \in 1..LastStamp /\ ~r.stamp.absent
       /\ k # "tickets" => r.sent = [f \in Field |-> "first"]
       /\ \A f \in Field \ Coerced : r.sent[f] \notin {"reshaped", "opaque"}

VARIABLES
  kind,     \* which source this is
  rows,     \* its rows
  contract, \* fields whose new spelling the operator has declared
  cursor,   \* the watermark, 0 for NULL
  running,  \* is a pass under way?
  todo,     \* rows the pass has still to read
  maxSeen,  \* the watermark-to-be
  crm,      \* what landed under each identity, with the row it came from
  queue,    \* open dead-letter rows: identity, stored payload, row it came from
  edits,    \* changes of rows so far
  \* history, read by the properties only
  late,     \* rows that came with a stamp the watermark had passed
  reread,   \* progress of a pass from a reset watermark since the last change
  wandered  \* issues that were sent under no declared spelling of their key

vars == <<kind, rows, contract, cursor, running, todo, maxSeen, crm, queue,
          edits, late, reread, wandered>>
history == <<late, reread, wandered>>

---------------------------------------------------------------------------
(* The ticket contract: resolve_key(), resolve_fields(), _to_raw().        *)

Bug_Identity(i, r) ==
  IF r.name \in {"alias", "id"} THEN <<i, "id">> ELSE <<i, r.name>>

(* The first spelling of the key that has a value; the internal id is the  *)
(* last alias.  A row without any gets a digest for its queue row.         *)
Identity(i, r) == <<i, CASE r.name \in {"key", "alias"} -> "key"
                         [] r.name = "id"               -> "id"
                         [] r.name = "none"             -> "none">>

Identities == Id \X {"key", "id", "none"}

Undeclared(r) == {f \in Field : r.sent[f] = "moved"} \ contract

Bug_Missing(r) == {}

(* Required fields that are under no declared spelling: presence counts,   *)
(* not the value.                                                          *)
Missing(r) ==
  {f \in Required : r.sent[f] = "gone" \/ f \in Undeclared(r)}

(* The first declared spelling that is present decides, value or not.  The *)
(* coercion makes the same text of either shape, and an empty one of an    *)
(* object it cannot read.                                                  *)
Columns(r) ==
  [f \in Field |->
     IF \/ r.sent[f] \in {"first", "alias", "reshaped"}
        \/ r.sent[f] = "moved" /\ f \in contract
     THEN "value" ELSE "blank"]

Bug_Unmapped(r)        == Undeclared(r)
Bug_UnmappedAliases(r) == {f \in Field : r.sent[f] \in {"alias", "half"}} \union Undeclared(r)

(* Whatever lies under a spelling that no field took is kept aside.  An    *)
(* object that flattened to nothing was taken, and is not.                 *)
Unmapped(r) == {f \in Field : r.sent[f] = "half"} \union Undeclared(r)

NoStamp == [rank |-> 0, parses |-> FALSE, absent |-> TRUE]

(* The raw record a reader yields.  A ticket that lacks a required field   *)
(* is yielded with an emptied payload; one whose `updated` is blank has no *)
(* event time, whatever else it carries, and one whose assignee is blank   *)
(* no address.                                                             *)
Read(i, r) ==
  IF kind = "tickets" /\ Missing(r) # {}
  THEN [id |-> Identity(i, r), stamp |-> NoStamp, addressed |-> FALSE,
        columns |-> [f \in Field |-> "blank"], unmapped |-> {}]
  ELSE [id |-> Identity(i, r),
        stamp |-> IF Columns(r)["updated"] = "blank" THEN NoStamp ELSE r.stamp,
        addressed |-> r.addressed /\ Columns(r)["assignee"] = "value",
        columns |-> Columns(r), unmapped |-> Unmapped(r)]

---------------------------------------------------------------------------
(* The readers' filters: what is strictly after the watermark.             *)

(* The endpoint looks for a value under its own list of spellings, which   *)
(* no declaration extends; without one it compares an empty text.          *)
EndpointRank(r) ==
  IF r.sent["updated"] \in {"first", "alias", "half"} THEN r.stamp.rank ELSE 0

(* The stamp a reader holds against the watermark, if it does.             *)
Compares(r) ==
  CASE kind \in {"calendar", "email"} -> r.stamp.parses
    [] kind = "crm_import"            -> ~r.stamp.absent
    [] kind = "tickets"               -> TRUE

Compared(r) == IF kind = "tickets" THEN EndpointRank(r) ELSE r.stamp.rank

Bug_Yields(r) == cursor = 0 \/ Compared(r) > cursor
Yields(r) == cursor = 0 \/ ~Compares(r) \/ Compared(r) > cursor

---------------------------------------------------------------------------
Bug_Accepts(raw) == raw.id[2] # "none" /\ raw.addressed

(* normalize(): a key, an event time that parses, an address.              *)
Accepts(raw) == raw.id[2] # "none" /\ raw.stamp.parses /\ raw.addressed

NoRecord == [raw |-> None, row |-> None]

(* Last write wins by event time.  Which of two contents of one instant    *)
(* has the greater hash is not known here: either may.                     *)
StoredRank(id) == IF crm[id] = NoRecord THEN 0 ELSE crm[id].raw.stamp.rank

MayWin(raw) ==
  raw # crm[raw.id].raw /\ raw.stamp.rank >= StoredRank(raw.id)

MayLose(raw) ==
  /\ crm[raw.id] # NoRecord
  /\ raw = crm[raw.id].raw \/ raw.stamp.rank <= StoredRank(raw.id)

Land(raw, r) ==
  \/ MayWin(raw) /\ crm' = [crm EXCEPT ![raw.id] = [raw |-> raw, row |-> r]]
  \/ MayLose(raw) /\ UNCHANGED crm

Entry(raw, r) == [raw |-> raw, row |-> r]

(* One row per identity, the later failure replacing the earlier; keyless  *)
(* records each have a row of their own.                                   *)
Enqueue(raw, r) ==
  queue' = {e \in queue : e.raw.id # raw.id \/ raw.id[2] = "none"}
             \union {Entry(raw, r)}

---------------------------------------------------------------------------
Init ==
  /\ kind \in Kind
  /\ rows = [i \in Id |-> None]
  /\ contract = {} /\ cursor = 0
  /\ running = FALSE /\ todo = {} /\ maxSeen = 0
  /\ crm = [id \in Identities |-> NoRecord]
  /\ queue = {}
  /\ edits = 0
  /\ late = {} /\ reread = "no" /\ wandered = {}

(* The source gets a row, or sends it in another shape.                    *)
Put(i, r) ==
  /\ ~running /\ edits < MaxEdits
  /\ rows[i] # r
  /\ rows' = [rows EXCEPT ![i] = r]
  /\ edits' = edits + 1
  /\ late' = IF cursor > 0 /\ Compares(r) /\ Compared(r) <= cursor
             THEN late \union {i} ELSE late \ {i}
  /\ wandered' = IF r.name = "id" THEN wandered \union {i} ELSE wandered
  /\ reread' = "no"
  /\ UNCHANGED <<kind, contract, cursor, running, todo, maxSeen, crm, queue>>

Bug_StartPass ==
  /\ ~running
  /\ running' = TRUE
  /\ todo' = {i \in Id : /\ rows[i] # None /\ Yields(rows[i])
                         /\ \A e \in queue : e.raw.id # Identity(i, rows[i])}
  /\ maxSeen' = cursor
  /\ reread' = IF cursor = 0 /\ reread = "no" THEN "running" ELSE reread
  /\ UNCHANGED <<kind, rows, contract, cursor, crm, queue, edits, late, wandered>>

StartPass ==
  /\ ~running
  /\ running' = TRUE
  /\ todo' = {i \in Id : rows[i] # None /\ Yields(rows[i])}
  /\ maxSeen' = cursor
  /\ reread' = IF cursor = 0 /\ reread = "no" THEN "running" ELSE reread
  /\ UNCHANGED <<kind, rows, contract, cursor, crm, queue, edits, late, wandered>>

Handled(i) ==
  /\ running /\ i \in todo
  /\ todo' = todo \ {i}
  /\ late' = late \ {i}
  /\ UNCHANGED <<kind, rows, contract, cursor, running, edits, reread, wandered>>

Reading(i) == Read(i, rows[i])

Seen(i) ==
  maxSeen' = IF Reading(i).stamp.rank > maxSeen THEN Reading(i).stamp.rank ELSE maxSeen

ReadPoison(i) ==
  /\ Handled(i)
  /\ ~Accepts(Reading(i))
  /\ Enqueue(Reading(i), rows[i])
  /\ UNCHANGED <<maxSeen, crm>>

ReadSound(i) ==
  /\ Handled(i)
  /\ Accepts(Reading(i))
  /\ Land(Reading(i), rows[i])
  /\ Seen(i)
  /\ UNCHANGED queue

(* The write keeps failing: queued with its whole payload, and passed.     *)
ReadFailing(i) ==
  /\ Handled(i)
  /\ Accepts(Reading(i)) /\ MayWin(Reading(i))
  /\ Enqueue(Reading(i), rows[i])
  /\ Seen(i)
  /\ UNCHANGED crm

EndPass ==
  /\ running /\ todo = {}
  /\ running' = FALSE /\ maxSeen' = 0
  /\ cursor' = maxSeen
  /\ reread' = IF reread = "running" THEN "done" ELSE reread
  /\ UNCHANGED <<kind, rows, contract, todo, crm, queue, edits, late, wandered>>

Crash ==
  /\ running
  /\ running' = FALSE /\ todo' = {} /\ maxSeen' = 0
  /\ reread' = IF reread = "running" THEN "no" ELSE reread
  /\ UNCHANGED <<kind, rows, contract, cursor, crm, queue, edits, late, wandered>>

(* The drain hands normalize() the stored payload, not the source's row;   *)
(* a payload it refuses again stays as it is.                              *)
Drain(e) ==
  /\ ~running /\ e \in queue
  /\ Accepts(e.raw)
  /\ Land(e.raw, e.row)
  /\ queue' = queue \ {e}
  /\ UNCHANGED <<kind, rows, contract, cursor, running, todo, maxSeen, edits, history>>

(* The operator finds the new spelling of a field that some row may use,   *)
(* and adds it to the field's aliases.                                     *)
DeclareSpelling(f) ==
  /\ ~running /\ kind = "tickets"
  /\ f \in Field \ contract
  /\ \E i \in Id : \E r \in Feed(kind, i) : r.sent[f] = "moved"
  /\ contract' = contract \union {f}
  /\ reread' = "no"
  /\ UNCHANGED <<kind, rows, cursor, running, todo, maxSeen, crm, queue, edits,
                 late, wandered>>

ResetCursor ==
  /\ ~running /\ cursor > 0
  /\ cursor' = 0
  /\ UNCHANGED <<kind, rows, contract, running, todo, maxSeen, crm, queue, edits, history>>

Next ==
  \/ \E i \in Id : \/ \E r \in Feed(kind, i) : Put(i, r)
                   \/ ReadPoison(i) \/ ReadSound(i) \/ ReadFailing(i)
  \/ StartPass \/ EndPass \/ Crash \/ ResetCursor
  \/ \E e \in queue : Drain(e)
  \/ \E f \in Field : DeclareSpelling(f)

Spec == Init /\ [][Next]_vars


---------------------------------------------------------------------------
(* What must hold.                                                         *)

RawRecord ==
  [id : Identities, stamp : Stamp \union {NoStamp}, addressed : BOOLEAN,
   columns : [Field -> {"value", "blank"}], unmapped : SUBSET Field]

(* Types of the variables: a watermark is the time of a sound record, and  *)
(* only sound records land.                                                *)
TypeOK ==
  /\ kind \in Kind
  /\ \A i \in Id : rows[i] = None \/ rows[i] \in Row
  /\ contract \subseteq Field
  /\ cursor \in 0..LastStamp /\ maxSeen \in 0..LastStamp
  /\ running \in BOOLEAN /\ todo \subseteq Id
  /\ \A id \in Identities : crm[id] # NoRecord =>
       crm[id].raw \in RawRecord /\ Accepts(crm[id].raw) /\ crm[id].raw.id = id
  /\ \A e \in queue : e.raw \in RawRecord
  /\ edits \in 0..MaxEdits
  /\ late \subseteq Id /\ wandered \subseteq Id
  /\ reread \in {"no", "running", "done"}

(* Has the row been dealt with: is this very row queued, or does the CRM   *)
(* show it or something of no earlier time?                                *)
Shown(i) ==
  /\ Accepts(Reading(i))
  /\ crm[Reading(i).id] # NoRecord
  /\ crm[Reading(i).id].raw.stamp.rank >= Reading(i).stamp.rank

Queued(i) == \E e \in queue : e.row = rows[i] /\ e.raw.id = Reading(i).id

(* "Malformed rows survive as raw records for the engine to dead-letter"   *)
(* (crm_import_source.py:10, calendar_source.py:8-9), and so does          *)
(* everything else: a row is still ahead of the reader, or was dealt with, *)
(* unless it came with a stamp, or a text read as one, that the watermark  *)
(* had passed.  A calendar or mail entry without a usable date is never in *)
(* that last case; a CRM row or ticket whose stamp is text can be.         *)
NothingVanishes ==
  \A i \in Id : rows[i] # None =>
    Yields(rows[i]) \/ Shown(i) \/ Queued(i) \/ i \in late

(* A value that a landed ticket was sent with is in its column or among    *)
(* its unmapped fields, through renames, half-finished ones, spellings     *)
(* declared later and changes of shape, with one exception: an object with *)
(* none of the keys that its field's coercion looks under is taken, and    *)
(* flattened to an empty text, so it is in neither (ticket_source.py:265,  *)
(* 353, 373).  README.md:206-207 and RUNBOOK.md:275 make no such exception.*)
LandedKeepsEverything ==
  \A id \in Identities : crm[id] # NoRecord =>
    \A f \in Field : crm[id].row.sent[f] \notin {"null", "gone"} =>
      \/ crm[id].raw.columns[f] = "value"
      \/ f \in crm[id].raw.unmapped
      \/ crm[id].row.sent[f] = "opaque"

(* A required field that came under no spelling the contract knew is never *)
(* landed blank, whatever was declared since and however late its ticket   *)
(* was drained: where one is blank, a declared spelling was there, and     *)
(* empty or an object the coercion cannot read.  "A missing required field *)
(* is dead-lettered rather than defaulted" (README.md:221-223) holds of    *)
(* the field, then, not of its value; ticket_source.py:330-333 warns of a  *)
(* connector that "quietly writes an empty string".                        *)
BlankOnlyIfSentBlank ==
  \A id \in Identities : crm[id] # NoRecord =>
    \A f \in Required : crm[id].raw.columns[f] = "blank" =>
      crm[id].row.sent[f] \in {"null", "half", "opaque"}

(* An issue lands under two identities only after the source sent it under *)
(* no declared spelling of its key, its internal id standing in            *)
(* (ticket_source.py:304-308).                                             *)
OneIdentity ==
  \A i \in Id \ wandered :
    crm[<<i, "key">>] = NoRecord \/ crm[<<i, "id">>] = NoRecord

(* After one pass from a reset watermark, whatever the queue still holds,  *)
(* every row the present contract accepts is in the CRM, or queued whole   *)
(* for a write that failed: the way back that works for a ticket whose     *)
(* dead-letter row was emptied.                                            *)
RereadRecovers ==
  reread = "done" =>
    \A i \in Id : rows[i] # None /\ Accepts(Reading(i)) =>
      Shown(i) \/ \E e \in queue : e.raw = Reading(i)

(* The row but for which declared spelling and which shape it uses.        *)
Values(r) ==
  [r EXCEPT !.name = "key",
            !.sent = [f \in Field |-> IF @[f] \in {"alias", "reshaped"}
                                      THEN "first" ELSE @[f]]]

(* "A rename alone never rewrites your rows" (RUNBOOK.md:290): what landed *)
(* is replaced only when a value changed or a field went to, or came back  *)
(* from, a spelling the contract did not know.  Nor does text that became  *)
(* an object, or the reverse.                                              *)
RenameRewritesNothing ==
  [][\A id \in Identities :
       crm[id] # NoRecord /\ crm'[id] # crm[id] =>
         \/ Values(crm[id].row) # Values(crm'[id].row)
         \/ \E f \in Field : crm'[id].row.sent[f] = "moved"]_vars

(* What RUNBOOK.md:285-288 says of a ticket queued for a missing field:    *)
(* add the new spelling to its aliases "and reprocess the queue.  Nothing  *)
(* was lost in the meantime".  So what the contract has come to accept, the*)
(* drain must accept.                                                      *)
ReprocessLandsRenamed ==
  \A e \in queue : Accepts(Read(e.raw.id[1], e.row)) => Accepts(e.raw)

=============================================================================
