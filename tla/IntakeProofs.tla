------------------------------- MODULE IntakeProofs -------------------------------
(* Theorems about the way of a row into the CRM, for every feed of rows,   *)
(* every kind of source and any number of issues.                          *)
EXTENDS Intake, TLAPS

---------------------------------------------------------------------------
(* What a reader makes of a row.                                           *)

(* The value a row sent is in its column or among the unmapped fields, but *)
(* for an object that its coercion cannot read; a required column is blank *)
(* only where the row sent that, or a declared spelling without a value.   *)
KeepsAll(e) ==
  \A f \in Field : e.row.sent[f] \notin {"null", "gone"} =>
    \/ e.raw.columns[f] = "value"
    \/ f \in e.raw.unmapped
    \/ e.row.sent[f] = "opaque"

BlankAsSent(e) ==
  \A f \in Required : e.raw.columns[f] = "blank" =>
    e.row.sent[f] \in {"null", "half", "opaque"}

Moved(r) == \E f \in Field : r.sent[f] = "moved"

(* A record that was read some time ago, under a contract that may have    *)
(* learnt spellings since: reading its row again accepts what it accepted  *)
(* then, under the same key and time, and gives the same record unless a   *)
(* field was under an unknown spelling.                                    *)
Origin(e) == e.raw.id[1]

EntrySound(e) ==
  /\ Origin(e) \in Id /\ e.row \in Feed(kind, Origin(e)) /\ e.raw \in RawRecord
  /\ e.raw.id = Identity(Origin(e), e.row)
  /\ Accepts(e.raw) =>
       /\ Accepts(Read(Origin(e), e.row))
       /\ Read(Origin(e), e.row).stamp = e.raw.stamp
       /\ KeepsAll(e) /\ BlankAsSent(e)
  /\ ~Moved(e.row) => e.raw = Read(Origin(e), e.row)

LEMMA FeedRow ==
  ASSUME kind \in Kind, NEW i \in Id, NEW r \in Feed(kind, i)
  PROVE  /\ r \in Row /\ r # None
         /\ kind \in {"calendar", "email", "crm_import", "tickets"}
         /\ r.stamp \in Stamp
         /\ r.stamp.parses => r.stamp.rank \in 1..LastStamp /\ ~r.stamp.absent
         /\ r.sent \in [Field -> Sending] /\ r.name \in Naming /\ r.addressed \in BOOLEAN
         /\ kind # "tickets" => r.sent = [f \in Field |-> "first"]
<1>1. r \in Row /\ r # None
  BY IntakeAssumption
<1> QED
  BY <1>1, IntakeAssumption DEF Row

LEMMA IdentityOfRow ==
  ASSUME NEW i \in Id, NEW r \in Row
  PROVE  /\ Identity(i, r) \in Identities
         /\ Identity(i, r)[1] = i
         /\ Identity(i, r)[2] = "id" <=> r.name = "id"
<1>1. r.name \in Naming
  BY DEF Row
<1> QED
  BY <1>1 DEF Identity, Identities, Naming

LEMMA ReadTyped ==
  ASSUME kind \in Kind, NEW i \in Id, NEW r \in Feed(kind, i)
  PROVE  Read(i, r) \in RawRecord /\ Read(i, r).id = Identity(i, r)
<1>1. r.stamp \in Stamp /\ r.addressed \in BOOLEAN /\ Identity(i, r) \in Identities
  BY FeedRow, IdentityOfRow
<1>2. Columns(r) \in [Field -> {"value", "blank"}] /\ Unmapped(r) \in SUBSET Field
  BY DEF Columns, Unmapped, Undeclared
<1> QED
  BY <1>1, <1>2 DEF Read, RawRecord

(* A reading that is accepted was not emptied.                             *)
LEMMA AcceptedReading ==
  ASSUME kind \in Kind, NEW i \in Id, NEW r \in Feed(kind, i), Accepts(Read(i, r))
  PROVE  /\ kind = "tickets" => Missing(r) = {}
         /\ Columns(r)["updated"] = "value" /\ Columns(r)["assignee"] = "value"
         /\ Read(i, r) = [id |-> Identity(i, r), stamp |-> r.stamp,
                          addressed |-> r.addressed, columns |-> Columns(r),
                          unmapped |-> Unmapped(r)]
<1>1. Columns(r)["updated"] \in {"value", "blank"}
  BY DEF Columns, Field, Required
<1>2. r.addressed \in BOOLEAN
  BY FeedRow
<1>3. (r.addressed /\ Columns(r)["assignee"] = "value") = TRUE
  BY DEF Accepts, Read
<1> QED
  BY <1>1, <1>2, <1>3 DEF Accepts, Read, NoStamp

LEMMA ReadingSound ==
  ASSUME kind \in Kind, NEW i \in Id, NEW r \in Feed(kind, i)
  PROVE  EntrySound(Entry(Read(i, r), r))
<1> DEFINE e == Entry(Read(i, r), r)
<1>1. /\ e.row = r /\ e.raw = Read(i, r) /\ r \in Row
      /\ e.raw \in RawRecord /\ e.raw.id = Identity(i, r) /\ Origin(e) = i
  BY ReadTyped, FeedRow, IdentityOfRow DEF Entry, Origin
<1>2. ASSUME Accepts(e.raw) PROVE KeepsAll(e) /\ BlankAsSent(e)
  <2>1. /\ e.raw.columns = Columns(r) /\ e.raw.unmapped = Unmapped(r)
        /\ kind = "tickets" => Missing(r) = {}
    BY <1>1, <1>2, AcceptedReading
  <2>2. kind # "tickets" => r.sent = [f \in Field |-> "first"]
    BY FeedRow
  <2>3. \A f \in Field : r.sent[f] \in Sending
    BY FeedRow
  <2>4. KeepsAll(e)
    BY <1>1, <2>1, <2>3 DEF KeepsAll, Columns, Unmapped, Undeclared, Sending
  <2>5. BlankAsSent(e)
    BY <1>1, <2>1, <2>2, <2>3
       DEF BlankAsSent, Columns, Missing, Undeclared, Sending, Field
  <2> QED
    BY <2>4, <2>5
<1>3. EntrySound(e)
  <2> HIDE DEF e
  <2> QED
    BY <1>1, <1>2 DEF EntrySound
<1> QED
  BY <1>3

(* The contract only ever learns spellings.                                *)
LEMMA LearningKeepsReadings ==
  ASSUME kind \in Kind, kind' = kind, contract \subseteq contract',
         NEW i \in Id, NEW r \in Feed(kind, i)
  PROVE  /\ Accepts(Read(i, r)) => /\ Accepts(Read(i, r)')
                                   /\ Read(i, r)'.stamp = Read(i, r).stamp
         /\ ~Moved(r) => Read(i, r)' = Read(i, r)
         /\ Read(i, r)'.id = Read(i, r).id
<1>1. ASSUME Accepts(Read(i, r))
      PROVE  /\ Accepts(Read(i, r)')
             /\ Read(i, r)'.stamp = Read(i, r).stamp
  <2>1. /\ kind = "tickets" => Missing(r) = {}
        /\ Columns(r)["updated"] = "value" /\ Columns(r)["assignee"] = "value"
        /\ Read(i, r).stamp = r.stamp /\ Read(i, r).id = Identity(i, r)
        /\ Read(i, r).addressed = r.addressed
    BY <1>1, AcceptedReading
  <2>2. /\ kind = "tickets" => Missing(r)' = {}
        /\ Columns(r)'["updated"] = "value" /\ Columns(r)'["assignee"] = "value"
    BY <2>1 DEF Missing, Columns, Undeclared, Field, Required, Optional
  <2>3. /\ Read(i, r)'.stamp = r.stamp /\ Read(i, r)'.id = Identity(i, r)
        /\ Read(i, r)'.addressed = (r.addressed /\ Columns(r)'["assignee"] = "value")
    BY <2>2 DEF Read
  <2> QED
    BY <1>1, <2>1, <2>2, <2>3 DEF Accepts
<1>2. ASSUME ~Moved(r) PROVE Read(i, r)' = Read(i, r)
  <2>1. Undeclared(r) = {} /\ Undeclared(r)' = {} /\ \A f \in Field : r.sent[f] # "moved"
    BY <1>2 DEF Moved, Undeclared
  <2>2. Missing(r)' = Missing(r) /\ Columns(r)' = Columns(r) /\ Unmapped(r)' = Unmapped(r)
    BY <2>1 DEF Missing, Columns, Unmapped
  <2> QED
    BY <2>2 DEF Read
<1>3. Read(i, r)'.id = Read(i, r).id
  BY DEF Read
<1> QED
  BY <1>1, <1>2, <1>3

LEMMA LearningKeepsEntries ==
  ASSUME kind \in Kind, kind' = kind, contract \subseteq contract',
         NEW e, EntrySound(e)
  PROVE  EntrySound(e)'
<1> DEFINE i == Origin(e)
<1>1. i \in Id /\ e.row \in Feed(kind, i)
  BY DEF EntrySound
<1>2. /\ Accepts(Read(i, e.row)) => /\ Accepts(Read(i, e.row)')
                                    /\ Read(i, e.row)'.stamp = Read(i, e.row).stamp
      /\ ~Moved(e.row) => Read(i, e.row)' = Read(i, e.row)
  BY <1>1, LearningKeepsReadings
<1> QED
  BY <1>1, <1>2 DEF EntrySound, Origin

---------------------------------------------------------------------------
(* The CRM and the queue hold only what was read from rows of the source.  *)

RowsFed ==
  /\ rows = [i \in Id |-> rows[i]]
  /\ \A i \in Id : rows[i] = None \/ rows[i] \in Feed(kind, i)

LandedSound ==
  /\ crm = [id \in Identities |-> crm[id]]
  /\ \A id \in Identities : crm[id] # NoRecord =>
       EntrySound(crm[id]) /\ crm[id].raw.id = id /\ Accepts(crm[id].raw)

QueueSound == \A e \in queue : EntrySound(e)

(* Only a pass has rows to read, and they are rows of the source.          *)
TodoListed == \A i \in todo : rows[i] # None /\ running

StoreInv == TypeOK /\ RowsFed /\ LandedSound /\ QueueSound /\ TodoListed

LEMMA RecordRanks ==
  ASSUME NEW raw \in RawRecord PROVE raw.stamp.rank \in Nat /\ raw.id \in Identities
<1>1. raw.stamp \in Stamp \/ raw.stamp = NoStamp
  BY DEF RawRecord
<1>2. raw.stamp.rank \in Nat
  BY <1>1, IntakeAssumption DEF Stamp, NoStamp
<1> QED
  BY <1>2 DEF RawRecord

(* What landed stays, or gives way to something of no earlier time.        *)
LEMMA LandStep ==
  ASSUME StoreInv, NEW raw, NEW r,
         EntrySound(Entry(raw, r)), Accepts(raw), Land(raw, r)
  PROVE  /\ crm' = [id \in Identities |-> crm'[id]]
         /\ \A id \in Identities :
              \/ crm'[id] = crm[id]
              \/ id = raw.id /\ crm'[id] = Entry(raw, r) /\ MayWin(raw)
         /\ \A id \in Identities : crm[id] # NoRecord =>
              crm'[id] # NoRecord /\ crm'[id].raw.stamp.rank >= crm[id].raw.stamp.rank
         /\ crm'[raw.id] # NoRecord /\ crm'[raw.id].raw.stamp.rank >= raw.stamp.rank
         /\ raw.id \in Identities
<1>1. /\ raw \in RawRecord /\ r # None /\ raw.id \in Identities /\ raw.stamp.rank \in Nat
      /\ Entry(raw, r) # NoRecord /\ Entry(raw, r).raw = raw
  BY RecordRanks, FeedRow DEF EntrySound, Entry, NoRecord, StoreInv, TypeOK
<1>2. \A id \in Identities : crm[id] # NoRecord => crm[id].raw.stamp.rank \in Nat
  BY RecordRanks DEF StoreInv, TypeOK
<1>3. CASE MayWin(raw) /\ crm' = [crm EXCEPT ![raw.id] = [raw |-> raw, row |-> r]]
  <2>1. crm' = [id \in Identities |-> IF id = raw.id THEN Entry(raw, r) ELSE crm[id]]
    BY <1>3 DEF StoreInv, LandedSound, Entry
  <2>2. crm[raw.id] # NoRecord => raw.stamp.rank >= crm[raw.id].raw.stamp.rank
    BY <1>3 DEF MayWin, StoredRank
  <2>3. \A id \in Identities : crm'[id] = IF id = raw.id THEN Entry(raw, r) ELSE crm[id]
    BY <2>1
  <2>4. \A id \in Identities : crm[id] # NoRecord =>
          crm'[id] # NoRecord /\ crm'[id].raw.stamp.rank >= crm[id].raw.stamp.rank
    BY <1>1, <1>2, <2>2, <2>3
  <2>5. crm' = [id \in Identities |-> crm'[id]]
    BY <2>1
  <2> QED
    BY <1>1, <1>3, <2>3, <2>4, <2>5
<1>4. CASE MayLose(raw) /\ UNCHANGED crm
  BY <1>1, <1>2, <1>4 DEF MayLose, StoredRank, StoreInv, LandedSound
<1> QED
  BY <1>3, <1>4 DEF Land

LEMMA EnqueueStep ==
  ASSUME NEW raw, NEW r, Enqueue(raw, r)
  PROVE  /\ Entry(raw, r) \in queue'
         /\ \A e \in queue' : e \in queue \/ e = Entry(raw, r)
         /\ \A e \in queue : e.raw.id # raw.id => e \in queue'
BY DEF Enqueue

(* The row about to be read is one of the source's.                        *)
LEMMA ReadingOfRow ==
  ASSUME StoreInv, NEW i \in Id, rows[i] # None
  PROVE  /\ rows[i] \in Feed(kind, i) /\ kind \in Kind
         /\ EntrySound(Entry(Reading(i), rows[i]))
         /\ Reading(i) \in RawRecord /\ Reading(i).id = Identity(i, rows[i])
         /\ Reading(i).id[1] = i
         /\ Accepts(Reading(i)) => Reading(i).stamp.rank \in 0..LastStamp
<1>1. rows[i] \in Feed(kind, i) /\ kind \in Kind /\ rows[i] \in Row
  BY FeedRow DEF StoreInv, RowsFed, TypeOK
<1>2. Accepts(Reading(i)) => Reading(i).stamp.rank \in 0..LastStamp
  <2> SUFFICES ASSUME Accepts(Reading(i)) PROVE Reading(i).stamp.rank \in 0..LastStamp
    OBVIOUS
  <2>1. Reading(i).stamp = rows[i].stamp /\ rows[i].stamp.parses
    BY <1>1, AcceptedReading DEF Reading, Accepts
  <2> QED
    BY <1>1, <2>1, IntakeAssumption, FeedRow
<1> QED
  BY <1>1, <1>2, ReadingSound, ReadTyped, IdentityOfRow DEF Reading

LEMMA StoreInit == Init => StoreInv
<1> SUFFICES ASSUME Init PROVE StoreInv
  OBVIOUS
<1>1. kind \in Kind /\ contract = {} /\ cursor = 0 /\ running = FALSE /\ todo = {}
      /\ maxSeen = 0 /\ queue = {} /\ edits = 0 /\ late = {} /\ reread = "no"
      /\ wandered = {}
      /\ rows = [i \in Id |-> None] /\ crm = [id \in Identities |-> NoRecord]
  BY DEF Init
<1>2. RowsFed /\ QueueSound /\ TodoListed
  BY <1>1 DEF RowsFed, QueueSound, TodoListed
<1>3. LandedSound
  BY <1>1 DEF LandedSound
<1>4. TypeOK
  <2>1. 0 \in 0..LastStamp /\ 0 \in 0..MaxEdits
    BY IntakeAssumption
  <2>2. \A id \in Identities : crm[id] = NoRecord
    BY <1>1
  <2> QED
    BY <1>1, <2>1, <2>2 DEF TypeOK
<1> QED
  BY <1>2, <1>3, <1>4 DEF StoreInv

(* Nothing of what StoreInv says about the store depends on more than these*)
(* variables, and a contract that grows keeps it.                          *)
LEMMA EntriesStay ==
  ASSUME StoreInv, kind' = kind, contract \subseteq contract',
         crm' = crm, queue' \subseteq queue
  PROVE  LandedSound' /\ QueueSound'
<1>1. \A e : EntrySound(e) => EntrySound(e)'
  BY LearningKeepsEntries DEF StoreInv, TypeOK
<1>2. QueueSound'
  BY <1>1 DEF QueueSound, StoreInv
<1>3. LandedSound'
  BY <1>1 DEF LandedSound, StoreInv
<1> QED
  BY <1>2, <1>3

LEMMA LandingStays ==
  ASSUME StoreInv, kind' = kind, contract' = contract,
         NEW raw, NEW r, EntrySound(Entry(raw, r)), Accepts(raw), Land(raw, r)
  PROVE  LandedSound'
<1>1. \A e : EntrySound(e) => EntrySound(e)'
  BY LearningKeepsEntries DEF StoreInv, TypeOK
<1>2. Entry(raw, r).raw = raw
  BY DEF Entry
<1> HIDE DEF Entry
<1> QED
  BY <1>1, <1>2, LandStep DEF LandedSound, StoreInv

LEMMA EnqueueingStays ==
  ASSUME StoreInv, kind' = kind, contract' = contract,
         NEW raw, NEW r, EntrySound(Entry(raw, r)), Enqueue(raw, r)
  PROVE  QueueSound'
<1>1. \A e : EntrySound(e) => EntrySound(e)'
  BY LearningKeepsEntries DEF StoreInv, TypeOK
<1> QED
  BY <1>1, EnqueueStep DEF QueueSound, StoreInv

LEMMA StoreStep == StoreInv /\ [Next]_vars => StoreInv'
<1> SUFFICES ASSUME StoreInv, [Next]_vars PROVE StoreInv'
  OBVIOUS
<1> DEFINE SmallTypes ==
      /\ kind' = kind /\ contract' \subseteq Field
      /\ cursor' \in 0..LastStamp /\ maxSeen' \in 0..LastStamp
      /\ running' \in BOOLEAN /\ todo' \subseteq Id
      /\ edits' \in 0..MaxEdits
      /\ late' \subseteq Id /\ wandered' \subseteq Id
      /\ reread' \in {"no", "running", "done"}
<1>1. LastStamp \in Nat /\ MaxEdits \in Nat /\ 0 \in 0..LastStamp
  BY IntakeAssumption
<1>2. ASSUME SmallTypes, RowsFed', LandedSound', QueueSound', TodoListed' PROVE StoreInv'
  <2>1. \A i \in Id : rows'[i] = None \/ rows'[i] \in Row
    BY <1>2, IntakeAssumption DEF RowsFed, StoreInv, TypeOK
  <2>2. /\ \A id \in Identities : crm'[id] # NoRecord =>
              crm'[id].raw \in RawRecord /\ Accepts(crm'[id].raw) /\ crm'[id].raw.id = id
        /\ \A e \in queue' : e.raw \in RawRecord
    BY <1>2 DEF LandedSound, QueueSound, EntrySound
  <2> QED
    BY <1>2, <2>1, <2>2 DEF StoreInv, TypeOK
<1>3. ASSUME NEW i \in Id, NEW r \in Feed(kind, i), Put(i, r) PROVE StoreInv'
  <2>1. SmallTypes
    BY <1>1, <1>3 DEF Put, StoreInv, TypeOK
  <2>2. RowsFed'
    BY <1>3 DEF Put, StoreInv, RowsFed
  <2>3. LandedSound' /\ QueueSound'
    BY <1>3, EntriesStay DEF Put
  <2>4. TodoListed'
    BY <1>3 DEF Put, StoreInv, TodoListed
  <2> QED
    BY <1>2, <2>1, <2>2, <2>3, <2>4
<1>4. ASSUME NEW i \in Id, ReadPoison(i) PROVE StoreInv'
  <2>1. EntrySound(Entry(Reading(i), rows[i]))
    BY <1>4, ReadingOfRow DEF ReadPoison, Handled, StoreInv, TodoListed
  <2>2. SmallTypes /\ RowsFed' /\ TodoListed'
    BY <1>4 DEF ReadPoison, Handled, StoreInv, TypeOK, RowsFed, TodoListed
  <2>3. QueueSound'
    BY <1>4, <2>1, EnqueueingStays DEF ReadPoison, Handled
  <2>4. LandedSound'
    BY <1>4, EntriesStay, LearningKeepsEntries
       DEF ReadPoison, Handled, LandedSound, StoreInv, TypeOK
  <2> QED
    BY <1>2, <2>2, <2>3, <2>4
<1>5. ASSUME NEW i \in Id, ReadSound(i) PROVE StoreInv'
  <2>1. /\ EntrySound(Entry(Reading(i), rows[i]))
        /\ Reading(i).stamp.rank \in 0..LastStamp
    BY <1>5, ReadingOfRow DEF ReadSound, Handled, StoreInv, TodoListed
  <2>2. SmallTypes /\ RowsFed' /\ TodoListed'
    BY <1>5, <2>1 DEF ReadSound, Handled, Seen, StoreInv, TypeOK, RowsFed, TodoListed
  <2>3. LandedSound'
    BY <1>5, <2>1, LandingStays DEF ReadSound, Handled
  <2>4. QueueSound'
    BY <1>5, LearningKeepsEntries DEF ReadSound, Handled, QueueSound, StoreInv, TypeOK
  <2> QED
    BY <1>2, <2>2, <2>3, <2>4
<1>6. ASSUME NEW i \in Id, ReadFailing(i) PROVE StoreInv'
  <2>1. /\ EntrySound(Entry(Reading(i), rows[i]))
        /\ Reading(i).stamp.rank \in 0..LastStamp
    BY <1>6, ReadingOfRow DEF ReadFailing, Handled, StoreInv, TodoListed
  <2>2. SmallTypes /\ RowsFed' /\ TodoListed'
    BY <1>6, <2>1 DEF ReadFailing, Handled, Seen, StoreInv, TypeOK, RowsFed, TodoListed
  <2>3. QueueSound'
    BY <1>6, <2>1, EnqueueingStays DEF ReadFailing, Handled
  <2>4. LandedSound'
    BY <1>6, LearningKeepsEntries DEF ReadFailing, Handled, LandedSound, StoreInv, TypeOK
  <2> QED
    BY <1>2, <2>2, <2>3, <2>4
<1>7. ASSUME NEW e \in queue, Drain(e) PROVE StoreInv'
  <2>1. EntrySound(Entry(e.raw, e.row))
    BY DEF StoreInv, QueueSound, EntrySound, Entry, Origin, KeepsAll, BlankAsSent
  <2>2. SmallTypes /\ RowsFed' /\ TodoListed'
    BY <1>7 DEF Drain, history, StoreInv, TypeOK, RowsFed, TodoListed
  <2>3. LandedSound'
    BY <1>7, <2>1, LandingStays DEF Drain
  <2>4. QueueSound'
    BY <1>7, LearningKeepsEntries DEF Drain, QueueSound, StoreInv, TypeOK
  <2> QED
    BY <1>2, <2>2, <2>3, <2>4
<1>8. ASSUME NEW f \in Field, DeclareSpelling(f) PROVE StoreInv'
  <2>1. SmallTypes /\ RowsFed' /\ TodoListed'
    BY <1>8 DEF DeclareSpelling, StoreInv, TypeOK, RowsFed, TodoListed
  <2>2. LandedSound' /\ QueueSound'
    BY <1>8, EntriesStay DEF DeclareSpelling
  <2> QED
    BY <1>2, <2>1, <2>2
<1>9. CASE StartPass \/ EndPass \/ Crash \/ ResetCursor \/ UNCHANGED vars
  <2>1. SmallTypes /\ RowsFed' /\ TodoListed'
    BY <1>1, <1>9 DEF StartPass, EndPass, Crash, ResetCursor, vars, history,
                      StoreInv, TypeOK, RowsFed, TodoListed
  <2>2. kind' = kind /\ contract' = contract /\ crm' = crm /\ queue' = queue
    BY <1>9 DEF StartPass, EndPass, Crash, ResetCursor, vars, history
  <2>3. LandedSound' /\ QueueSound'
    BY <2>2, EntriesStay
  <2> QED
    BY <1>2, <2>1, <2>3
<1> QED
  BY <1>3, <1>4, <1>5, <1>6, <1>7, <1>8, <1>9 DEF Next, StoreInv, TypeOK

(* Every variable keeps its type, and only sound records land.             *)
THEOREM IntakeTyped == Spec => []TypeOK
<1>1. StoreInv => TypeOK
  BY DEF StoreInv
<1> QED
  BY <1>1, StoreInit, StoreStep, PTL DEF Spec

---------------------------------------------------------------------------
(* Nothing goes missing.                                                   *)

Dealt(i) == Shown(i) \/ Queued(i)

(* No step loses what landed or makes it older.                            *)
LEMMA RanksGrow ==
  ASSUME StoreInv, [Next]_vars, NEW id \in Identities, crm[id] # NoRecord
  PROVE  crm'[id] # NoRecord /\ crm'[id].raw.stamp.rank >= crm[id].raw.stamp.rank
<1>1. crm[id].raw.stamp.rank \in Nat
  BY RecordRanks DEF StoreInv, TypeOK
<1>2. CASE crm' = crm
  BY <1>1, <1>2
<1>3. ASSUME NEW i \in Id, ReadSound(i)
      PROVE  crm'[id] # NoRecord /\ crm'[id].raw.stamp.rank >= crm[id].raw.stamp.rank
  <2>1. EntrySound(Entry(Reading(i), rows[i]))
    BY <1>3, ReadingOfRow DEF ReadSound, Handled, StoreInv, TodoListed
  <2> QED
    BY <1>3, <2>1, LandStep DEF ReadSound
<1>4. ASSUME NEW e \in queue, Drain(e)
      PROVE  crm'[id] # NoRecord /\ crm'[id].raw.stamp.rank >= crm[id].raw.stamp.rank
  <2>1. EntrySound(Entry(e.raw, e.row))
    BY DEF StoreInv, QueueSound, EntrySound, Entry, Origin, KeepsAll, BlankAsSent
  <2> QED
    BY <1>4, <2>1, LandStep DEF Drain
<1>5. \/ crm' = crm
      \/ \E i \in Id : ReadSound(i)
      \/ \E e \in queue : Drain(e)
  BY DEF Next, vars, Put, ReadPoison, ReadFailing, StartPass, EndPass, Crash,
         ResetCursor, DeclareSpelling
<1> QED
  BY <1>2, <1>3, <1>4, <1>5

(* The contract and the kind of source are settled or grow.                *)
LEMMA ReadingStays ==
  ASSUME StoreInv, [Next]_vars, NEW i \in Id, rows[i] # None, rows'[i] = rows[i]
  PROVE  /\ Accepts(Reading(i)) => /\ Accepts(Reading(i)')
                                   /\ Reading(i)'.stamp = Reading(i).stamp
         /\ Reading(i)'.id = Reading(i).id
<1>1. kind' = kind /\ contract \subseteq contract'
  BY DEF Next, vars, history, Put, Handled, ReadPoison, ReadSound, ReadFailing,
         StartPass, EndPass, Crash, ResetCursor, Drain, DeclareSpelling
<1>2. rows[i] \in Feed(kind, i) /\ kind \in Kind
  BY ReadingOfRow
<1>3. Reading(i) = Read(i, rows[i]) /\ Reading(i)' = Read(i, rows[i])'
  BY DEF Reading
<1>4. \A r \in Feed(kind, i) : rows[i] = r /\ rows'[i] = r =>
        /\ Accepts(Reading(i)) => /\ Accepts(Reading(i)')
                                  /\ Reading(i)'.stamp = Reading(i).stamp
        /\ Reading(i)'.id = Reading(i).id
  <2> TAKE r \in Feed(kind, i)
  <2> HAVE rows[i] = r /\ rows'[i] = r
  <2>1. Reading(i) = Read(i, r) /\ Reading(i)' = Read(i, r)'
    BY DEF Reading, Read
  <2> QED
    BY <1>1, <1>2, <2>1, LearningKeepsReadings
<1> QED
  BY <1>2, <1>4

LEMMA ShownStays ==
  ASSUME StoreInv, [Next]_vars, NEW i \in Id, rows[i] # None, rows'[i] = rows[i],
         Shown(i)
  PROVE  Shown(i)'
<1>1. /\ Accepts(Reading(i)') /\ Reading(i)'.stamp = Reading(i).stamp
      /\ Reading(i)'.id = Reading(i).id
  BY ReadingStays DEF Shown
<1>2. Reading(i).id \in Identities /\ Reading(i).stamp.rank \in Nat
  BY ReadingOfRow, RecordRanks
<1>3. /\ crm[Reading(i).id] # NoRecord
      /\ crm[Reading(i).id].raw.stamp.rank >= Reading(i).stamp.rank
  BY DEF Shown
<1>4. crm[Reading(i).id].raw.stamp.rank \in Nat
  BY <1>2, <1>3, RecordRanks DEF StoreInv, TypeOK
<1>5. /\ crm'[Reading(i).id] # NoRecord
      /\ crm'[Reading(i).id].raw.stamp.rank >= crm[Reading(i).id].raw.stamp.rank
  BY <1>2, <1>3, RanksGrow
<1>6. crm'[Reading(i).id].raw.stamp.rank \in Nat
  <2>1. StoreInv'
    BY StoreStep
  <2> QED
    BY <1>2, <1>5, <2>1, RecordRanks DEF StoreInv, TypeOK
<1> QED
  BY <1>1, <1>2, <1>3, <1>4, <1>5, <1>6 DEF Shown

(* A record that landed shows its row.                                     *)
LEMMA LandingShows ==
  ASSUME StoreInv, [Next]_vars, NEW i \in Id, rows[i] # None, rows'[i] = rows[i],
         NEW e, EntrySound(e), e.row = rows[i], e.raw.id = Reading(i).id,
         Accepts(e.raw), Land(e.raw, e.row)
  PROVE  Shown(i)'
<1>1. Origin(e) = i /\ Reading(i) = Read(i, e.row)
  BY ReadingOfRow DEF Origin, Reading
<1>2. Accepts(Reading(i)) /\ Reading(i).stamp = e.raw.stamp
  BY <1>1 DEF EntrySound
<1>3. EntrySound(Entry(e.raw, e.row))
  BY DEF EntrySound, Entry, Origin, KeepsAll, BlankAsSent
<1>4. /\ crm'[e.raw.id] # NoRecord
      /\ crm'[e.raw.id].raw.stamp.rank >= e.raw.stamp.rank
  BY <1>3, LandStep
<1>5. /\ Accepts(Reading(i)') /\ Reading(i)'.stamp = Reading(i).stamp
      /\ Reading(i)'.id = Reading(i).id
  BY <1>2, ReadingStays
<1> QED
  BY <1>2, <1>4, <1>5 DEF Shown

LEMMA QueueingStays ==
  ASSUME StoreInv, [Next]_vars, NEW i \in Id, rows[i] # None, rows'[i] = rows[i],
         NEW e \in queue, e.row = rows[i], e.raw.id = Reading(i).id
  PROVE  Dealt(i)'
<1>1. Reading(i)'.id = Reading(i).id
  BY ReadingStays
<1>2. ASSUME e \in queue' PROVE Dealt(i)'
  BY <1>1, <1>2 DEF Dealt, Queued
<1>3. ASSUME NEW j \in Id, Enqueue(Reading(j), rows[j]), rows[j] # None PROVE Dealt(i)'
  <2>1. CASE e.raw.id # Reading(j).id
    BY <1>2, <1>3, <2>1, EnqueueStep
  <2>2. CASE e.raw.id = Reading(j).id
    <3>1. i = j
      BY <1>3, <2>2, ReadingOfRow
    <3>2. Entry(Reading(i), rows[i]) \in queue'
      BY <1>3, <3>1, EnqueueStep
    <3>3. /\ Entry(Reading(i), rows[i]).row = rows'[i]
          /\ Entry(Reading(i), rows[i]).raw.id = Reading(i)'.id
      BY <1>1 DEF Entry
    <3> QED
      BY <3>2, <3>3 DEF Dealt, Queued
  <2> QED
    BY <2>1, <2>2
<1>4. CASE \E j \in Id : ReadPoison(j) \/ ReadFailing(j)
  BY <1>3, <1>4 DEF ReadPoison, ReadFailing, Handled, StoreInv, TodoListed
<1>5. ASSUME NEW d \in queue, Drain(d) PROVE Dealt(i)'
  <2>1. CASE d # e
    BY <1>2, <1>5, <2>1 DEF Drain
  <2>2. CASE d = e
    BY <1>5, <2>2, LandingShows DEF Drain, Dealt, StoreInv, QueueSound
  <2> QED
    BY <2>1, <2>2
<1>6. \/ queue' = queue
      \/ \E j \in Id : ReadPoison(j) \/ ReadFailing(j)
      \/ \E d \in queue : Drain(d)
  BY DEF Next, vars, Put, ReadSound, StartPass, EndPass, Crash, ResetCursor, DeclareSpelling
<1> QED
  BY <1>2, <1>4, <1>5, <1>6

(* What was dealt with stays so until the source changes the row.          *)
LEMMA DealtStays ==
  ASSUME StoreInv, [Next]_vars, NEW i \in Id, rows[i] # None, rows'[i] = rows[i],
         Dealt(i)
  PROVE  Dealt(i)'
BY ShownStays, QueueingStays DEF Dealt, Queued

(* Reading a row deals with it, one way or another.                        *)
LEMMA ReadingDeals ==
  ASSUME StoreInv, NEW i \in Id, ReadPoison(i) \/ ReadSound(i) \/ ReadFailing(i)
  PROVE  Dealt(i)'
<1>1. rows[i] # None /\ rows'[i] = rows[i] /\ [Next]_vars
  BY DEF ReadPoison, ReadSound, ReadFailing, Handled, StoreInv, TodoListed, Next
<1>2. Reading(i)'.id = Reading(i).id
  BY <1>1, ReadingStays
<1>3. CASE Enqueue(Reading(i), rows[i])
  <2>1. /\ Entry(Reading(i), rows[i]) \in queue'
        /\ Entry(Reading(i), rows[i]).row = rows'[i]
        /\ Entry(Reading(i), rows[i]).raw.id = Reading(i)'.id
    BY <1>1, <1>2, <1>3, EnqueueStep DEF Entry
  <2> QED
    BY <2>1 DEF Dealt, Queued
<1>4. CASE ReadSound(i)
  <2> DEFINE e == Entry(Reading(i), rows[i])
  <2>1. /\ EntrySound(e) /\ e.row = rows[i] /\ e.raw = Reading(i)
        /\ Accepts(e.raw) /\ Land(e.raw, e.row)
    BY <1>1, <1>4, ReadingOfRow DEF ReadSound, Entry
  <2> HIDE DEF e
  <2> QED
    BY <1>1, <2>1, LandingShows DEF Dealt
<1> QED
  BY <1>3, <1>4 DEF ReadPoison, ReadFailing

(* A row that the pass in progress has passed over was dealt with, now or  *)
(* before, or came late: so when the watermark moves it leaves none behind.*)
PassLeavesNone ==
  running => \A i \in Id \ todo : rows[i] # None => Dealt(i) \/ i \in late

VanishInv == StoreInv /\ NothingVanishes /\ PassLeavesNone

LEMMA VanishStep == VanishInv /\ [Next]_vars => VanishInv'
<1> SUFFICES ASSUME VanishInv, [Next]_vars PROVE VanishInv'
  OBVIOUS
<1>1. StoreInv /\ StoreInv'
  BY StoreStep DEF VanishInv
<1>2. \A i \in Id : rows[i] # None =>
        /\ Yields(rows[i]) \/ Dealt(i) \/ i \in late
        /\ running /\ i \notin todo => Dealt(i) \/ i \in late
  BY DEF VanishInv, NothingVanishes, PassLeavesNone, Dealt
<1>3. \A i \in Id : rows[i] # None /\ rows'[i] = rows[i] /\ Dealt(i) => Dealt(i)'
  BY <1>1, DealtStays
<1>4. ASSUME \A i \in Id : rows'[i] # None =>
               /\ Yields(rows[i])' \/ Dealt(i)' \/ i \in late'
               /\ running' /\ i \notin todo' => Dealt(i)' \/ i \in late'
      PROVE  VanishInv'
  <2>1. NothingVanishes'
    BY <1>4 DEF NothingVanishes, Dealt
  <2>2. PassLeavesNone'
    BY <1>4 DEF PassLeavesNone
  <2> QED
    BY <1>1, <2>1, <2>2 DEF VanishInv
<1>5. ASSUME NEW j \in Id, NEW r \in Feed(kind, j), Put(j, r) PROVE VanishInv'
  <2> SUFFICES ASSUME NEW i \in Id, rows'[i] # None
               PROVE  Yields(rows[i])' \/ Dealt(i)' \/ i \in late'
    BY <1>4, <1>5 DEF Put
  <2>1. CASE i # j
    <3>1. rows'[i] = rows[i] /\ (i \in late' <=> i \in late)
      BY <1>5, <2>1 DEF Put
    <3>2. Yields(rows[i]) => Yields(rows[i])'
      BY <1>5, <3>1 DEF Put, Yields, Compares, Compared, EndpointRank
    <3> QED
      BY <1>2, <1>3, <3>1, <3>2
  <2>2. CASE i = j
    <3>1. rows'[i] = r /\ kind' = kind /\ cursor' = cursor
      BY <1>1, <1>5, <2>2 DEF Put, StoreInv, RowsFed
    <3>2. cursor \in Nat
      BY <1>1, IntakeAssumption DEF StoreInv, TypeOK
    <3>3. Compares(r) => Compared(r) \in Nat
      <4>1. r.stamp.rank \in Nat
        BY <1>1, FeedRow, IntakeAssumption, <2>2 DEF Stamp, StoreInv, TypeOK
      <4> QED
        BY <4>1 DEF Compared, EndpointRank
    <3>4. CASE cursor > 0 /\ Compares(r) /\ Compared(r) <= cursor
      BY <1>5, <2>2, <3>4 DEF Put
    <3>5. CASE ~(cursor > 0 /\ Compares(r) /\ Compared(r) <= cursor)
      <4>1. Yields(r)
        BY <3>2, <3>3, <3>5 DEF Yields
      <4>2. Yields(rows[i])'
        BY <3>1, <4>1 DEF Yields, Compares, Compared, EndpointRank
      <4> QED
        BY <4>2
    <3> QED
      BY <3>4, <3>5
  <2> QED
    BY <2>1, <2>2
<1>6. ASSUME NEW j \in Id, ReadPoison(j) \/ ReadSound(j) \/ ReadFailing(j) PROVE VanishInv'
  <2>1. /\ rows' = rows /\ kind' = kind /\ cursor' = cursor /\ running' = running
        /\ todo' = todo \ {j} /\ late' = late \ {j}
    BY <1>6 DEF ReadPoison, ReadSound, ReadFailing, Handled
  <2>2. Dealt(j)'
    BY <1>1, <1>6, ReadingDeals
  <2>3. \A i \in Id : Yields(rows[i]) => Yields(rows[i])'
    BY <2>1 DEF Yields, Compares, Compared, EndpointRank
  <2> QED
    BY <1>2, <1>3, <1>4, <2>1, <2>2, <2>3
<1>7. CASE StartPass
  <2>1. /\ rows' = rows /\ kind' = kind /\ cursor' = cursor /\ late' = late
        /\ todo' = {i \in Id : rows[i] # None /\ Yields(rows[i])}
    BY <1>7 DEF StartPass
  <2>2. \A i \in Id : Yields(rows[i]) => Yields(rows[i])'
    BY <2>1 DEF Yields, Compares, Compared, EndpointRank
  <2> QED
    BY <1>2, <1>3, <1>4, <2>1, <2>2
<1>8. CASE EndPass
  <2>1. rows' = rows /\ late' = late /\ running /\ todo = {} /\ running' = FALSE
    BY <1>8 DEF EndPass
  <2> QED
    BY <1>2, <1>3, <1>4, <2>1
<1>9. ASSUME NEW e \in queue, Drain(e) PROVE VanishInv'
  <2>1. /\ rows' = rows /\ kind' = kind /\ cursor' = cursor /\ late' = late
        /\ ~running /\ running' = running
    BY <1>9 DEF Drain, history
  <2>2. \A i \in Id : Yields(rows[i]) => Yields(rows[i])'
    BY <2>1 DEF Yields, Compares, Compared, EndpointRank
  <2> QED
    BY <1>2, <1>3, <1>4, <2>1, <2>2
<1>10. ASSUME NEW f \in Field, DeclareSpelling(f) PROVE VanishInv'
  <2>1. /\ rows' = rows /\ kind' = kind /\ cursor' = cursor /\ late' = late
        /\ ~running /\ running' = running
    BY <1>10 DEF DeclareSpelling
  <2>2. \A i \in Id : Yields(rows[i]) => Yields(rows[i])'
    BY <2>1 DEF Yields, Compares, Compared, EndpointRank
  <2> QED
    BY <1>2, <1>3, <1>4, <2>1, <2>2
<1>11. CASE ResetCursor
  <2>1. rows' = rows /\ cursor' = 0 /\ ~running /\ running' = running
    BY <1>11 DEF ResetCursor
  <2>2. \A i \in Id : Yields(rows[i])'
    BY <2>1 DEF Yields
  <2> QED
    BY <1>4, <2>1, <2>2
<1>12. CASE Crash \/ UNCHANGED vars
  <2>1. /\ rows' = rows /\ kind' = kind /\ cursor' = cursor /\ late' = late
        /\ ~running' \/ (running' = running /\ todo' = todo)
    BY <1>12 DEF Crash, vars
  <2>2. \A i \in Id : Yields(rows[i]) => Yields(rows[i])'
    BY <2>1 DEF Yields, Compares, Compared, EndpointRank
  <2> QED
    BY <1>2, <1>3, <1>4, <2>1, <2>2
<1> QED
  BY <1>1, <1>5, <1>6, <1>7, <1>8, <1>9, <1>10, <1>11, <1>12
     DEF Next, StoreInv, TypeOK

(* Every row of the source is still ahead of the reader, in the CRM, in    *)
(* the queue, or came with a stamp the watermark had passed                *)
(* (crm_import_source.py:10, calendar_source.py:8-9).                      *)
THEOREM NothingEverVanishes == Spec => []NothingVanishes
<1>1. Init => VanishInv
  BY StoreInit DEF Init, VanishInv, NothingVanishes, PassLeavesNone
<1>2. VanishInv => NothingVanishes
  BY DEF VanishInv
<1> QED
  BY <1>1, <1>2, VanishStep, PTL DEF Spec

---------------------------------------------------------------------------
(* What lands is what was sent.                                            *)

(* A value lands in its column or among the unmapped fields, whatever      *)
(* spelling and shape it came under, but for an object that its field's    *)
(* coercion cannot read (ticket_source.py:265, 373).                       *)
THEOREM EverythingIsKept == Spec => []LandedKeepsEverything
<1>1. StoreInv => LandedKeepsEverything
  BY DEF StoreInv, LandedSound, EntrySound, KeepsAll, LandedKeepsEverything
<1> QED
  BY <1>1, StoreInit, StoreStep, PTL DEF Spec

(* A required field of a landed record is blank only if a spelling the     *)
(* contract knew was there, without a value or with an object that the     *)
(* coercion cannot read; a field that was missing is never defaulted       *)
(* (ticket_source.py:347-351).                                             *)
THEOREM NothingIsDefaulted == Spec => []BlankOnlyIfSentBlank
<1>1. StoreInv => BlankOnlyIfSentBlank
  BY DEF StoreInv, LandedSound, EntrySound, BlankAsSent, BlankOnlyIfSentBlank
<1> QED
  BY <1>1, StoreInit, StoreStep, PTL DEF Spec

(* An issue has a record under its internal id, in the CRM or in the queue,*)
(* only after the source named it so.                                      *)
IdsWandered ==
  \A i \in Id \ wandered :
    /\ rows[i] # None => rows[i].name # "id"
    /\ crm[<<i, "id">>] = NoRecord
    /\ \A e \in queue : e.raw.id # <<i, "id">>

(* One issue, one identity (ticket_source.py:304-308), unless the source   *)
(* has once sent it under no declared spelling of its key.                 *)
THEOREM OneIdentityAlways == Spec => []OneIdentity
<1>1. Init => IdsWandered
  <2>1. \A i \in Id : <<i, "id">> \in Identities
    BY DEF Identities
  <2> QED
    BY <2>1 DEF Init, IdsWandered
<1>2. StoreInv /\ IdsWandered /\ [Next]_vars => IdsWandered'
  <2> SUFFICES ASSUME StoreInv, IdsWandered, [Next]_vars,
                      NEW i \in Id, i \notin wandered'
               PROVE  /\ rows'[i] # None => rows'[i].name # "id"
                      /\ crm'[<<i, "id">>] = NoRecord
                      /\ \A e \in queue' : e.raw.id # <<i, "id">>
    BY DEF IdsWandered
  <2>1. wandered \subseteq wandered'
    BY DEF Next, vars, history, Put, Handled, ReadPoison, ReadSound, ReadFailing,
           StartPass, EndPass, Crash, ResetCursor, Drain, DeclareSpelling
  <2>2. /\ rows[i] # None => rows[i].name # "id"
        /\ crm[<<i, "id">>] = NoRecord
        /\ \A e \in queue : e.raw.id # <<i, "id">>
    BY <2>1 DEF IdsWandered
  <2>3. <<i, "id">> \in Identities
    BY DEF Identities
  <2>4. \A j \in Id : rows[j] # None => Reading(j).id # <<i, "id">>
    <3> SUFFICES ASSUME NEW j \in Id, rows[j] # None, Reading(j).id = <<i, "id">>
                 PROVE  FALSE
      OBVIOUS
    <3>1. /\ Identity(j, rows[j]) = <<i, "id">> /\ <<i, "id">>[1] = j
          /\ rows[j] \in Feed(kind, j) /\ kind \in Kind
      BY ReadingOfRow
    <3>2. rows[j].name = "id"
      BY <3>1, FeedRow, IdentityOfRow
    <3>3. i = j
      BY <3>1
    <3> QED
      BY <2>2, <3>2, <3>3
  <2>5. rows'[i] # None => rows'[i].name # "id"
    <3>1. CASE rows' = rows
      BY <2>2, <3>1
    <3>2. ASSUME NEW j \in Id, NEW r \in Feed(kind, j), Put(j, r)
          PROVE  rows'[i] # None => rows'[i].name # "id"
      BY <2>2, <3>2 DEF Put, StoreInv, RowsFed
    <3> QED
      BY <3>1, <3>2 DEF Next, vars, history, Handled, ReadPoison, ReadSound, ReadFailing,
           StartPass, EndPass, Crash, ResetCursor, Drain, DeclareSpelling, StoreInv, TypeOK
  <2>6. crm'[<<i, "id">>] = NoRecord
    <3>1. CASE crm' = crm
      BY <2>2, <3>1
    <3>2. ASSUME NEW j \in Id, ReadSound(j) PROVE crm'[<<i, "id">>] = NoRecord
      <4>1. EntrySound(Entry(Reading(j), rows[j])) /\ rows[j] # None
        BY <3>2, ReadingOfRow DEF ReadSound, Handled, StoreInv, TodoListed
      <4> QED
        BY <2>2, <2>3, <2>4, <3>2, <4>1, LandStep DEF ReadSound
    <3>3. ASSUME NEW e \in queue, Drain(e) PROVE crm'[<<i, "id">>] = NoRecord
      <4>1. EntrySound(Entry(e.raw, e.row))
        BY DEF StoreInv, QueueSound, EntrySound, Entry, Origin, KeepsAll, BlankAsSent
      <4> QED
        BY <2>2, <2>3, <3>3, <4>1, LandStep DEF Drain
    <3> QED
      BY <3>1, <3>2, <3>3 DEF Next, vars, Put, ReadPoison, ReadFailing, StartPass,
           EndPass, Crash, ResetCursor, DeclareSpelling
  <2>7. \A e \in queue' : e.raw.id # <<i, "id">>
    <3>1. CASE queue' \subseteq queue
      BY <2>2, <3>1
    <3>2. ASSUME NEW j \in Id, ReadPoison(j) \/ ReadFailing(j)
          PROVE  \A e \in queue' : e.raw.id # <<i, "id">>
      <4>1. Enqueue(Reading(j), rows[j]) /\ rows[j] # None
        BY <3>2 DEF ReadPoison, ReadFailing, Handled, StoreInv, TodoListed
      <4>2. Entry(Reading(j), rows[j]).raw.id # <<i, "id">>
        BY <2>4, <4>1 DEF Entry
      <4> QED
        BY <2>2, <4>1, <4>2, EnqueueStep
    <3> QED
      BY <3>1, <3>2 DEF Next, vars, Put, ReadSound, StartPass, EndPass, Crash,
           ResetCursor, Drain, DeclareSpelling
  <2> QED
    BY <2>5, <2>6, <2>7
<1>3. IdsWandered => OneIdentity
  BY DEF IdsWandered, OneIdentity
<1> QED
  BY <1>1, <1>2, <1>3, StoreInit, StoreStep, PTL DEF Spec

---------------------------------------------------------------------------
(* The way back.                                                           *)

Recovered(i) == Shown(i) \/ \E e \in queue : e.raw = Reading(i)

(* A pass from a reset watermark recovers the rows it has read so far.     *)
RereadProgress ==
  reread = "running" =>
    /\ running
    /\ \A i \in Id \ todo : rows[i] # None /\ Accepts(Reading(i)) => Recovered(i)

RecoveryInv == StoreInv /\ RereadProgress /\ RereadRecovers

LEMMA RecoveredStays ==
  ASSUME StoreInv, [Next]_vars, kind' = kind, contract' = contract,
         NEW i \in Id, rows[i] # None, rows'[i] = rows[i],
         Accepts(Reading(i)), Recovered(i)
  PROVE  Recovered(i)'
<1>1. Reading(i)' = Reading(i)
  BY DEF Reading, Read, Identity, Missing, Columns, Unmapped, Undeclared
<1>2. CASE Shown(i)
  BY <1>2, ShownStays DEF Recovered
<1>3. ASSUME NEW e \in queue, e.raw = Reading(i) PROVE Recovered(i)'
  <2>1. CASE e \in queue'
    BY <1>1, <1>3, <2>1 DEF Recovered
  <2>2. ASSUME NEW j \in Id, Enqueue(Reading(j), rows[j]), rows[j] # None
        PROVE  Recovered(i)'
    <3>1. CASE e.raw.id # Reading(j).id
      BY <2>1, <2>2, <3>1, EnqueueStep
    <3>2. CASE e.raw.id = Reading(j).id
      <4>1. i = j
        BY <1>3, <2>2, <3>2, ReadingOfRow
      <4>2. Entry(Reading(i), rows[i]) \in queue' /\ Entry(Reading(i), rows[i]).raw = Reading(i)
        BY <2>2, <4>1, EnqueueStep DEF Entry
      <4> QED
        BY <1>1, <4>2 DEF Recovered
    <3> QED
      BY <3>1, <3>2
  <2>3. CASE \E j \in Id : ReadPoison(j) \/ ReadFailing(j)
    BY <2>2, <2>3 DEF ReadPoison, ReadFailing, Handled, StoreInv, TodoListed
  <2>4. ASSUME NEW d \in queue, Drain(d) PROVE Recovered(i)'
    <3>1. CASE d # e
      BY <2>1, <2>4, <3>1 DEF Drain
    <3>2. CASE d = e
      <4>1. EntrySound(Entry(e.raw, e.row))
        BY DEF StoreInv, QueueSound, EntrySound, Entry, Origin, KeepsAll, BlankAsSent
      <4>2. /\ crm'[e.raw.id] # NoRecord
            /\ crm'[e.raw.id].raw.stamp.rank >= e.raw.stamp.rank
        BY <2>4, <3>2, <4>1, LandStep DEF Drain
      <4> QED
        BY <1>1, <1>3, <4>2 DEF Recovered, Shown
    <3> QED
      BY <3>1, <3>2
  <2>5. \/ queue' = queue
        \/ \E j \in Id : ReadPoison(j) \/ ReadFailing(j)
        \/ \E d \in queue : Drain(d)
    BY DEF Next, vars, Put, ReadSound, StartPass, EndPass, Crash, ResetCursor, DeclareSpelling
  <2> QED
    BY <2>1, <2>3, <2>4, <2>5
<1> QED
  BY <1>2, <1>3 DEF Recovered

LEMMA ReadingRecovers ==
  ASSUME StoreInv, NEW i \in Id, ReadPoison(i) \/ ReadSound(i) \/ ReadFailing(i),
         Accepts(Reading(i))
  PROVE  Recovered(i)'
<1>1. /\ rows[i] # None /\ rows' = rows /\ kind' = kind /\ contract' = contract
      /\ [Next]_vars
  BY DEF ReadPoison, ReadSound, ReadFailing, Handled, StoreInv, TodoListed, Next
<1>2. Reading(i)' = Reading(i)
  BY <1>1 DEF Reading, Read, Identity, Missing, Columns, Unmapped, Undeclared
<1>3. CASE Enqueue(Reading(i), rows[i])
  <2>1. Entry(Reading(i), rows[i]) \in queue' /\ Entry(Reading(i), rows[i]).raw = Reading(i)'
    BY <1>2, <1>3, EnqueueStep DEF Entry
  <2> QED
    BY <2>1 DEF Recovered
<1>4. CASE ReadSound(i)
  <2> DEFINE e == Entry(Reading(i), rows[i])
  <2>1. /\ EntrySound(e) /\ e.row = rows[i] /\ e.raw = Reading(i)
        /\ Accepts(e.raw) /\ Land(e.raw, e.row)
    BY <1>1, <1>4, ReadingOfRow DEF ReadSound, Entry
  <2> HIDE DEF e
  <2> QED
    BY <1>1, <2>1, LandingShows DEF Recovered
<1> QED
  BY <1>3, <1>4 DEF ReadPoison, ReadFailing

LEMMA RecoveryStep == RecoveryInv /\ [Next]_vars => RecoveryInv'
<1> SUFFICES ASSUME RecoveryInv, [Next]_vars PROVE RecoveryInv'
  OBVIOUS
<1>1. StoreInv /\ StoreInv'
  BY StoreStep DEF RecoveryInv
<1>2. CASE reread' = "no"
  BY <1>1, <1>2 DEF RecoveryInv, RereadProgress, RereadRecovers
<1>3. ASSUME kind' = kind, contract' = contract, rows' = rows
      PROVE  \A i \in Id : rows'[i] # None /\ Accepts(Reading(i)') =>
               /\ rows[i] # None /\ Accepts(Reading(i))
               /\ Recovered(i) => Recovered(i)'
  <2>1. \A i \in Id : Reading(i)' = Reading(i)
    BY <1>3 DEF Reading, Read, Identity, Missing, Columns, Unmapped, Undeclared
  <2> QED
    BY <1>1, <1>3, <2>1, RecoveredStays
<1>4. reread = "done" => \A i \in Id : rows[i] # None /\ Accepts(Reading(i)) => Recovered(i)
  BY DEF RecoveryInv, RereadRecovers, Recovered
<1>5. ASSUME kind' = kind, contract' = contract, rows' = rows,
             reread' = "running" => running',
             reread' # "no" =>
               \A i \in Id : rows[i] # None /\ Accepts(Reading(i)) =>
                 Recovered(i) \/ Recovered(i)' \/ (reread' = "running" /\ i \in todo')
      PROVE  RecoveryInv'
  <2>1. RereadProgress'
    BY <1>3, <1>5 DEF RereadProgress
  <2>2. RereadRecovers'
    BY <1>3, <1>5 DEF RereadRecovers, Recovered
  <2> QED
    BY <1>1, <2>1, <2>2 DEF RecoveryInv
<1>6. ASSUME NEW j \in Id, ReadPoison(j) \/ ReadSound(j) \/ ReadFailing(j)
      PROVE  RecoveryInv'
  <2>1. /\ rows' = rows /\ kind' = kind /\ contract' = contract /\ running' = running
        /\ todo' = todo \ {j} /\ reread' = reread /\ running
    BY <1>6 DEF ReadPoison, ReadSound, ReadFailing, Handled
  <2>2. Accepts(Reading(j)) => Recovered(j)'
    BY <1>1, <1>6, ReadingRecovers
  <2>3. reread = "running" =>
          \A i \in Id \ todo : rows[i] # None /\ Accepts(Reading(i)) => Recovered(i)
    BY DEF RecoveryInv, RereadProgress
  <2>4. reread \in {"no", "running", "done"}
    BY <1>1 DEF StoreInv, TypeOK
  <2> QED
    BY <1>4, <1>5, <2>1, <2>2, <2>3, <2>4
<1>7. CASE StartPass
  <2>1. /\ rows' = rows /\ kind' = kind /\ contract' = contract /\ running'
        /\ todo' = {i \in Id : rows[i] # None /\ Yields(rows[i])}
        /\ reread' = IF cursor = 0 /\ reread = "no" THEN "running" ELSE reread
    BY <1>7 DEF StartPass
  <2>2. reread # "running"
    BY <1>7 DEF RecoveryInv, RereadProgress, StartPass
  <2>3. cursor = 0 => \A i \in Id : rows[i] # None => i \in todo'
    BY <2>1 DEF Yields
  <2>4. reread \in {"no", "running", "done"}
    BY <1>1 DEF StoreInv, TypeOK
  <2> QED
    BY <1>4, <1>5, <2>1, <2>2, <2>3, <2>4
<1>8. CASE EndPass
  <2>1. /\ rows' = rows /\ kind' = kind /\ contract' = contract /\ todo = {}
        /\ reread' = IF reread = "running" THEN "done" ELSE reread
    BY <1>8 DEF EndPass
  <2>2. reread = "running" =>
          \A i \in Id : rows[i] # None /\ Accepts(Reading(i)) => Recovered(i)
    BY <2>1 DEF RecoveryInv, RereadProgress
  <2>3. reread \in {"no", "running", "done"}
    BY <1>1 DEF StoreInv, TypeOK
  <2> QED
    BY <1>4, <1>5, <2>1, <2>2, <2>3
<1>9. CASE Crash
  <2>1. /\ rows' = rows /\ kind' = kind /\ contract' = contract
        /\ reread' = IF reread = "running" THEN "no" ELSE reread
    BY <1>9 DEF Crash
  <2>2. reread \in {"no", "running", "done"}
    BY <1>1 DEF StoreInv, TypeOK
  <2> QED
    BY <1>4, <1>5, <2>1, <2>2
<1>10. CASE ResetCursor \/ UNCHANGED vars \/ \E e \in queue : Drain(e)
  <2>1. /\ rows' = rows /\ kind' = kind /\ contract' = contract /\ running' = running
        /\ todo' = todo /\ reread' = reread
    BY <1>10 DEF ResetCursor, vars, history, Drain
  <2>2. reread = "running" =>
          /\ running
          /\ \A i \in Id \ todo : rows[i] # None /\ Accepts(Reading(i)) => Recovered(i)
    BY DEF RecoveryInv, RereadProgress
  <2>3. reread \in {"no", "running", "done"}
    BY <1>1 DEF StoreInv, TypeOK
  <2> QED
    BY <1>4, <1>5, <2>1, <2>2, <2>3
<1> QED
  BY <1>2, <1>6, <1>7, <1>8, <1>9, <1>10 DEF Next, Put, DeclareSpelling

(* After a pass from a reset watermark every row the present contract      *)
(* accepts is in the CRM, or queued whole: the way back for a ticket whose *)
(* dead-letter row was emptied (ticket_source.py:439).                     *)
THEOREM RereadAlwaysRecovers == Spec => []RereadRecovers
<1>1. Init => RecoveryInv
  BY StoreInit DEF Init, RecoveryInv, RereadProgress, RereadRecovers
<1>2. RecoveryInv => RereadRecovers
  BY DEF RecoveryInv
<1> QED
  BY <1>1, <1>2, RecoveryStep, PTL DEF Spec

---------------------------------------------------------------------------
(* Renames.                                                                *)

(* Two rows that differ by nothing but declared spellings read the same.   *)
LEMMA SameValuesReadSame ==
  ASSUME kind \in Kind, NEW i \in Id, NEW q \in Feed(kind, i), NEW r \in Feed(kind, i),
         Values(q) = Values(r), ~Moved(r), Identity(i, q) = Identity(i, r)
  PROVE  ~Moved(q) /\ Read(i, q) = Read(i, r)
<1>1. /\ q \in Row /\ r \in Row
      /\ q.sent \in [Field -> Sending] /\ r.sent \in [Field -> Sending]
  BY FeedRow
<1>2. /\ Values(q).stamp = q.stamp /\ Values(r).stamp = r.stamp
      /\ Values(q).addressed = q.addressed /\ Values(r).addressed = r.addressed
      /\ Values(q).sent = [f \in Field |-> IF q.sent[f] \in {"alias", "reshaped"}
                                           THEN "first" ELSE q.sent[f]]
      /\ Values(r).sent = [f \in Field |-> IF r.sent[f] \in {"alias", "reshaped"}
                                           THEN "first" ELSE r.sent[f]]
  BY <1>1 DEF Values, Row
<1>3. \A f \in Field : \/ q.sent[f] = r.sent[f]
                       \/ {q.sent[f], r.sent[f]} \subseteq {"first", "alias", "reshaped"}
  <2> TAKE f \in Field
  <2>1. (IF q.sent[f] \in {"alias", "reshaped"} THEN "first" ELSE q.sent[f])
          = (IF r.sent[f] \in {"alias", "reshaped"} THEN "first" ELSE r.sent[f])
    BY <1>2
  <2> QED
    BY <2>1
<1>4. \A f \in Field : q.sent[f] # "moved" /\ r.sent[f] # "moved"
  BY <1>3 DEF Moved
<1>5. Missing(q) = Missing(r) /\ Columns(q) = Columns(r) /\ Unmapped(q) = Unmapped(r)
  BY <1>3, <1>4 DEF Missing, Columns, Unmapped, Undeclared, Field
<1> QED
  BY <1>2, <1>4, <1>5 DEF Read, Moved

LEMMA LandingRewrites ==
  ASSUME StoreInv, NEW raw, NEW r, EntrySound(Entry(raw, r)), Accepts(raw), Land(raw, r),
         NEW id \in Identities, crm[id] # NoRecord, crm'[id] # crm[id]
  PROVE  Values(crm[id].row) # Values(crm'[id].row) \/ Moved(crm'[id].row)
<1> SUFFICES ASSUME Values(crm[id].row) = Values(crm'[id].row), ~Moved(crm'[id].row)
             PROVE  FALSE
  OBVIOUS
<1>1. id = raw.id /\ crm'[id] = Entry(raw, r) /\ MayWin(raw)
  BY LandStep
<1>2. crm'[id].row = r /\ crm'[id].raw = raw
  BY <1>1 DEF Entry
<1> DEFINE i == Origin(Entry(raw, r))
<1>3. /\ i = id[1] /\ i \in Id /\ r \in Feed(kind, i) /\ kind \in Kind
      /\ raw.id = Identity(i, r) /\ raw = Read(i, r)
  BY <1>1, <1>2 DEF EntrySound, Entry, Origin, StoreInv, TypeOK
<1>4. /\ EntrySound(crm[id]) /\ crm[id].raw.id = id /\ Origin(crm[id]) = i
  BY <1>3 DEF StoreInv, LandedSound, Origin
<1>5. /\ crm[id].row \in Feed(kind, i) /\ id = Identity(i, crm[id].row)
      /\ ~Moved(crm[id].row) => crm[id].raw = Read(i, crm[id].row)
  BY <1>4 DEF EntrySound
<1>6. crm[id].raw = raw
  <2> HIDE DEF i
  <2> QED
    BY <1>1, <1>2, <1>3, <1>5, SameValuesReadSame
<1> QED
  BY <1>1, <1>6 DEF MayWin

(* "A rename alone never rewrites your rows" (RUNBOOK.md:290), nor does a  *)
(* change of shape.                                                        *)
THEOREM RenamesRewriteNothing == Spec => RenameRewritesNothing
<1> DEFINE Rewrites(id) ==
      crm[id] # NoRecord /\ crm'[id] # crm[id] =>
        \/ Values(crm[id].row) # Values(crm'[id].row)
        \/ \E f \in Field : crm'[id].row.sent[f] = "moved"
<1>1. StoreInv /\ [Next]_vars => [\A id \in Identities : Rewrites(id)]_vars
  <2> SUFFICES ASSUME StoreInv, [Next]_vars, NEW id \in Identities PROVE Rewrites(id)
    OBVIOUS
  <2>1. CASE crm' = crm
    BY <2>1
  <2>2. ASSUME NEW i \in Id, ReadSound(i) PROVE Rewrites(id)
    <3>1. EntrySound(Entry(Reading(i), rows[i]))
      BY <2>2, ReadingOfRow DEF ReadSound, Handled, StoreInv, TodoListed
    <3> QED
      BY <2>2, <3>1, LandingRewrites DEF ReadSound, Moved
  <2>3. ASSUME NEW e \in queue, Drain(e) PROVE Rewrites(id)
    <3>1. EntrySound(Entry(e.raw, e.row))
      BY DEF StoreInv, QueueSound, EntrySound, Entry, Origin, KeepsAll, BlankAsSent
    <3> QED
      BY <2>3, <3>1, LandingRewrites DEF Drain, Moved
  <2>4. \/ crm' = crm
        \/ \E i \in Id : ReadSound(i)
        \/ \E e \in queue : Drain(e)
    BY DEF Next, vars, Put, ReadPoison, ReadFailing, StartPass, EndPass, Crash,
           ResetCursor, DeclareSpelling
  <2> QED
    BY <2>1, <2>2, <2>3, <2>4
<1>2. [\A id \in Identities : Rewrites(id)]_vars =>
        [\A id \in Identities :
           crm[id] # NoRecord /\ crm'[id] # crm[id] =>
             \/ Values(crm[id].row) # Values(crm'[id].row)
             \/ \E f \in Field : crm'[id].row.sent[f] = "moved"]_vars
  OBVIOUS
<1> HIDE DEF Rewrites
<1> QED
  BY <1>1, <1>2, StoreInit, StoreStep, PTL DEF Spec, RenameRewritesNothing

=============================================================================
