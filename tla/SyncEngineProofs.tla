----------------------------- MODULE SyncEngineProofs -----------------------------
(* Theorems about SyncEngine, for every value of its constants.            *)
EXTENDS SyncEngine, TLAPS

(* What add_dead_letter() writes keeps the dead-letter table well typed.   *)
LEMMA AddDeadLetterType ==
  ASSUME TypeOK, NEW r \in Raw, NEW c \in Categories \union {"none"},
         AddDeadLetter(r, c)
  PROVE  QueueTypeOK'
BY RawAssumption DEF AddDeadLetter, TypeOK, QueueTypeOK, Dropped, RawRecord

LEMMA AnySourceType == AnySource \in Source
BY SlotsAssumption DEF AnySource

(* A reset process is well typed whatever ran before.                      *)
LEMMA ResetType ==
  ASSUME ProcessReset PROVE ProcessTypeOK'
BY AnySourceType, AttemptsAssumption DEF ProcessReset, ProcessTypeOK

LEMMA InitType == Init => TypeOK
<1> SUFFICES ASSUME Init PROVE TypeOK
    OBVIOUS
<1>1. \A k \in Slot : auditWrites[k] = <<>>
    BY DEF Init
<1>2. auditWrites \in [Slot -> Seq([old : Nat, new : Nat])]
    BY <1>1 DEF Init
<1> QED
    BY <1>2, AnySourceType, AttemptsAssumption
    DEF Init, TypeOK, DatabaseTypeOK, QueueTypeOK, ProcessTypeOK, VersionOrNothing, HashRanks, Nothing, NoRow, NoJob

---------------------------------------------------------------------------
(* The process and the queue.                                              *)

(* An open dead-letter row holds a raw record of its own key.              *)
RowSound ==
  \A k \in Slot : dlq[k].open => /\ dlq[k].payload \in Raw
                                 /\ dlq[k].payload.slot = k
                                 /\ dlq[k].category \in Categories

(* What is being applied passed normalize().                               *)
JobSound ==
  /\ pc = "apply" => job \in Jobs /\ Normalizes(job.raw, job.raw.slot \in Key)
  /\ pc \in {"reapply", "resolve"} => job \in Jobs /\ Normalizes(job.raw, HasKey(job))

RowOf(row) == [payload |-> row.raw, category |-> row.category, open |-> TRUE]

(* The rows a drain listed are still in the queue as it listed them, and   *)
(* the row in hand is none of those still to do: nothing but the drain     *)
(* itself touches the queue while it runs.                                 *)
QueueListed ==
  /\ \A row \in todo : dlq[row.raw.slot] = RowOf(row)
  /\ pc \in {"reapply", "resolve"} =>
       /\ dlq[job.raw.slot] = RowOf(job)
       /\ \A row \in todo : row.raw.slot # job.raw.slot
  /\ pc \in {"idle", "pull", "apply"} => todo = {}

ProcInv == TypeOK /\ RowSound /\ JobSound /\ QueueListed

LEMMA InitProc == Init => ProcInv
BY InitType DEF ProcInv, Init, RowSound, JobSound, QueueListed, NoRow

(* The record in hand is a raw record of a key the store knows, sound, and *)
(* with a real event time and hash.                                        *)
LEMMA JobRaw ==
  ASSUME TypeOK, JobSound, pc \in {"apply", "reapply", "resolve"}
  PROVE  /\ job \in Jobs
         /\ job.raw \in Raw /\ job.raw.valid
         /\ job.raw.slot \in Slot
         /\ job.raw.at \in Nat \ {0} /\ job.raw.hash \in Nat \ {0}
         /\ job.raw.notes \subseteq Note /\ job.raw.parties \subseteq Party
BY RawAssumption DEF JobSound, Jobs, Normalizes, RawRecord

(* A returned decision keeps everything but the database well typed.       *)
LEMMA AppliedType ==
  ASSUME TypeOK, JobSound, Applying, Applied(job.raw)
  PROVE  /\ ProcessTypeOK' /\ QueueTypeOK'
         /\ cursor' \in [Source -> Nat]
         /\ applied' \subseteq Raw /\ owed' \subseteq Raw /\ retired' \subseteq Raw
BY JobRaw, AttemptsAssumption
   DEF Applied, Applying, TypeOK, QueueTypeOK, ProcessTypeOK, Latest

LEMMA RecordDriftType ==
  ASSUME TypeOK, NEW r \in Raw, RecordDrift(r)
  PROVE  auditDrift' \in [Slot -> [Note -> Nat]]
BY RawAssumption DEF RecordDrift, TypeOK, DatabaseTypeOK, NewNotes, RawRecord

LEMMA StepProc == ProcInv /\ [Next]_vars => ProcInv'
<1> SUFFICES ASSUME ProcInv, [Next]_vars PROVE ProcInv'
    OBVIOUS
<1> USE RawAssumption, SlotsAssumption, AttemptsAssumption
<1>1. ASSUME NEW s \in Source, StartRun(s) PROVE ProcInv'
    BY <1>1 DEF ProcInv, StartRun, TypeOK, DatabaseTypeOK, QueueTypeOK, ProcessTypeOK, RowSound, JobSound, QueueListed, StartingWatermark, dbVars, historyVars
<1>2. ASSUME NEW r \in batch, Pull(r) PROVE ProcInv'
    BY <1>2 DEF ProcInv, Pull, TypeOK, DatabaseTypeOK, QueueTypeOK, ProcessTypeOK, RowSound, JobSound, QueueListed, dbVars, historyVars, Jobs
<1>3. ASSUME NEW r \in batch, PullPoison(r) PROVE ProcInv'
  <2>1. TypeOK'
    BY <1>3, AddDeadLetterType DEF TypeOK, DatabaseTypeOK, QueueTypeOK, ProcessTypeOK, ProcInv, PullPoison, dbVars, CategoryOf, Categories
  <2>2. RowSound'
    BY <1>3 DEF RowSound, ProcInv, PullPoison, TypeOK, DatabaseTypeOK, QueueTypeOK, ProcessTypeOK, AddDeadLetter, CategoryOf, Categories, RawRecord
  <2>3. JobSound'
    BY <1>3 DEF JobSound, ProcInv, PullPoison
  <2>4. QueueListed'
    BY <1>3 DEF QueueListed, ProcInv, PullPoison
  <2> QED
    BY <2>1, <2>2, <2>3, <2>4 DEF ProcInv
<1>4. ASSUME NEW adv \in BOOLEAN, FinishRun(adv) PROVE ProcInv'
    BY <1>4, ResetType DEF ProcInv, FinishRun, TypeOK, DatabaseTypeOK, QueueTypeOK, ProcessTypeOK, RowSound, JobSound, QueueListed, dbVars, ProcessReset
<1>5. ASSUME ApplyUnchanged PROVE ProcInv'
  <2>1. TypeOK'
    <3>1. DatabaseTypeOK'
      BY <1>5, JobRaw, RecordDriftType DEF ProcInv, ApplyUnchanged, Applying, TypeOK, DatabaseTypeOK
    <3> QED
      BY <3>1, <1>5, AppliedType DEF ProcInv, ApplyUnchanged, TypeOK
  <2>2. RowSound'
    BY <1>5 DEF RowSound, ProcInv, ApplyUnchanged, Applied, Applying
  <2>3. JobSound'
    BY <1>5 DEF JobSound, ProcInv, ApplyUnchanged, Applied, Applying
  <2>4. QueueListed'
    BY <1>5 DEF QueueListed, ProcInv, ApplyUnchanged, Applied, Applying
  <2> QED
    BY <2>1, <2>2, <2>3, <2>4 DEF ProcInv
<1>6. ASSUME ApplyConflict PROVE ProcInv'
  <2>1. TypeOK'
    <3>1. DatabaseTypeOK'
      <4>1. job.raw.slot \in Slot /\ job.raw.hash \in HashRanks
        BY <1>6, JobRaw DEF ProcInv, ApplyConflict, Applying, HashRanks
      <4>2. auditConflicts' \in [Slot -> [HashRanks -> Nat]]
        <5>1. auditConflicts[job.raw.slot] \in [HashRanks -> Nat]
          BY <4>1 DEF ProcInv, TypeOK, DatabaseTypeOK
        <5>2. [auditConflicts[job.raw.slot] EXCEPT ![job.raw.hash] = @ + 1] \in [HashRanks -> Nat]
          BY <4>1, <5>1
        <5> QED
          BY <4>1, <5>2, <1>6 DEF ProcInv, ApplyConflict, TypeOK, DatabaseTypeOK
      <4> QED
        BY <4>2, <1>6 DEF ProcInv, ApplyConflict, TypeOK, DatabaseTypeOK
    <3> QED
      BY <3>1, <1>6, AppliedType DEF ProcInv, ApplyConflict, TypeOK
  <2>2. RowSound'
    BY <1>6 DEF RowSound, ProcInv, ApplyConflict, Applied, Applying
  <2>3. JobSound'
    BY <1>6 DEF JobSound, ProcInv, ApplyConflict, Applied, Applying
  <2>4. QueueListed'
    BY <1>6 DEF QueueListed, ProcInv, ApplyConflict, Applied, Applying
  <2> QED
    BY <2>1, <2>2, <2>3, <2>4 DEF ProcInv
<1>7. ASSUME ApplyWrite PROVE ProcInv'
  <2>1. TypeOK'
    <3>1. auditDrift' \in [Slot -> [Note -> Nat]]
      BY <1>7, JobRaw, RecordDriftType DEF ProcInv, ApplyWrite, UpsertParties, UpsertActivity, UpsertProjection, Applying
    <3>2. /\ job.raw.slot \in Slot /\ job.raw.at \in Nat /\ job.raw.hash \in Nat
          /\ job.raw.parties \subseteq Party
      BY <1>7, JobRaw DEF ProcInv, ApplyWrite, UpsertParties, UpsertActivity, UpsertProjection, Applying
    <3>3. ledger[job.raw.slot].hash \in Nat /\ ledger[job.raw.slot].version \in Nat
      BY <3>2 DEF ProcInv, TypeOK, DatabaseTypeOK
    <3>4. activity' \in [Slot -> VersionOrNothing] /\ projection' \in [Slot -> VersionOrNothing]
      BY <3>2, <1>7 DEF ProcInv, ApplyWrite, UpsertParties, UpsertActivity, UpsertProjection, TypeOK, DatabaseTypeOK, Ver, VersionOrNothing
    <3>5. ledger' \in [Slot -> [hash : Nat, version : Nat]]
      BY <3>2, <3>3, <1>7 DEF ProcInv, ApplyWrite, UpsertParties, UpsertActivity, UpsertProjection, TypeOK, DatabaseTypeOK, LedgerRow
    <3>6. auditWrites' \in [Slot -> Seq([old : Nat, new : Nat])]
      BY <3>2, <3>3, <1>7 DEF ProcInv, ApplyWrite, UpsertParties, UpsertActivity, UpsertProjection, TypeOK, DatabaseTypeOK
    <3>7. DatabaseTypeOK'
      BY <3>1, <3>2, <3>4, <3>5, <3>6, <1>7 DEF ProcInv, ApplyWrite, UpsertParties, UpsertActivity, UpsertProjection, TypeOK, DatabaseTypeOK
    <3> QED
      BY <3>7, <1>7, AppliedType DEF ProcInv, ApplyWrite, UpsertParties, UpsertActivity, UpsertProjection, TypeOK
  <2>2. RowSound'
    BY <1>7 DEF RowSound, ProcInv, ApplyWrite, UpsertParties, UpsertActivity, UpsertProjection, Applied, Applying
  <2>3. JobSound'
    BY <1>7 DEF JobSound, ProcInv, ApplyWrite, UpsertParties, UpsertActivity, UpsertProjection, Applied, Applying
  <2>4. QueueListed'
    BY <1>7 DEF QueueListed, ProcInv, ApplyWrite, UpsertParties, UpsertActivity, UpsertProjection, Applied, Applying
  <2> QED
    BY <2>1, <2>2, <2>3, <2>4 DEF ProcInv
<1>8. ASSUME Retry PROVE ProcInv'
    BY <1>8 DEF ProcInv, Retry, TypeOK, DatabaseTypeOK, QueueTypeOK, ProcessTypeOK, RowSound, JobSound, QueueListed, dbVars, historyVars, runVars
<1>9. ASSUME GiveUp PROVE ProcInv'
  <2>1. TypeOK'
    <3>1. QueueTypeOK'
      BY <1>9, JobRaw, AddDeadLetterType DEF ProcInv, GiveUp, Fails, Applying, Categories
    <3> QED
      BY <3>1, <1>9, JobRaw DEF TypeOK, ProcInv, GiveUp, DatabaseTypeOK, ProcessTypeOK, dbVars, Latest
  <2>2. RowSound'
    BY <1>9 DEF RowSound, ProcInv, GiveUp, Fails, Applying, TypeOK, DatabaseTypeOK, QueueTypeOK, ProcessTypeOK, JobSound, Jobs, AddDeadLetter, Categories, RawRecord
  <2>3. JobSound'
    BY <1>9 DEF JobSound, ProcInv, GiveUp, Fails, Applying
  <2>4. QueueListed'
    BY <1>9 DEF QueueListed, ProcInv, GiveUp, Fails, Applying
  <2> QED
    BY <2>1, <2>2, <2>3, <2>4 DEF ProcInv
<1>10. ASSUME DrainGiveUp PROVE ProcInv'
  <2>1. TypeOK'
    <3>1. QueueTypeOK'
      BY <1>10, JobRaw, AddDeadLetterType DEF ProcInv, DrainGiveUp, Fails, Applying, Jobs
    <3> QED
      BY <3>1, <1>10 DEF TypeOK, ProcInv, DrainGiveUp, DatabaseTypeOK, ProcessTypeOK, dbVars, runVars
  <2>2. RowSound'
    BY <1>10 DEF RowSound, ProcInv, DrainGiveUp, Fails, Applying, TypeOK, DatabaseTypeOK, QueueTypeOK, ProcessTypeOK, JobSound, Jobs, QueueListed, AddDeadLetter, Categories, RawRecord, RowOf
  <2>3. JobSound'
    BY <1>10 DEF JobSound, ProcInv, DrainGiveUp, Fails, Applying
  <2>4. QueueListed'
    BY <1>10 DEF QueueListed, ProcInv, DrainGiveUp, Fails, Applying, TypeOK, DatabaseTypeOK, QueueTypeOK, ProcessTypeOK, JobSound, Jobs, AddDeadLetter, RowOf, RawRecord
  <2> QED
    BY <2>1, <2>2, <2>3, <2>4 DEF ProcInv
<1>11. ASSUME StartDrain PROVE ProcInv'
  <2>1. TypeOK'
    BY <1>11 DEF TypeOK, DatabaseTypeOK, QueueTypeOK, ProcessTypeOK, ProcInv, StartDrain, RowSound, dbVars, runVars, historyVars, RowJob, Jobs
  <2>2. RowSound'
    BY <1>11 DEF RowSound, ProcInv, StartDrain
  <2>3. JobSound'
    BY <1>11 DEF JobSound, ProcInv, StartDrain
  <2>4. QueueListed'
    <3>1. ASSUME NEW row \in todo' PROVE dlq'[row.raw.slot] = RowOf(row)
      <4>1. PICK k \in Slot : dlq[k].open /\ row = RowJob(k)
        BY <1>11 DEF StartDrain
      <4>2. row.raw.slot = k
        BY <4>1 DEF ProcInv, RowSound, RowJob
      <4>3. dlq[k] = [payload |-> dlq[k].payload, category |-> dlq[k].category, open |-> TRUE]
        BY <4>1 DEF ProcInv, TypeOK, QueueTypeOK
      <4> QED
        BY <4>1, <4>2, <4>3, <1>11 DEF StartDrain, RowJob, RowOf
    <3> QED
      BY <3>1, <1>11 DEF QueueListed, StartDrain
  <2> QED
    BY <2>1, <2>2, <2>3, <2>4 DEF ProcInv
<1>12. ASSUME NEW row \in todo, DrainApply(row) PROVE ProcInv'
  <2>1. TypeOK'
    BY <1>12 DEF TypeOK, DatabaseTypeOK, QueueTypeOK, ProcessTypeOK, ProcInv, DrainApply, dbVars, runVars, historyVars
  <2>2. RowSound'
    BY <1>12 DEF RowSound, ProcInv, DrainApply
  <2>3. JobSound'
    BY <1>12 DEF JobSound, ProcInv, DrainApply, TypeOK, DatabaseTypeOK, QueueTypeOK, ProcessTypeOK, ProcessTypeOK
  <2>4. QueueListed'
    <3>1. ASSUME NEW other \in todo, other.raw.slot = row.raw.slot PROVE other = row
      <4>1. other \in Jobs /\ row \in Jobs /\ RowOf(other) = RowOf(row)
        BY <3>1, <1>12 DEF ProcInv, QueueListed, TypeOK, ProcessTypeOK
      <4>2. other.raw = row.raw /\ other.category = row.category
        BY <4>1 DEF RowOf
      <4> QED
        BY <4>1, <4>2 DEF Jobs
    <3> QED
      BY <3>1, <1>12 DEF QueueListed, ProcInv, DrainApply
  <2> QED
    BY <2>1, <2>2, <2>3, <2>4 DEF ProcInv
<1>13. ASSUME NEW row \in todo, DrainPoison(row) PROVE ProcInv'
  <2>1. TypeOK'
    BY <1>13, AddDeadLetterType DEF TypeOK, DatabaseTypeOK, QueueTypeOK, ProcessTypeOK, ProcInv, DrainPoison, dbVars, runVars, Jobs
  <2>2. RowSound'
    BY <1>13 DEF RowSound, ProcInv, DrainPoison, TypeOK, DatabaseTypeOK, QueueTypeOK, ProcessTypeOK, Jobs, QueueListed, AddDeadLetter, RawRecord, RowOf
  <2>3. JobSound'
    BY <1>13 DEF JobSound, ProcInv, DrainPoison
  <2>4. QueueListed'
    BY <1>13 DEF QueueListed, ProcInv, DrainPoison, TypeOK, DatabaseTypeOK, QueueTypeOK, ProcessTypeOK, AddDeadLetter, Jobs, RowOf, RawRecord
  <2> QED
    BY <2>1, <2>2, <2>3, <2>4 DEF ProcInv
<1>14. ASSUME Resolve PROVE ProcInv'
  <2>1. TypeOK'
    <3>1. QueueTypeOK'
      BY <1>14, JobRaw DEF TypeOK, QueueTypeOK, ProcInv, Resolve, historyVars
    <3> QED
      BY <3>1, <1>14 DEF TypeOK, DatabaseTypeOK, ProcessTypeOK, ProcInv, Resolve, dbVars, runVars, historyVars
  <2>2. RowSound'
    BY <1>14 DEF RowSound, ProcInv, Resolve, TypeOK, DatabaseTypeOK, QueueTypeOK, ProcessTypeOK
  <2>3. JobSound'
    BY <1>14 DEF JobSound, ProcInv, Resolve
  <2>4. QueueListed'
    BY <1>14 DEF QueueListed, ProcInv, Resolve, TypeOK, DatabaseTypeOK, QueueTypeOK, ProcessTypeOK, RowOf, JobSound, Jobs, RawRecord
  <2> QED
    BY <2>1, <2>2, <2>3, <2>4 DEF ProcInv
<1>15. ASSUME EndDrain PROVE ProcInv'
  <2>1. TypeOK'
    BY <1>15, ResetType DEF TypeOK, DatabaseTypeOK, QueueTypeOK, ProcessTypeOK, ProcInv, EndDrain, ProcessReset, dbVars, historyVars
  <2>2. RowSound'
    BY <1>15 DEF RowSound, ProcInv, EndDrain, ProcessReset
  <2>3. JobSound'
    BY <1>15 DEF JobSound, ProcInv, EndDrain, ProcessReset
  <2>4. QueueListed'
    BY <1>15 DEF QueueListed, ProcInv, EndDrain, ProcessReset
  <2> QED
    BY <2>1, <2>2, <2>3, <2>4 DEF ProcInv
<1>16. ASSUME Stop PROVE ProcInv'
  <2>1. TypeOK'
    BY <1>16, ResetType DEF TypeOK, DatabaseTypeOK, QueueTypeOK, ProcessTypeOK, ProcInv, Stop, ProcessReset, dbVars, historyVars
  <2>2. RowSound'
    BY <1>16 DEF RowSound, ProcInv, Stop, ProcessReset
  <2>3. JobSound'
    BY <1>16 DEF JobSound, ProcInv, Stop, ProcessReset
  <2>4. QueueListed'
    BY <1>16 DEF QueueListed, ProcInv, Stop, ProcessReset
  <2> QED
    BY <2>1, <2>2, <2>3, <2>4 DEF ProcInv
<1>17. ASSUME NEW s \in Source, ResetCursor(s) PROVE ProcInv'
    BY <1>17 DEF ProcInv, ResetCursor, TypeOK, DatabaseTypeOK, QueueTypeOK, ProcessTypeOK, RowSound, JobSound, QueueListed, dbVars, historyVars, runVars, RawRecord
<1>18. ASSUME NEW k \in Slot, RetireRow(k) PROVE ProcInv'
  <2>1. TypeOK'
    BY <1>18 DEF TypeOK, DatabaseTypeOK, QueueTypeOK, ProcessTypeOK, ProcInv, RetireRow, dbVars, runVars, Dropped
  <2>2. RowSound'
    BY <1>18 DEF RowSound, ProcInv, RetireRow, TypeOK, DatabaseTypeOK, QueueTypeOK, ProcessTypeOK
  <2>3. JobSound'
    BY <1>18 DEF JobSound, ProcInv, RetireRow, runVars
  <2>4. QueueListed'
    BY <1>18 DEF QueueListed, ProcInv, RetireRow
  <2> QED
    BY <2>1, <2>2, <2>3, <2>4 DEF ProcInv
<1>19. ASSUME NEW k \in Slot, NEW r \in Raw, FixPayload(k, r) PROVE ProcInv'
  <2>1. TypeOK'
    <3>1. [dlq[k] EXCEPT !.payload = r]
             \in [payload : Raw \union {NoRaw}, category : Categories \union {"none"}, open : BOOLEAN]
      BY <1>19 DEF ProcInv, TypeOK, QueueTypeOK
    <3> QED
      BY <3>1, <1>19 DEF TypeOK, DatabaseTypeOK, QueueTypeOK, ProcessTypeOK, ProcInv, FixPayload, dbVars, runVars, Dropped
  <2>2. RowSound'
    BY <1>19 DEF RowSound, ProcInv, FixPayload, TypeOK, DatabaseTypeOK, QueueTypeOK, ProcessTypeOK
  <2>3. JobSound'
    BY <1>19 DEF JobSound, ProcInv, FixPayload, runVars
  <2>4. QueueListed'
    BY <1>19 DEF QueueListed, ProcInv, FixPayload
  <2> QED
    BY <2>1, <2>2, <2>3, <2>4 DEF ProcInv
<1>20. ASSUME UNCHANGED vars PROVE ProcInv'
    BY <1>20 DEF ProcInv, vars, TypeOK, DatabaseTypeOK, QueueTypeOK, ProcessTypeOK, RowSound, JobSound, QueueListed, dbVars, historyVars, runVars
<1> QED
    BY <1>1, <1>2, <1>3, <1>4, <1>5, <1>6, <1>7, <1>8, <1>9, <1>10, <1>11, <1>12,
       <1>13, <1>14, <1>15, <1>16, <1>17, <1>18, <1>19, <1>20
    DEF Next, Run, Apply, Drain, Operate

(* The store, the queue and the engine's locals stay well typed, whatever  *)
(* the sources deliver and wherever the process stops.                     *)
THEOREM TypeCorrect == Spec => []TypeOK
<1>1. Spec => []ProcInv
  BY InitProc, StepProc, PTL DEF Spec
<1> QED
  BY <1>1, PTL DEF ProcInv

---------------------------------------------------------------------------
(* The register: what the activity shows against what was applied.         *)

(* Every record whose apply returned is on file or beaten.                 *)
AppliedShown ==
  \A r \in applied : /\ r.valid
                     /\ Recorded(r.slot)
                     /\ ~Later(Ver(r), activity[r.slot])

(* Whatever a key shows was applied.                                       *)
ShownApplied ==
  \A k \in Slot : Recorded(k) => \E q \in applied : q.slot = k /\ Ver(q) = activity[k]

RegInv == ProcInv /\ LedgerMatchesActivity /\ AppliedShown /\ ShownApplied

(* The version order is a strict total order on event time and hash rank.  *)
LEMMA LaterOrder ==
  ASSUME NEW u \in VersionOrNothing, NEW v \in VersionOrNothing, NEW w \in VersionOrNothing
  PROVE  /\ ~Later(u, u)
         /\ ~Later(u, v) /\ Later(w, v) => ~Later(u, w)
BY DEF Later, VersionOrNothing

(* An unchanged record is the very version the key shows: equal hashes     *)
(* mean equal event times.                                                 *)
LEMMA UnchangedShown ==
  ASSUME RegInv, Applying, Unchanged(job.raw)
  PROVE  Ver(job.raw) = activity[job.raw.slot]
<1> DEFINE k == job.raw.slot
<1>1. job.raw \in Raw /\ job.raw.valid /\ k \in Slot
  BY JobRaw DEF RegInv, ProcInv, Applying
<1>2. PICK q \in applied : q.slot = k /\ Ver(q) = activity[k]
  BY <1>1 DEF RegInv, ShownApplied, Unchanged
<1>3. q \in Raw /\ q.valid
  BY DEF RegInv, ProcInv, TypeOK, AppliedShown
<1>4. q.hash = job.raw.hash
  BY <1>1, <1>2 DEF RegInv, LedgerMatchesActivity, Unchanged, Ver
<1>5. q.at = job.raw.at
  BY <1>1, <1>3, <1>4, HashAssumption
<1> QED
  BY <1>2, <1>4, <1>5 DEF Ver

(* _decide() writes exactly when the record beats what the key shows.      *)
LEMMA WriteIffLater ==
  ASSUME RegInv, Applying
  PROVE  ~Unchanged(job.raw) /\ Wins(job.raw) <=> Later(Ver(job.raw), activity[job.raw.slot])
<1> DEFINE k == job.raw.slot
<1>1. /\ job.raw \in Raw /\ k \in Slot
      /\ job.raw.at \in Nat \ {0} /\ job.raw.hash \in Nat \ {0}
  BY JobRaw DEF RegInv, ProcInv, Applying
<1>2. activity[k] \in VersionOrNothing /\ Ver(job.raw) \in VersionOrNothing
  BY <1>1 DEF RegInv, ProcInv, TypeOK, DatabaseTypeOK, Ver, VersionOrNothing
<1>3. ledger[k].hash = activity[k].hash /\ (Recorded(k) <=> activity[k] # Nothing)
  BY <1>1 DEF RegInv, LedgerMatchesActivity
<1>4. CASE Unchanged(job.raw)
  BY <1>2, <1>4, UnchangedShown, LaterOrder
<1>5. CASE ~Unchanged(job.raw) /\ Recorded(k)
  BY <1>1, <1>2, <1>3, <1>5 DEF Wins, Later, Ver
<1>6. CASE ~Unchanged(job.raw) /\ ~Recorded(k)
  BY <1>1, <1>3, <1>6 DEF Wins, Later, Ver, Nothing
<1> QED
  BY <1>4, <1>5, <1>6

(* What an apply that returns does to the register: the record is offered, *)
(* and shown if it is later.                                               *)
ApplyReturns == ApplyUnchanged \/ ApplyConflict \/ ApplyWrite

LEMMA ReturnOffers ==
  ASSUME RegInv, ApplyReturns
  PROVE  /\ Applying
         /\ applied' = applied \union {job.raw}
         /\ activity' = [activity EXCEPT ![job.raw.slot] =
              IF Later(Ver(job.raw), @) THEN Ver(job.raw) ELSE @]
<1> DEFINE k == job.raw.slot
<1>1. Applying /\ applied' = applied \union {job.raw}
  BY DEF ApplyReturns, ApplyUnchanged, ApplyConflict, ApplyWrite, UpsertParties, UpsertActivity, UpsertProjection, Applied
<1>2. k \in Slot /\ activity = [activity EXCEPT ![k] = @]
  BY <1>1, JobRaw DEF RegInv, ProcInv, Applying, TypeOK, DatabaseTypeOK
<1>3. CASE ApplyWrite
  BY <1>1, <1>2, <1>3, WriteIffLater DEF ApplyWrite, UpsertParties, UpsertActivity, UpsertProjection
<1>4. CASE ApplyUnchanged \/ ApplyConflict
  BY <1>1, <1>2, <1>4, WriteIffLater DEF ApplyUnchanged, ApplyConflict
<1> QED
  BY <1>1, <1>3, <1>4 DEF ApplyReturns

(* Every other step leaves the content tables and the history of applies   *)
(* alone.                                                                  *)
LEMMA OthersLeaveRegister ==
  ASSUME [Next]_vars, ~ApplyReturns
  PROVE  UNCHANGED <<dbVars, applied>>
BY DEF Next, Run, Apply, Drain, Operate, ApplyReturns, vars, dbVars, historyVars,
       StartRun, PullPoison, Pull, FinishRun, Retry, GiveUp, StartDrain, DrainApply,
       DrainPoison, DrainGiveUp, Resolve, EndDrain, Stop, ResetCursor, RetireRow, FixPayload

LEMMA InitReg == Init => RegInv
BY InitProc DEF RegInv, Init, LedgerMatchesActivity, AppliedShown, ShownApplied, Recorded, Nothing

LEMMA StepReg == RegInv /\ [Next]_vars => RegInv'
<1> SUFFICES ASSUME RegInv, [Next]_vars PROVE RegInv'
  OBVIOUS
<1>1. ProcInv'
  BY StepProc DEF RegInv
<1>2. CASE ~ApplyReturns
  BY <1>1, <1>2, OthersLeaveRegister
  DEF RegInv, dbVars, LedgerMatchesActivity, AppliedShown, ShownApplied, Recorded
<1>3. CASE ApplyReturns
  <2> DEFINE r == job.raw  k == job.raw.slot
  <2>1. /\ Applying
        /\ applied' = applied \union {r}
        /\ activity' = [activity EXCEPT ![k] = IF Later(Ver(r), @) THEN Ver(r) ELSE @]
    BY <1>3, ReturnOffers
  <2>2. /\ r \in Raw /\ r.valid /\ k \in Slot
        /\ r.at \in Nat \ {0} /\ r.hash \in Nat \ {0}
    BY <2>1, JobRaw DEF RegInv, ProcInv, Applying
  <2>3. /\ activity \in [Slot -> VersionOrNothing] /\ Ver(r) \in VersionOrNothing
        /\ ledger \in [Slot -> [hash : Nat, version : Nat]]
        /\ applied \subseteq Raw
    BY <2>2 DEF RegInv, ProcInv, TypeOK, DatabaseTypeOK, Ver, VersionOrNothing
  <2>4. CASE Later(Ver(r), activity[k])
    <3>1. activity' = [activity EXCEPT ![k] = Ver(r)]
      BY <2>1, <2>4
    <3>2. ledger' = [ledger EXCEPT ![k] = LedgerRow(r)]
      BY <1>3, <2>1, <2>4, WriteIffLater DEF ApplyReturns, ApplyUnchanged, ApplyConflict, ApplyWrite, UpsertParties, UpsertActivity, UpsertProjection
    <3>3. \A j \in Slot : IF j = k THEN Recorded(j)' /\ ledger'[j].hash = r.hash
                                   ELSE (Recorded(j)' <=> Recorded(j)) /\ ledger'[j] = ledger[j]
      BY <2>2, <2>3, <3>2 DEF Recorded, LedgerRow
    <3>4. LedgerMatchesActivity'
      BY <2>2, <2>3, <3>1, <3>3 DEF RegInv, LedgerMatchesActivity, Ver, Nothing
    <3>5. AppliedShown'
      <4> SUFFICES ASSUME NEW q \in applied'
                   PROVE  q.valid /\ Recorded(q.slot)' /\ ~Later(Ver(q), activity'[q.slot])
        BY DEF AppliedShown
      <4>1. q \in Raw /\ q.slot \in Slot /\ Ver(q) \in VersionOrNothing
        BY <2>1, <2>2, <2>3, RawAssumption DEF RawRecord, Ver, VersionOrNothing
      <4>2. CASE q = r
        BY <2>2, <2>3, <3>1, <3>3, <4>2, LaterOrder
      <4>3. CASE q # r
        <5>1. q.valid /\ Recorded(q.slot) /\ ~Later(Ver(q), activity[q.slot])
          BY <2>1, <4>3 DEF RegInv, AppliedShown
        <5>2. CASE q.slot = k
          BY <2>2, <2>3, <2>4, <3>1, <3>3, <4>1, <5>1, <5>2, LaterOrder
        <5>3. CASE q.slot # k
          BY <3>1, <3>3, <4>1, <5>1, <5>3, <2>3
        <5> QED
          BY <5>2, <5>3
      <4> QED
        BY <4>2, <4>3
    <3>6. ShownApplied'
      BY <2>1, <2>2, <2>3, <3>1, <3>3 DEF RegInv, ShownApplied
    <3> QED
      BY <1>1, <3>4, <3>5, <3>6 DEF RegInv
  <2>5. CASE ~Later(Ver(r), activity[k])
    <3>1. activity' = activity
      BY <2>1, <2>3, <2>5
    <3>2. ledger' = ledger
      BY <1>3, <2>1, <2>5, WriteIffLater DEF ApplyReturns, ApplyUnchanged, ApplyConflict, ApplyWrite, UpsertParties, UpsertActivity, UpsertProjection
    <3>3. Recorded(k)
      BY <2>2, <2>3, <2>5 DEF RegInv, LedgerMatchesActivity, Later, Ver, Nothing
    <3> QED
      BY <1>1, <2>1, <2>2, <2>5, <3>1, <3>2, <3>3
      DEF RegInv, LedgerMatchesActivity, AppliedShown, ShownApplied, Recorded
  <2> QED
    BY <2>4, <2>5
<1> QED
  BY <1>2, <1>3

LEMMA RegInvariant == Spec => []RegInv
BY InitReg, StepReg, PTL DEF Spec

(* The ledger never vouches for content the activity does not show, through*)
(* rolled back transactions, crashes, drains and cursor resets.            *)
THEOREM LedgerNeverDiverges == Spec => []LedgerMatchesActivity
BY RegInvariant, PTL DEF RegInv

(* The engine implements the last-write-wins register.                     *)
THEOREM EngineRefinesRegister == Spec => ImplementsRegister
<1> DEFINE offers == [k \in Slot |-> {Ver(r) : r \in {q \in applied : q.slot = k}}]
<1>1. Init => Register!Init
  BY DEF Init, Register!Init, Register!NoVersion, Nothing
<1>2. RegInv /\ [Next]_vars => [Register!Next]_(Register!vars)
  <2> SUFFICES ASSUME RegInv, [Next]_vars
               PROVE  Register!Next \/ UNCHANGED Register!vars
    OBVIOUS
  <2>1. CASE ~ApplyReturns
    BY <2>1, OthersLeaveRegister DEF Register!vars, dbVars
  <2>2. CASE ApplyReturns
    <3> DEFINE r == job.raw  k == job.raw.slot
    <3>1. /\ Applying
          /\ applied' = applied \union {r}
          /\ activity' = [activity EXCEPT ![k] = IF Later(Ver(r), @) THEN Ver(r) ELSE @]
      BY <2>2, ReturnOffers
    <3>2. r \in Raw /\ r.valid /\ k \in Slot
      BY <3>1, JobRaw DEF RegInv, ProcInv, Applying
    <3>3. offers' = [offers EXCEPT ![k] = @ \union {Ver(r)}]
      <4>1. ASSUME NEW j \in Slot
            PROVE  offers'[j] = IF j = k THEN offers[j] \union {Ver(r)} ELSE offers[j]
        BY <3>1
      <4> QED
        BY <3>2, <4>1
    <3>4. activity' = [activity EXCEPT ![k] = IF Register!Later(Ver(r), @) THEN Ver(r) ELSE @]
      BY <3>1 DEF Later, Register!Later
    <3>5. Ver(r) \in {Ver(q) : q \in {q \in Raw : q.valid}}
      BY <3>2
    <3>6. Register!Next
      BY <3>2, <3>3, <3>4, <3>5 DEF Register!Next, Register!Offer
    <3> QED
      BY <3>6
  <2> QED
    BY <2>1, <2>2
<1> QED
  BY <1>1, <1>2, RegInvariant, PTL DEF Spec, ImplementsRegister, Register!Spec

(* So at every moment a key shows the latest of all the versions whose     *)
(* apply ever returned, in whatever order they came (sync_engine.py:17-21).*)
THEOREM EngineShowsLatest == Spec => []Register!HoldsLatest
<1>1. RegInv => Register!HoldsLatest
  <2> SUFFICES ASSUME RegInv, NEW k \in Slot
               PROVE  /\ activity[k] \in {Ver(r) : r \in {q \in applied : q.slot = k}} \union {Nothing}
                      /\ \A v \in {Ver(r) : r \in {q \in applied : q.slot = k}} :
                           ~Later(v, activity[k])
    BY DEF Register!HoldsLatest, Register!Later, Register!NoVersion, Later, Nothing
  <2>1. activity[k] # Nothing => \E q \in applied : q.slot = k /\ Ver(q) = activity[k]
    BY DEF RegInv, LedgerMatchesActivity, ShownApplied
  <2>2. \A q \in applied : q.slot = k => ~Later(Ver(q), activity[k])
    BY DEF RegInv, AppliedShown
  <2> QED
    BY <2>1, <2>2
<1> QED
  BY <1>1, RegInvariant, PTL

=============================================================================
