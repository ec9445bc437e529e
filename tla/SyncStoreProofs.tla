------------------------------ MODULE SyncStoreProofs ------------------------------
(* Theorems about what SyncEngine leaves in the store: the audit trail and *)
(* the projections, the dead-letter queue and the watermarks.              *)
EXTENDS SyncEngineProofs

---------------------------------------------------------------------------
(* The audit trail and the projections.                                    *)

(* What an apply that returns does to the audit trail and the projection.  *)
LEMMA WriteStep ==
  ASSUME RegInv, ApplyReturns, Later(Ver(job.raw), activity[job.raw.slot])
  PROVE  /\ ApplyWrite
         /\ ledger' = [ledger EXCEPT ![job.raw.slot] = LedgerRow(job.raw)]
         /\ RecordDrift(job.raw)
         /\ auditConflicts' = auditConflicts
<1>1. Applying /\ ~Unchanged(job.raw) /\ Wins(job.raw)
  BY WriteIffLater, ReturnOffers
<1> QED
  BY <1>1 DEF ApplyReturns, ApplyUnchanged, ApplyConflict, ApplyWrite, UpsertParties, UpsertActivity, UpsertProjection

LEMMA NoWriteStep ==
  ASSUME RegInv, ApplyReturns, ~Later(Ver(job.raw), activity[job.raw.slot])
  PROVE  /\ ApplyUnchanged \/ ApplyConflict
         /\ UNCHANGED <<ledger, activity, projection, parties, auditWrites>>
<1>1. ~(~Unchanged(job.raw) /\ Wins(job.raw))
  BY WriteIffLater, ReturnOffers
<1> QED
  BY <1>1 DEF ApplyReturns, ApplyUnchanged, ApplyConflict, ApplyWrite, UpsertParties, UpsertActivity, UpsertProjection

(* The facts about the record in hand that the steps below use.            *)
LEMMA ReturnedRaw ==
  ASSUME RegInv, ApplyReturns
  PROVE  /\ Applying
         /\ job.raw \in Raw /\ job.raw.valid /\ job.raw.slot \in Slot
         /\ job.raw.at \in Nat \ {0} /\ job.raw.hash \in Nat \ {0}
         /\ job.raw.notes \subseteq Note
         /\ Ver(job.raw) \in VersionOrNothing
         /\ ledger \in [Slot -> [hash : Nat, version : Nat]]
         /\ activity \in [Slot -> VersionOrNothing]
         /\ projection \in [Slot -> VersionOrNothing]
         /\ auditWrites \in [Slot -> Seq([old : Nat, new : Nat])]
         /\ auditConflicts \in [Slot -> [HashRanks -> Nat]]
         /\ auditDrift \in [Slot -> [Note -> Nat]]
<1>1. Applying
  BY ReturnOffers
<1> QED
  BY <1>1, JobRaw DEF RegInv, ProcInv, Applying, TypeOK, DatabaseTypeOK, Ver, VersionOrNothing

---------------------------------------------------------------------------
(* The created and updated rows.                                           *)

(* One key's rows replay to one ledger entry.                              *)
Replays(rows, entry) ==
  /\ Len(rows) = entry.version
  /\ \A i \in 1..Len(rows) : rows[i].old = IF i = 1 THEN 0 ELSE rows[i - 1].new
  /\ Len(rows) > 0 => rows[Len(rows)].new = entry.hash

(* Appending the row of a write keeps the replay going.                    *)
LEMMA AppendReplays ==
  ASSUME NEW rows \in Seq([old : Nat, new : Nat]),
         NEW entry \in [hash : Nat, version : Nat],
         Replays(rows, entry), entry.version = 0 => entry.hash = 0,
         NEW h \in Nat
  PROVE  Replays(Append(rows, [old |-> entry.hash, new |-> h]),
                 [hash |-> h, version |-> entry.version + 1])
<1> DEFINE more == Append(rows, [old |-> entry.hash, new |-> h])
           n == Len(rows)
<1>1. n \in Nat /\ Len(more) = n + 1
  OBVIOUS
<1>2. /\ \A i \in 1..n : more[i] = rows[i]
      /\ more[n + 1] = [old |-> entry.hash, new |-> h]
  OBVIOUS
<1>3. n = entry.version
  BY DEF Replays
<1>4. more[n + 1].old = IF n + 1 = 1 THEN 0 ELSE more[n + 1 - 1].new
  BY <1>1, <1>2, <1>3 DEF Replays
<1>5. \A i \in 1..n : more[i].old = IF i = 1 THEN 0 ELSE more[i - 1].new
  BY <1>1, <1>2 DEF Replays
<1> QED
  <2> HIDE DEF more, n
  <2>1. \A i \in 1..Len(more) : i \in 1..n \/ i = n + 1
    BY <1>1
  <2> QED
    BY <1>1, <1>2, <1>3, <1>4, <1>5, <2>1 DEF Replays

(* No step breaks the replay.                                              *)
LEMMA ReplayStays == RegInv /\ AuditReplays /\ [Next]_vars => AuditReplays'
<1> SUFFICES ASSUME RegInv, AuditReplays, [Next]_vars PROVE AuditReplays'
  OBVIOUS
<1>1. CASE ~ApplyReturns
  BY <1>1, OthersLeaveRegister DEF dbVars, AuditReplays
<1>2. CASE ApplyReturns /\ ~Later(Ver(job.raw), activity[job.raw.slot])
  BY <1>2, NoWriteStep DEF AuditReplays
<1>3. CASE ApplyReturns /\ Later(Ver(job.raw), activity[job.raw.slot])
  <2> DEFINE r == job.raw  k == job.raw.slot
  <2>1. /\ ledger' = [ledger EXCEPT ![k] = LedgerRow(r)]
        /\ auditWrites' = [auditWrites EXCEPT ![k] =
             Append(@, [old |-> ledger[k].hash, new |-> r.hash])]
    BY <1>3, WriteStep DEF ApplyWrite, UpsertParties, UpsertActivity, UpsertProjection
  <2>2. k \in Slot /\ r.hash \in Nat
        /\ auditWrites \in [Slot -> Seq([old : Nat, new : Nat])]
        /\ ledger \in [Slot -> [hash : Nat, version : Nat]]
    BY <1>3, ReturnedRaw
  <2>3. \A j \in Slot : Replays(auditWrites[j], ledger[j])
    BY DEF AuditReplays, Replays
  <2>4. ledger[k].version = 0 => ledger[k].hash = 0
    <3>1. ledger[k].version = 0 => activity[k] = Nothing
      BY <2>2 DEF RegInv, LedgerMatchesActivity, Recorded
    <3>2. ledger[k].hash = activity[k].hash
      BY <2>2 DEF RegInv, LedgerMatchesActivity
    <3> QED
      BY <3>1, <3>2 DEF Nothing
  <2>5. Replays(Append(auditWrites[k], [old |-> ledger[k].hash, new |-> r.hash]),
                [hash |-> r.hash, version |-> ledger[k].version + 1])
    BY <2>2, <2>3, <2>4, AppendReplays
  <2>6. \A j \in Slot : Replays(auditWrites'[j], ledger'[j])
    BY <2>1, <2>2, <2>3, <2>5 DEF LedgerRow
  <2> QED
    BY <2>6 DEF AuditReplays, Replays
<1> QED
  BY <1>1, <1>2, <1>3

(* The created and updated rows of a key are the whole history of its      *)
(* ledger entry, one row per version (sync_engine.py:278-306).             *)
THEOREM AuditReplaysAlways == Spec => []AuditReplays
<1>1. Init => AuditReplays
  BY DEF Init, AuditReplays
<1> QED
  BY <1>1, ReplayStays, RegInvariant, PTL DEF Spec

---------------------------------------------------------------------------
(* The conflict and drift rows.                                            *)

DriftInv == RegInv /\ AuditedOnce /\ DriftRecorded

(* Recording drift adds each missing line once.                            *)
LEMMA RecordDriftOnce ==
  ASSUME RegInv, AuditedOnce, NEW r \in Raw, RecordDrift(r)
  PROVE  /\ \A k \in Slot, n \in Note : /\ auditDrift'[k][n] <= 1
                                        /\ auditDrift[k][n] = 1 => auditDrift'[k][n] = 1
         /\ \A n \in r.notes : auditDrift'[r.slot][n] = 1
<1>1. auditDrift \in [Slot -> [Note -> Nat]] /\ r.slot \in Slot /\ r.notes \subseteq Note
  BY RawAssumption DEF RegInv, ProcInv, TypeOK, DatabaseTypeOK, RawRecord
<1>2. \A n \in Note : auditDrift'[r.slot][n] =
        IF n \in r.notes /\ auditDrift[r.slot][n] = 0
        THEN auditDrift[r.slot][n] + 1 ELSE auditDrift[r.slot][n]
  BY <1>1 DEF RecordDrift, NewNotes
<1>3. \A k \in Slot : k # r.slot => auditDrift'[k] = auditDrift[k]
  BY <1>1 DEF RecordDrift
<1>4. \A k \in Slot, n \in Note : auditDrift[k][n] \in Nat /\ auditDrift[k][n] <= 1
  BY <1>1 DEF AuditedOnce
<1> QED
  <2>1. ASSUME NEW k \in Slot, NEW n \in Note
        PROVE  /\ auditDrift'[k][n] <= 1
               /\ auditDrift[k][n] = 1 => auditDrift'[k][n] = 1
    <3>1. CASE k = r.slot
      BY <1>2, <1>4, <3>1
    <3>2. CASE k # r.slot
      BY <1>3, <1>4, <3>2
    <3> QED
      BY <3>1, <3>2
  <2>2. ASSUME NEW n \in r.notes PROVE auditDrift'[r.slot][n] = 1
    <3>1. n \in Note /\ auditDrift[r.slot][n] \in {0, 1}
      BY <1>1, <1>4, <2>2
    <3> QED
      BY <1>2, <2>2, <3>1
  <2> QED
    BY <2>1, <2>2

LEMMA StepDrift == DriftInv /\ [Next]_vars => DriftInv'
<1> SUFFICES ASSUME DriftInv, [Next]_vars PROVE DriftInv'
  OBVIOUS
<1> USE DEF DriftInv
<1>1. RegInv'
  BY StepReg
<1>2. CASE ~ApplyReturns
  BY <1>1, <1>2, OthersLeaveRegister DEF dbVars, AuditedOnce, DriftRecorded, Recorded
<1>3. CASE ApplyReturns
  <2> DEFINE r == job.raw  k == job.raw.slot
  <2>1. /\ r \in Raw /\ k \in Slot /\ r.notes \subseteq Note
        /\ ledger \in [Slot -> [hash : Nat, version : Nat]]
        /\ applied' = applied \union {r}
    BY <1>3, ReturnedRaw, ReturnOffers
  <2>2. CASE ApplyConflict /\ ~Later(Ver(r), activity[k])
    <3>1. UNCHANGED <<ledger, auditDrift>>
      BY <2>2 DEF ApplyConflict
    <3>2. Recorded(k) /\ ledger[k].hash # r.hash
      BY <2>2 DEF ApplyConflict, Unchanged, Wins
    <3>3. \A h \in HashRanks, j \in Slot : auditConflicts'[j][h] <= 1
      <4>1. r.hash \in HashRanks /\ auditConflicts \in [Slot -> [HashRanks -> Nat]]
        BY <2>1, <1>3, ReturnedRaw DEF HashRanks
      <4>2. auditConflicts' = auditConflicts
              \/ /\ auditConflicts[k][r.hash] = 0
                 /\ auditConflicts' = [auditConflicts EXCEPT ![k][r.hash] = @ + 1]
        BY <2>2 DEF ApplyConflict
      <4>3. CASE auditConflicts' = auditConflicts
        BY <4>3 DEF AuditedOnce
      <4>4. CASE /\ auditConflicts[k][r.hash] = 0
                 /\ auditConflicts' = [auditConflicts EXCEPT ![k][r.hash] = @ + 1]
        <5>1. \A j \in Slot, h \in HashRanks : auditConflicts'[j][h] =
                IF j = k /\ h = r.hash THEN 1 ELSE auditConflicts[j][h]
          BY <2>1, <4>1, <4>4
        <5> QED
          BY <5>1 DEF AuditedOnce
      <4> QED
        BY <4>2, <4>3, <4>4
    <3>4. AuditedOnce'
      BY <3>1, <3>3 DEF AuditedOnce
    <3>5. DriftRecorded'
      BY <2>1, <3>1, <3>2 DEF DriftRecorded, Recorded
    <3> QED
      BY <1>1, <3>4, <3>5
  <2>3. CASE ApplyUnchanged /\ ~Later(Ver(r), activity[k])
    <3>1. RecordDrift(r) /\ UNCHANGED <<ledger, auditConflicts>>
      BY <2>3 DEF ApplyUnchanged
    <3>2. /\ \A j \in Slot, n \in Note : /\ auditDrift'[j][n] <= 1
                                         /\ auditDrift[j][n] = 1 => auditDrift'[j][n] = 1
          /\ \A n \in r.notes : auditDrift'[k][n] = 1
      BY <2>1, <3>1, RecordDriftOnce
    <3>3. \A q \in applied : q.slot \in Slot /\ q.notes \subseteq Note
      BY RawAssumption DEF RegInv, ProcInv, TypeOK, RawRecord
    <3>4. AuditedOnce'
      BY <3>1, <3>2 DEF AuditedOnce
    <3>5. DriftRecorded'
      BY <2>1, <3>1, <3>2, <3>3 DEF DriftRecorded, Recorded
    <3> QED
      BY <1>1, <3>4, <3>5
  <2>4. CASE Later(Ver(r), activity[k])
    <3>1. /\ RecordDrift(r) /\ auditConflicts' = auditConflicts
          /\ ledger' = [ledger EXCEPT ![k] = LedgerRow(r)]
      BY <1>3, <2>4, WriteStep
    <3>2. /\ \A j \in Slot, n \in Note : /\ auditDrift'[j][n] <= 1
                                         /\ auditDrift[j][n] = 1 => auditDrift'[j][n] = 1
          /\ \A n \in r.notes : auditDrift'[k][n] = 1
      BY <2>1, <3>1, RecordDriftOnce
    <3>3. \A q \in applied : q \in Raw /\ q.valid /\ q.slot \in Slot /\ q.notes \subseteq Note
      BY RawAssumption DEF RegInv, ProcInv, TypeOK, RawRecord, AppliedShown
    <3>4. AuditedOnce'
      BY <3>1, <3>2 DEF AuditedOnce
    <3>5. ASSUME NEW q \in applied, q.slot = k PROVE q.hash # r.hash
      <4>1. q.hash = r.hash => q.at = r.at
        BY <3>3, <3>5, <2>1, <1>3, ReturnedRaw, HashAssumption
      <4>2. ~Later(Ver(q), activity[k])
        BY <3>5 DEF RegInv, AppliedShown
      <4> QED
        BY <2>4, <4>1, <4>2 DEF Later, Ver
    <3>6. DriftRecorded'
      <4> SUFFICES ASSUME NEW q \in applied', Recorded(q.slot)', ledger'[q.slot].hash = q.hash
                   PROVE  \A n \in q.notes : auditDrift'[q.slot][n] = 1
        BY DEF DriftRecorded
      <4>1. CASE q = r
        BY <4>1, <3>2
      <4>2. CASE q # r /\ q.slot = k
        BY <4>2, <2>1, <3>1, <3>5 DEF LedgerRow
      <4>3. CASE q # r /\ q.slot # k
        <5>1. q \in applied /\ Recorded(q.slot) /\ ledger[q.slot].hash = q.hash
          BY <4>3, <2>1, <3>1, <3>3 DEF Recorded
        <5> QED
          BY <5>1, <3>2, <3>3 DEF DriftRecorded
      <4> QED
        BY <4>1, <4>2, <4>3
    <3> QED
      BY <1>1, <3>4, <3>6
  <2> QED
    BY <1>3, <2>2, <2>3, <2>4, NoWriteStep
<1> QED
  BY <1>2, <1>3

LEMMA DriftInvariant == Spec => []DriftInv
<1>1. Init => DriftInv
  BY InitReg DEF DriftInv, Init, AuditedOnce, DriftRecorded, HashRanks
<1> QED
  BY <1>1, StepDrift, PTL DEF Spec

(* Re-seeing a stale record or a known schema change never adds a second   *)
(* row, in any number of runs and drains.                                  *)
THEOREM AuditedOnceAlways == Spec => []AuditedOnce
BY DriftInvariant, PTL DEF DriftInv

(* The drift lines of whatever a key shows are in the trail.               *)
THEOREM DriftRecordedAlways == Spec => []DriftRecorded
BY DriftInvariant, PTL DEF DriftInv

(* Applying again a record that was applied before writes nothing.         *)
THEOREM RedeliveryWritesNothing == Spec => RedeliveryIsNoOp
<1> DEFINE quiet == Applying /\ job.raw \in applied =>
                      UNCHANGED <<ledger, activity, projection, parties,
                                  auditWrites, auditDrift>>
<1>1. DriftInv /\ [Next]_vars => [quiet]_vars
  <2> SUFFICES ASSUME DriftInv, [Next]_vars, Applying, job.raw \in applied
               PROVE  UNCHANGED <<ledger, activity, projection, parties,
                                  auditWrites, auditDrift>>
    OBVIOUS
  <2>1. CASE ~ApplyReturns
    BY <2>1, OthersLeaveRegister DEF dbVars
  <2>2. CASE ApplyReturns
    <3> DEFINE r == job.raw  k == job.raw.slot
    <3>1. ~Later(Ver(r), activity[k])
      BY DEF DriftInv, RegInv, AppliedShown
    <3>2. UNCHANGED <<ledger, activity, projection, parties, auditWrites>>
      BY <2>2, <3>1, NoWriteStep DEF DriftInv
    <3>3. CASE ApplyConflict
      BY <3>2, <3>3 DEF ApplyConflict
    <3>4. CASE ApplyUnchanged
      <4>1. /\ r.notes \subseteq Note /\ k \in Slot
            /\ auditDrift \in [Slot -> [Note -> Nat]]
        BY <2>2, ReturnedRaw DEF DriftInv
      <4>2. \A n \in r.notes : auditDrift[k][n] = 1
        BY <3>4 DEF ApplyUnchanged, Unchanged, DriftInv, DriftRecorded
      <4>3. NewNotes(r) = {}
        BY <4>2 DEF NewNotes
      <4>4. auditDrift' = [auditDrift EXCEPT ![k] = [n \in Note |-> @[n]]]
        BY <3>4, <4>3 DEF ApplyUnchanged, RecordDrift
      <4> QED
        BY <3>2, <4>1, <4>4
    <3> QED
      BY <2>2, <3>1, <3>3, <3>4, NoWriteStep DEF DriftInv
  <2> QED
    BY <2>1, <2>2
<1> QED
  BY <1>1, DriftInvariant, PTL DEF Spec, RedeliveryIsNoOp

---------------------------------------------------------------------------
(* The projections.                                                        *)

(* When the engine that drains the queue carries the projectors too, a     *)
(* ticket or deal row always shows the version its activity shows.         *)
THEOREM ProjectionsAgree ==
  ASSUME DrainProjects PROVE Spec => []ProjectionAgrees
<1>1. Init => ProjectionAgrees
  BY DEF Init, ProjectionAgrees
<1>2. RegInv /\ ProjectionAgrees /\ [Next]_vars => ProjectionAgrees'
  <2> SUFFICES ASSUME RegInv, ProjectionAgrees, [Next]_vars PROVE ProjectionAgrees'
    OBVIOUS
  <2>1. CASE ~ApplyReturns
    BY <2>1, OthersLeaveRegister DEF dbVars, ProjectionAgrees
  <2>2. CASE ApplyReturns /\ ~Later(Ver(job.raw), activity[job.raw.slot])
    BY <2>2, NoWriteStep DEF ProjectionAgrees
  <2>3. CASE ApplyReturns /\ Later(Ver(job.raw), activity[job.raw.slot])
    <3> DEFINE r == job.raw  k == job.raw.slot
    <3>1. /\ k \in Slot /\ projection \in [Slot -> VersionOrNothing]
          /\ activity \in [Slot -> VersionOrNothing]
      BY <2>3, ReturnedRaw
    <3>2. /\ activity' = [activity EXCEPT ![k] = Ver(r)]
          /\ projection' = IF Projects(r) THEN [projection EXCEPT ![k] = Ver(r)] ELSE projection
      BY <2>3, WriteStep DEF ApplyWrite, UpsertParties, UpsertActivity, UpsertProjection
    <3>3. Projects(r) <=> SourceOf[k] \in Projected
      BY DEF Projects
    <3> QED
      BY <3>1, <3>2, <3>3 DEF ProjectionAgrees
  <2> QED
    BY <2>1, <2>2, <2>3
<1> QED
  BY <1>1, <1>2, RegInvariant, PTL DEF Spec

---------------------------------------------------------------------------
(* The dead-letter queue and the watermarks.                               *)

(* Which steps touch the dead-letter table, and how.                       *)
QueueKept == dlq' = dlq /\ replaced' = replaced /\ retired' = retired

LEMMA QueueMoves ==
  ASSUME RegInv, [Next]_vars
  PROVE  \/ QueueKept
         \/ \E r \in batch : PullPoison(r)
         \/ GiveUp
         \/ DrainGiveUp
         \/ \E row \in todo : DrainPoison(row)
         \/ Resolve
         \/ \E k \in Slot : RetireRow(k) \/ \E r \in Raw : FixPayload(k, r)
BY DEF Next, Run, Apply, Drain, Operate, QueueKept, vars, dbVars, historyVars,
       StartRun, Pull, FinishRun, ApplyUnchanged, ApplyConflict, ApplyWrite, UpsertParties, UpsertActivity, UpsertProjection, Applied, Retry,
       StartDrain, DrainApply, EndDrain, Stop, ResetCursor

---------------------------------------------------------------------------
(* Nothing a finished run passed is lost silently.                         *)

Shown(r) == r.valid /\ Recorded(r.slot) /\ ~Later(Ver(r), activity[r.slot])
Safe(r)  == Accounted(r) \/ r \in replaced \/ r \in retired

(* What was taken from the reader's batch is settled, the record in hand   *)
(* excepted; what a drain is about to close has been applied.              *)
Settled ==
  /\ pc = "resolve" => job.raw \in applied
  /\ pc = "pull"  => \A r \in yielded \ batch : Safe(r)
  /\ pc = "apply" => \A r \in yielded \ batch : r = job.raw \/ Safe(r)

SafeInv == RegInv /\ Settled /\ AccountedUnlessReplaced

(* The register only moves forward: what is shown or beaten stays so.      *)
LEMMA ShownStays ==
  ASSUME RegInv, [Next]_vars, NEW r \in Raw, Shown(r)
  PROVE  Shown(r)'
<1>1. /\ r.slot \in Slot /\ Ver(r) \in VersionOrNothing
      /\ activity \in [Slot -> VersionOrNothing]
      /\ ledger \in [Slot -> [hash : Nat, version : Nat]]
  BY RawAssumption DEF RegInv, ProcInv, TypeOK, DatabaseTypeOK, RawRecord, Ver, VersionOrNothing
<1>2. CASE ~ApplyReturns
  BY <1>2, OthersLeaveRegister DEF dbVars, Shown, Recorded
<1>3. CASE ApplyReturns
  <2> DEFINE q == job.raw
  <2>1. /\ Applying
        /\ activity' = [activity EXCEPT ![q.slot] = IF Later(Ver(q), @) THEN Ver(q) ELSE @]
    BY <1>3, ReturnOffers
  <2>2. q.slot \in Slot /\ Ver(q) \in VersionOrNothing
    BY <2>1, JobRaw DEF RegInv, ProcInv, Applying, Ver, VersionOrNothing
  <2>3. Recorded(r.slot)'
    <3>1. \/ ledger' = ledger
          \/ ledger' = [ledger EXCEPT ![q.slot] =
                          [hash |-> q.hash, version |-> ledger[q.slot].version + 1]]
      BY <1>3 DEF ApplyReturns, ApplyUnchanged, ApplyConflict, ApplyWrite, UpsertParties, UpsertActivity, UpsertProjection, LedgerRow
    <3>2. ledger[r.slot].version \in Nat /\ ledger[r.slot].version > 0
      BY <1>1 DEF Shown, Recorded
    <3>3. ledger'[r.slot].version > 0
      BY <1>1, <2>2, <3>1, <3>2
    <3> QED
      BY <3>3 DEF Recorded
  <2>4. ~Later(Ver(r), activity'[r.slot])
    <3>1. ~Later(Ver(r), activity[r.slot])
      BY DEF Shown
    <3>2. CASE r.slot = q.slot /\ Later(Ver(q), activity[q.slot])
      BY <1>1, <2>1, <2>2, <3>1, <3>2, LaterOrder
    <3>3. CASE ~(r.slot = q.slot /\ Later(Ver(q), activity[q.slot]))
      BY <1>1, <2>1, <3>1, <3>3
    <3> QED
      BY <3>2, <3>3
  <2> QED
    BY <2>3, <2>4 DEF Shown
<1> QED
  BY <1>2, <1>3

(* A record in the queue stays there, or is shown, or is on the list of    *)
(* the overwritten or of the given up.                                     *)
LEMMA HeldStays ==
  ASSUME SafeInv, [Next]_vars, NEW r \in Raw, Holds(dlq[r.slot], r)
  PROVE  Safe(r)'
<1> USE DEF SafeInv
<1>1. r.slot \in Slot /\ dlq \in [Slot -> [payload : Raw \union {NoRaw},
                             category : Categories \union {"none"}, open : BOOLEAN]]
  BY RawAssumption DEF RegInv, ProcInv, TypeOK, QueueTypeOK, RawRecord
<1>2. CASE QueueKept
  BY <1>2 DEF QueueKept, Safe, Accounted
<1>3. ASSUME NEW q \in Raw, NEW c \in Categories \union {"none"}, AddDeadLetter(q, c)
      PROVE  Safe(r)'
  <2> DEFINE row == [payload |-> q, category |-> c, open |-> TRUE]
  <2>1. q.slot \in Slot
    BY RawAssumption DEF RawRecord
  <2>2. dlq' = [dlq EXCEPT ![q.slot] = row] /\ replaced' = replaced \union Dropped(q.slot, row)
    BY <1>3 DEF AddDeadLetter
  <2>3. CASE q.slot = r.slot /\ ~Holds(row, r)
    BY <2>2, <2>3 DEF Dropped, Safe
  <2>4. CASE q.slot = r.slot /\ Holds(row, r)
    BY <1>1, <2>2, <2>4 DEF Safe, Accounted
  <2>5. CASE q.slot # r.slot
    BY <1>1, <2>1, <2>2, <2>5 DEF Safe, Accounted
  <2> QED
    BY <2>3, <2>4, <2>5
<1>4. ASSUME NEW q \in batch, PullPoison(q) PROVE Safe(r)'
  BY <1>3, <1>4 DEF PullPoison, CategoryOf, Categories, RegInv, ProcInv, TypeOK, ProcessTypeOK
<1>5. CASE GiveUp
  BY <1>3, <1>5, JobRaw DEF GiveUp, Categories, RegInv, ProcInv
<1>6. CASE DrainGiveUp
  BY <1>3, <1>6, JobRaw DEF DrainGiveUp, Jobs, RegInv, ProcInv
<1>7. ASSUME NEW row \in todo, DrainPoison(row) PROVE Safe(r)'
  BY <1>3, <1>7 DEF DrainPoison, Jobs, RegInv, ProcInv, TypeOK, ProcessTypeOK
<1>8. CASE Resolve
  <2> DEFINE q == job.raw
  <2>1. q \in Raw /\ Shown(q)
    BY <1>8, JobRaw DEF Resolve, Settled, Shown, RegInv, ProcInv, AppliedShown
  <2>2. dlq[q.slot] = RowOf(job)
    BY <1>8 DEF Resolve, RegInv, ProcInv, QueueListed
  <2>3. CASE r.slot = q.slot
    <3>1. r = q \/ (r.valid /\ ~Later(Ver(r), Ver(q)))
      BY <2>2, <2>3 DEF Holds, RowOf
    <3>2. Ver(r) \in VersionOrNothing /\ Ver(q) \in VersionOrNothing
          /\ activity[r.slot] \in VersionOrNothing
      BY <1>1, <2>1, RawAssumption
      DEF RegInv, ProcInv, TypeOK, DatabaseTypeOK, RawRecord, Ver, VersionOrNothing
    <3>3. ~Later(Ver(r), Ver(q)) /\ Later(Ver(r), activity[r.slot]) => Later(Ver(q), activity[r.slot])
      BY <3>2 DEF Later, VersionOrNothing
    <3>4. Shown(r)
      BY <2>1, <2>3, <3>1, <3>3 DEF Shown
    <3>5. Shown(r)'
      BY <3>4, ShownStays
    <3> QED
      BY <3>5 DEF Shown, Safe, Accounted
  <2>4. CASE r.slot # q.slot
    BY <1>1, <1>8, <2>4 DEF Resolve, Safe, Accounted, Holds
  <2> QED
    BY <2>3, <2>4
<1>9. ASSUME NEW k \in Slot, RetireRow(k) \/ \E q \in Raw : FixPayload(k, q) PROVE Safe(r)'
  <2>1. PICK row : dlq' = [dlq EXCEPT ![k] = row] /\ retired' = retired \union Dropped(k, row)
    BY <1>9 DEF RetireRow, FixPayload
  <2>2. CASE r.slot = k /\ ~Holds(row, r)
    BY <2>1, <2>2 DEF Dropped, Safe
  <2>3. CASE r.slot = k /\ Holds(row, r)
    BY <1>1, <2>1, <2>3 DEF Safe, Accounted
  <2>4. CASE r.slot # k
    BY <1>1, <2>1, <2>4 DEF Safe, Accounted
  <2> QED
    BY <2>2, <2>3, <2>4
<1> QED
  BY <1>2, <1>4, <1>5, <1>6, <1>7, <1>8, <1>9, QueueMoves

(* The histories only grow.                                                *)
LEMMA HistoryGrows ==
  ASSUME RegInv, [Next]_vars
  PROVE  replaced \subseteq replaced' /\ retired \subseteq retired'
BY QueueMoves DEF QueueKept, PullPoison, GiveUp, DrainGiveUp, DrainPoison, AddDeadLetter,
                  Resolve, historyVars, RetireRow, FixPayload

LEMMA SafeStays ==
  ASSUME SafeInv, [Next]_vars, NEW r \in Raw, Safe(r)
  PROVE  Safe(r)'
<1>1. CASE Holds(dlq[r.slot], r)
  BY <1>1, HeldStays
<1>2. CASE Shown(r)
  BY <1>2, ShownStays DEF SafeInv, Shown, Safe, Accounted
<1>3. CASE r \in replaced \/ r \in retired
  BY <1>3, HistoryGrows DEF SafeInv, Safe
<1> QED
  BY <1>1, <1>2, <1>3 DEF Safe, Accounted, Shown

(* What has just been put in the queue is safe there.                      *)
LEMMA QueuedIsSafe ==
  ASSUME RegInv, NEW r \in Raw, NEW c, AddDeadLetter(r, c)
  PROVE  Safe(r)'
<1>1. r.slot \in Slot /\ dlq'[r.slot] = [payload |-> r, category |-> c, open |-> TRUE]
  BY RawAssumption DEF RegInv, ProcInv, TypeOK, QueueTypeOK, RawRecord, AddDeadLetter
<1> QED
  BY <1>1 DEF Safe, Accounted, Holds

LEMMA StepSafe == SafeInv /\ [Next]_vars => SafeInv'
<1> SUFFICES ASSUME SafeInv, [Next]_vars PROVE SafeInv'
  OBVIOUS
<1> USE DEF SafeInv
<1>1. RegInv'
  BY StepReg
<1>2. yielded \subseteq Raw /\ batch \subseteq yielded /\ owed \subseteq Raw
  BY DEF RegInv, ProcInv, TypeOK, ProcessTypeOK
<1>3. AccountedUnlessReplaced'
  <2>1. \A r \in owed' : r \in Raw /\ Safe(r)
    <3>1. CASE owed' = owed
      BY <1>2, <3>1 DEF AccountedUnlessReplaced, Safe
    <3>2. CASE \E adv \in BOOLEAN : FinishRun(adv)
      BY <1>2, <3>2 DEF FinishRun, AccountedUnlessReplaced, Safe, Settled
    <3>3. owed' = owed \/ \E adv \in BOOLEAN : FinishRun(adv)
      BY DEF Next, Run, Apply, Drain, Operate, vars, dbVars, historyVars,
             StartRun, Pull, PullPoison, ApplyUnchanged, ApplyConflict, ApplyWrite, UpsertParties, UpsertActivity, UpsertProjection, Applied,
             Retry, GiveUp, DrainGiveUp, StartDrain, DrainApply, DrainPoison, Resolve,
             EndDrain, Stop, ResetCursor, RetireRow, FixPayload
    <3> QED
      BY <3>1, <3>2, <3>3
  <2> QED
    BY <2>1, SafeStays DEF AccountedUnlessReplaced, Safe
<1>4. Settled'
  <2>1. ASSUME NEW s \in Source, StartRun(s) PROVE Settled'
    BY <2>1 DEF StartRun, Settled
  <2>2. ASSUME NEW r \in batch, Pull(r) PROVE Settled'
    BY <1>2, <2>2, SafeStays DEF Pull, Settled
  <2>3. ASSUME NEW r \in batch, PullPoison(r) PROVE Settled'
    <3>1. Safe(r)'
      BY <1>2, <2>3, QueuedIsSafe DEF PullPoison
    <3> QED
      BY <1>2, <2>3, <3>1, SafeStays DEF PullPoison, Settled
  <2>4. ASSUME NEW adv \in BOOLEAN, FinishRun(adv) PROVE Settled'
    BY <2>4 DEF FinishRun, ProcessReset, Settled
  <2>5. CASE ApplyReturns
    <3>1. /\ Applying /\ job.raw \in Raw /\ applied' = applied \union {job.raw}
          /\ Applied(job.raw)
      BY <2>5, ReturnOffers, JobRaw
      DEF RegInv, ProcInv, Applying, ApplyReturns, ApplyUnchanged, ApplyConflict, ApplyWrite, UpsertParties, UpsertActivity, UpsertProjection
    <3>2. \A q \in Raw : q = job.raw => Safe(q)'
      <4> SUFFICES ASSUME NEW q \in Raw, q = job.raw PROVE Safe(q)'
        OBVIOUS
      <4>1. q.valid /\ Recorded(q.slot)' /\ ~Later(Ver(q), activity'[q.slot])
        BY <1>1, <3>1 DEF RegInv, AppliedShown
      <4> QED
        BY <4>1 DEF Safe, Accounted
    <3>3. \A q \in Raw : Safe(q) => Safe(q)'
      BY SafeStays
    <3>4. yielded' = yielded /\ batch' = batch
      BY <3>1 DEF Applied
    <3>5. CASE pc = "apply"
      <4>1. pc' = "pull" /\ \A q \in yielded \ batch : q = job.raw \/ Safe(q)
        BY <3>1, <3>5 DEF Applied, Settled
      <4> QED
        BY <1>2, <3>2, <3>3, <3>4, <4>1 DEF Settled
    <3>6. CASE pc = "reapply"
      <4>1. pc' = "resolve" /\ job' = job
        BY <3>1, <3>6 DEF Applied
      <4> QED
        BY <3>1, <4>1 DEF Settled
    <3> QED
      BY <3>1, <3>5, <3>6 DEF Applying
  <2>6. CASE Retry
    BY <1>2, <2>6, SafeStays DEF Retry, Fails, Applying, runVars, historyVars, Settled
  <2>7. CASE GiveUp
    <3>1. job.raw \in Raw
      BY <2>7, JobRaw DEF RegInv, ProcInv, GiveUp
    <3>2. \A q \in Raw : q = job.raw => Safe(q)'
      BY <2>7, QueuedIsSafe DEF GiveUp
    <3> QED
      BY <1>2, <2>7, <3>1, <3>2, SafeStays DEF GiveUp, Settled
  <2>8. CASE \/ DrainGiveUp \/ StartDrain \/ Resolve \/ EndDrain \/ Stop
             \/ \E row \in todo : DrainApply(row) \/ DrainPoison(row)
    BY <2>8 DEF DrainGiveUp, StartDrain, Resolve, EndDrain, Stop, DrainApply, DrainPoison,
                ProcessReset, Settled
  <2>9. CASE \/ \E s \in Source : ResetCursor(s)
             \/ \E k \in Slot : RetireRow(k) \/ \E r \in Raw : FixPayload(k, r)
    BY <2>9 DEF ResetCursor, RetireRow, FixPayload, Settled
  <2>10. CASE UNCHANGED vars
    BY <1>2, <2>10, SafeStays DEF vars, runVars, historyVars, Settled
  <2> QED
    BY <2>1, <2>2, <2>3, <2>4, <2>5, <2>6, <2>7, <2>8, <2>9, <2>10
    DEF Next, Run, Apply, Drain, Operate, ApplyReturns
<1> QED
  BY <1>1, <1>3, <1>4

(* Once a run's watermark has passed a record it yielded, the record is    *)
(* shown, beaten, queued, overwritten in the queue, or given up by an      *)
(* operator: no crash, retry or drain loses it (sync_engine.py:29-31).     *)
THEOREM AccountedAlways == Spec => []AccountedUnlessReplaced
<1>1. Init => SafeInv
  BY InitReg DEF SafeInv, Init, Settled, AccountedUnlessReplaced
<1> QED
  BY <1>1, StepSafe, PTL DEF Spec, SafeInv

---------------------------------------------------------------------------
(* Watermarks.                                                             *)

(* A watermark-to-be starts at the watermark and then stands on a record   *)
(* of this run that passed validation.                                     *)
Sound(r) == Normalizes(r, r.slot \in Key)

MaxSeenEarned ==
  pc \in {"pull", "apply"} =>
    /\ \A r \in yielded : SourceOf[r.slot] = source
    /\ pc = "apply" => job.raw \in yielded
    /\ cursor[source] <= maxSeen
    /\ \/ maxSeen = cursor[source]
       \/ \E r \in yielded : r.at = maxSeen /\ Sound(r)

CursorInv == ProcInv /\ MaxSeenEarned /\ CursorEarned

(* Which steps touch the watermarks and their history.                     *)
LEMMA CursorMoves ==
  ASSUME [Next]_vars
  PROVE  \/ cursor' = cursor /\ owed' = owed
         \/ \E adv \in BOOLEAN : FinishRun(adv)
         \/ \E s \in Source : ResetCursor(s)
BY DEF Next, Run, Apply, Drain, Operate, vars, dbVars, historyVars,
       StartRun, Pull, PullPoison, ApplyUnchanged, ApplyConflict, ApplyWrite, UpsertParties, UpsertActivity, UpsertProjection, Applied,
       Retry, GiveUp, DrainGiveUp, StartDrain, DrainApply, DrainPoison, Resolve,
       EndDrain, Stop, RetireRow, FixPayload

(* Moving the watermark-to-be to a record in hand keeps it earned.         *)
LEMMA RaiseMaxSeen ==
  ASSUME CursorInv, pc = "apply", pc' = "pull", maxSeen' = Latest(maxSeen, job.raw.at),
         UNCHANGED <<cursor, source, yielded>>
  PROVE  MaxSeenEarned'
<1>1. /\ job.raw \in yielded /\ Sound(job.raw) /\ job.raw.at \in Nat
      /\ maxSeen \in Nat /\ cursor[source] \in Nat
  BY JobRaw DEF CursorInv, ProcInv, TypeOK, ProcessTypeOK, MaxSeenEarned, JobSound, Sound
<1>2. CASE maxSeen >= job.raw.at
  BY <1>1, <1>2 DEF Latest, CursorInv, MaxSeenEarned
<1>3. CASE ~(maxSeen >= job.raw.at)
  <2>1. maxSeen' = job.raw.at /\ cursor'[source'] <= maxSeen'
    BY <1>1, <1>3 DEF Latest, CursorInv, MaxSeenEarned
  <2>2. \E r \in yielded' : r.at = maxSeen' /\ Sound(r)
    BY <1>1, <2>1
  <2> QED
    BY <2>1, <2>2 DEF CursorInv, MaxSeenEarned, Sound, Normalizes
<1> QED
  BY <1>2, <1>3

LEMMA StepCursor == CursorInv /\ [Next]_vars => CursorInv'
<1> SUFFICES ASSUME CursorInv, [Next]_vars PROVE CursorInv'
  OBVIOUS
<1> USE DEF CursorInv
<1>1. ProcInv'
  BY StepProc
<1>2. /\ yielded \subseteq Raw /\ batch \subseteq yielded /\ owed \subseteq Raw
      /\ maxSeen \in Nat /\ cursor \in [Source -> Nat] /\ source \in Source
  BY DEF ProcInv, TypeOK, ProcessTypeOK
<1>3. CursorEarned'
  <2>1. CASE cursor' = cursor /\ owed' = owed
    BY <2>1 DEF CursorEarned, Normalizes
  <2>2. ASSUME NEW adv \in BOOLEAN, FinishRun(adv) PROVE CursorEarned'
    <3>1. CASE ~adv
      BY <2>2, <3>1 DEF FinishRun, CursorEarned, Normalizes
    <3>2. CASE adv
      <4> SUFFICES ASSUME NEW s \in Source, cursor'[s] > 0
                   PROVE  \E r \in owed' : SourceOf[r.slot] = s /\ r.at >= cursor'[s] /\ Sound(r)
        BY DEF CursorEarned, Sound, Normalizes
      <4>1. /\ pc = "pull" /\ cursor' = [cursor EXCEPT ![source] = maxSeen]
            /\ owed' = owed \union {r \in yielded : r.at <= maxSeen}
        BY <2>2, <3>2 DEF FinishRun
      <4>2. CASE s = source /\ maxSeen # cursor[source]
        <5>1. PICK r \in yielded : r.at = maxSeen /\ Sound(r)
          BY <4>1, <4>2 DEF MaxSeenEarned
        <5> QED
          BY <1>2, <4>1, <4>2, <5>1 DEF MaxSeenEarned
      <4>3. CASE s # source \/ maxSeen = cursor[source]
        <5>1. cursor'[s] = cursor[s]
          BY <1>2, <4>1, <4>3
        <5> QED
          BY <4>1, <5>1 DEF CursorEarned, Sound
      <4> QED
        BY <4>2, <4>3
    <3> QED
      BY <3>1, <3>2
  <2>3. ASSUME NEW s \in Source, ResetCursor(s) PROVE CursorEarned'
    <3>1. PICK c \in {0} \union {r.at : r \in Raw} :
            c < cursor[s] /\ cursor' = [cursor EXCEPT ![s] = c]
      BY <2>3 DEF ResetCursor
    <3>2. c \in Nat /\ owed' = owed /\ \A r \in owed : r.at \in Nat
      BY <1>2, <2>3, RawAssumption DEF ResetCursor, historyVars, RawRecord
    <3> SUFFICES ASSUME NEW t \in Source, cursor'[t] > 0
                 PROVE  \E r \in owed' : SourceOf[r.slot] = t /\ r.at >= cursor'[t] /\ Sound(r)
      BY DEF CursorEarned, Sound, Normalizes
    <3>3. cursor[t] > 0 /\ cursor'[t] <= cursor[t] /\ cursor[t] \in Nat /\ cursor'[t] \in Nat
      BY <1>2, <3>1, <3>2
    <3>4. PICK r \in owed : SourceOf[r.slot] = t /\ r.at >= cursor[t] /\ Sound(r)
      BY <3>3 DEF CursorEarned, Sound
    <3> QED
      BY <3>2, <3>3, <3>4
  <2> QED
    BY <2>1, <2>2, <2>3, CursorMoves
<1>4. MaxSeenEarned'
  <2>1. ASSUME NEW s \in Source, StartRun(s) PROVE MaxSeenEarned'
    BY <1>2, <2>1 DEF StartRun, StartingWatermark, MaxSeenEarned
  <2>2. ASSUME NEW r \in batch, Pull(r) PROVE MaxSeenEarned'
    BY <1>2, <2>2 DEF Pull, MaxSeenEarned, Sound, Normalizes
  <2>3. ASSUME NEW r \in batch, PullPoison(r) PROVE MaxSeenEarned'
    BY <1>2, <2>3 DEF PullPoison, MaxSeenEarned, Sound, Normalizes
  <2>4. CASE ApplyReturns
    <3>1. Applied(job.raw) /\ Applying
      BY <2>4 DEF ApplyReturns, ApplyUnchanged, ApplyConflict, ApplyWrite, UpsertParties, UpsertActivity, UpsertProjection
    <3>2. CASE pc = "apply"
      BY <3>1, <3>2, RaiseMaxSeen DEF Applied
    <3>3. CASE pc = "reapply"
      BY <3>1, <3>3 DEF Applied, MaxSeenEarned
    <3> QED
      BY <3>1, <3>2, <3>3 DEF Applying
  <2>5. CASE GiveUp
    BY <2>5, RaiseMaxSeen DEF GiveUp
  <2>6. CASE Retry
    BY <2>6 DEF Retry, runVars, MaxSeenEarned, Sound, Normalizes
  <2>7. CASE UNCHANGED vars
    BY <2>7 DEF vars, runVars, MaxSeenEarned, Sound, Normalizes
  <2>8. CASE \/ \E adv \in BOOLEAN : FinishRun(adv)
             \/ DrainGiveUp \/ StartDrain \/ Resolve \/ EndDrain \/ Stop
             \/ \E row \in todo : DrainApply(row) \/ DrainPoison(row)
             \/ \E s \in Source : ResetCursor(s)
             \/ \E k \in Slot : RetireRow(k) \/ \E r \in Raw : FixPayload(k, r)
    BY <2>8 DEF FinishRun, DrainGiveUp, StartDrain, Resolve, EndDrain, Stop, DrainApply,
                DrainPoison, ResetCursor, RetireRow, FixPayload, ProcessReset, MaxSeenEarned
  <2> QED
    BY <2>1, <2>2, <2>3, <2>4, <2>5, <2>6, <2>7, <2>8
    DEF Next, Run, Apply, Drain, Operate, ApplyReturns
<1> QED
  BY <1>1, <1>3, <1>4

LEMMA CursorInvariant == Spec => []CursorInv
<1>1. Init => CursorInv
  BY InitProc DEF CursorInv, Init, MaxSeenEarned, CursorEarned
<1> QED
  BY <1>1, StepCursor, PTL DEF Spec

(* A watermark never stands beyond the sound records that earned it, so    *)
(* poison never moves it (sync_engine.py:146-156).                         *)
THEOREM CursorAlwaysEarned == Spec => []CursorEarned
BY CursorInvariant, PTL DEF CursorInv

(* Only the operator lowers a watermark.                                   *)
THEOREM CursorMonotone == Spec => CursorNeverFalls
<1> DEFINE kept == \A s \in Source : cursor'[s] < cursor[s] => pc = "idle"
<1>1. CursorInv /\ [Next]_vars => [kept]_vars
  <2> SUFFICES ASSUME CursorInv, [Next]_vars, NEW s \in Source, cursor'[s] < cursor[s]
               PROVE  pc = "idle"
    OBVIOUS
  <2>1. /\ cursor \in [Source -> Nat] /\ source \in Source /\ maxSeen \in Nat
    BY DEF CursorInv, ProcInv, TypeOK, ProcessTypeOK
  <2>2. cursor' # cursor
    BY <2>1
  <2>3. CASE \E adv \in BOOLEAN : FinishRun(adv)
    <3>1. pc = "pull" /\ cursor' = [cursor EXCEPT ![source] = maxSeen]
      BY <2>2, <2>3 DEF FinishRun
    <3>2. cursor[source] <= maxSeen
      BY <3>1 DEF CursorInv, MaxSeenEarned
    <3> QED
      BY <2>1, <3>1, <3>2
  <2>4. CASE \E t \in Source : ResetCursor(t)
    BY <2>4 DEF ResetCursor
  <2> QED
    BY <2>2, <2>3, <2>4, CursorMoves
<1> QED
  BY <1>1, CursorInvariant, PTL DEF Spec, CursorNeverFalls

---------------------------------------------------------------------------
(* Records without a key.                                                  *)

(* A row under a machine-derived key is never landed and never loses its   *)
(* category, whatever re-opens it.                                         *)
KeylessInv ==
  /\ ProcInv
  /\ \A d \in Digest : /\ ~Recorded(d)
                       /\ dlq[d].open => dlq[d].category = "poison_no_key"

(* So whatever is being applied came with a key.                           *)
LEMMA JobHasKey ==
  ASSUME KeylessInv, pc \in {"apply", "reapply", "resolve"}
  PROVE  job.raw.slot \in Key
<1>1. CASE pc = "apply"
  BY <1>1 DEF KeylessInv, ProcInv, JobSound, Normalizes
<1>2. CASE pc \in {"reapply", "resolve"}
  <2>1. HasKey(job) /\ dlq[job.raw.slot] = RowOf(job)
    BY <1>2 DEF KeylessInv, ProcInv, JobSound, QueueListed, Normalizes
  <2>2. job.raw.slot \in Slot
    BY JobRaw DEF KeylessInv, ProcInv
  <2> QED
    BY <2>1, <2>2 DEF KeylessInv, HasKey, RowOf, Slot
<1> QED
  BY <1>1, <1>2

LEMMA StepKeyless ==
  KeylessInv /\ [Next]_vars =>
    /\ KeylessInv'
    /\ \A d \in Digest : ~Recorded(d)' /\ (dlq[d].open /\ ~dlq'[d].open => pc = "idle")
<1> SUFFICES ASSUME KeylessInv, [Next]_vars, NEW d \in Digest
             PROVE  /\ ~Recorded(d)'
                    /\ dlq'[d].open => dlq'[d].category = "poison_no_key"
                    /\ dlq[d].open /\ ~dlq'[d].open => pc = "idle"
  BY StepProc DEF KeylessInv
<1>1. d \in Slot /\ d \notin Key
  BY SlotsAssumption DEF Slot
<1>2. ~Recorded(d) /\ (dlq[d].open => dlq[d].category = "poison_no_key")
  BY DEF KeylessInv
<1>3. dlq \in [Slot -> [payload : Raw \union {NoRaw}, category : Categories \union {"none"},
                        open : BOOLEAN]]
  BY DEF KeylessInv, ProcInv, TypeOK, QueueTypeOK
<1>4. ~Recorded(d)'
  <2>1. CASE ApplyWrite
    <3>1. job.raw.slot \in Key /\ job.raw.slot # d
      BY <1>1, <2>1, JobHasKey DEF ApplyWrite, UpsertParties, UpsertActivity, UpsertProjection, Applying
    <3>2. ledger'[d] = ledger[d]
      BY <2>1, <3>1 DEF ApplyWrite, UpsertParties, UpsertActivity, UpsertProjection, KeylessInv, ProcInv, TypeOK, DatabaseTypeOK
    <3> QED
      BY <1>2, <3>2 DEF Recorded
  <2>2. CASE ~ApplyWrite
    <3>1. ledger' = ledger
      BY <2>2, OthersLeaveRegister
      DEF dbVars, ApplyReturns, ApplyUnchanged, ApplyConflict
    <3> QED
      BY <1>2, <3>1 DEF Recorded
  <2> QED
    BY <2>1, <2>2
<1>5. ASSUME NEW r, NEW c, AddDeadLetter(r, c), r.slot = d => c = "poison_no_key"
      PROVE  (dlq'[d].open /\ dlq'[d].category = "poison_no_key") \/ dlq'[d] = dlq[d]
  BY <1>1, <1>3, <1>5 DEF AddDeadLetter
<1>6. CASE dlq' = dlq
  BY <1>2, <1>4, <1>6
<1>7. ASSUME NEW r \in batch, PullPoison(r)
      PROVE  (dlq'[d].open /\ dlq'[d].category = "poison_no_key") \/ dlq'[d] = dlq[d]
  BY <1>1, <1>5, <1>7 DEF PullPoison, CategoryOf
<1>8. CASE GiveUp
  BY <1>1, <1>2, <1>4, <1>5, <1>8, JobHasKey DEF GiveUp
<1>9. CASE DrainGiveUp
  BY <1>1, <1>2, <1>4, <1>5, <1>9, JobHasKey DEF DrainGiveUp
<1>10. ASSUME NEW row \in todo, DrainPoison(row)
       PROVE  (dlq'[d].open /\ dlq'[d].category = "poison_no_key") \/ dlq'[d] = dlq[d]
  <2>1. dlq[row.raw.slot] = RowOf(row) /\ AddDeadLetter(row.raw, row.category)
    BY <1>10 DEF DrainPoison, KeylessInv, ProcInv, QueueListed
  <2> QED
    BY <1>2, <1>5, <2>1 DEF RowOf
<1>11. CASE Resolve
  BY <1>1, <1>2, <1>3, <1>4, <1>11, JobHasKey DEF Resolve
<1>12. ASSUME NEW k \in Slot, RetireRow(k) \/ \E r \in Raw : FixPayload(k, r)
       PROVE  pc = "idle" /\ (dlq'[d].open => dlq'[d].category = "poison_no_key")
  <2>1. pc = "idle" /\ dlq[k].open
    BY <1>12 DEF RetireRow, FixPayload
  <2>2. \A j \in Slot : /\ dlq'[j].category = dlq[j].category
                        /\ dlq'[j].open => dlq[j].open
    <3>1. CASE RetireRow(k)
      BY <1>3, <3>1 DEF RetireRow
    <3>2. ASSUME NEW r \in Raw, FixPayload(k, r)
          PROVE  \A j \in Slot : /\ dlq'[j].category = dlq[j].category
                                 /\ dlq'[j].open => dlq[j].open
      BY <1>3, <3>2 DEF FixPayload
    <3> QED
      BY <1>12, <3>1, <3>2
  <2> QED
    BY <1>1, <1>2, <2>1, <2>2
<1>13. \/ dlq' = dlq
       \/ \E r \in batch : PullPoison(r)
       \/ GiveUp
       \/ DrainGiveUp
       \/ \E row \in todo : DrainPoison(row)
       \/ Resolve
       \/ \E k \in Slot : RetireRow(k) \/ \E r \in Raw : FixPayload(k, r)
  BY DEF Next, Run, Apply, Drain, Operate, vars, dbVars,
         StartRun, Pull, FinishRun, ApplyUnchanged, ApplyConflict, ApplyWrite, UpsertParties, UpsertActivity, UpsertProjection, Applied, Retry,
         StartDrain, DrainApply, EndDrain, Stop, ResetCursor
<1> QED
  BY <1>2, <1>4, <1>6, <1>7, <1>8, <1>9, <1>10, <1>11, <1>12, <1>13

(* A record that came without a key never lands under the key the queue    *)
(* made up for it, and only a human closes its row (RUNBOOK.md:100-102).   *)
THEOREM KeylessAlwaysWaits == Spec => KeylessWaitsForHuman
<1>1. Init => KeylessInv
  BY InitProc DEF KeylessInv, Init, Recorded, Slot, NoRow
<1>2. Spec => []KeylessInv
  BY <1>1, StepKeyless, PTL DEF Spec
<1>3. KeylessInv /\ [Next]_vars =>
        [\A d \in Digest : /\ ~Recorded(d)'
                           /\ dlq[d].open /\ ~dlq'[d].open => pc = "idle"]_vars
  BY StepKeyless
<1> QED
  BY <1>2, <1>3, PTL DEF Spec, KeylessWaitsForHuman

=============================================================================
