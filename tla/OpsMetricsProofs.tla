----------------------------- MODULE OpsMetricsProofs -----------------------------
(* Theorems about the dashboard's numbers, for every value of the          *)
(* constants of SyncEngine.                                                *)
EXTENDS OpsMetrics, SyncStoreProofs, FiniteSetTheorems, FunctionTheorems

(* A dashboard only reads: with one open, the engine behaves as SyncEngine *)
(* says, so what is proved of it there holds here.                         *)
LEMMA OnlyReads == OpsSpec => Spec
<1>1. OpsInit => Init
  BY DEF OpsInit
<1>2. [OpsNext]_opsVars => [Next]_vars
  BY DEF OpsNext, opsVars, Sync, Look, ReadDepth, ReadFunnel, ReadThroughput, Select
<1> QED
  BY <1>1, <1>2, PTL DEF OpsSpec, Spec

---------------------------------------------------------------------------
(* One moment.                                                             *)

(* Every row of the queue, open or closed, has one of the categories that  *)
(* the funnel counts.                                                      *)
RowsCategorised == \A k \in QueueKeys : dlq[k].category \in Categories

(* No write left an empty hash behind.                                     *)
WritesHashed ==
  \A k \in Slot : \A i \in DOMAIN auditWrites[k] : auditWrites[k][i].new # 0

(* So far the engine met finitely many keys.                               *)
FinitelyMany == IsFiniteSet(LedgerKeys) /\ IsFiniteSet(QueueKeys)

FunnelInv ==
  RegInv /\ AuditReplays /\ RowsCategorised /\ WritesHashed /\ FinitelyMany

(* A write fills in the ledger row of one key, and no row is ever emptied. *)
LEMMA LedgerGrows ==
  ASSUME RegInv, [Next]_vars
  PROVE  /\ LedgerKeys \subseteq LedgerKeys'
         /\ \E k : LedgerKeys' \subseteq LedgerKeys \union {k}
<1>1. CASE ~ApplyReturns
  BY <1>1, OthersLeaveRegister DEF dbVars, LedgerKeys, Recorded
<1>2. CASE ApplyReturns /\ ~Later(Ver(job.raw), activity[job.raw.slot])
  BY <1>2, NoWriteStep DEF LedgerKeys, Recorded
<1>3. CASE ApplyReturns /\ Later(Ver(job.raw), activity[job.raw.slot])
  <2> DEFINE k == job.raw.slot
  <2>1. ledger' = [ledger EXCEPT ![k] = LedgerRow(job.raw)]
    BY <1>3, WriteStep
  <2>2. k \in Slot /\ ledger \in [Slot -> [hash : Nat, version : Nat]]
    BY <1>3, ReturnedRaw
  <2>3. \A j \in Slot : ledger'[j] = IF j = k THEN LedgerRow(job.raw) ELSE ledger[j]
    BY <2>1, <2>2
  <2>4. ledger'[k].version = ledger[k].version + 1 /\ ledger[k].version \in Nat
    BY <2>2, <2>3 DEF LedgerRow
  <2> QED
    BY <2>3, <2>4 DEF LedgerKeys, Recorded
<1> QED
  BY <1>1, <1>2, <1>3

RowWritten ==
  \E k \in Slot : \E row :
    /\ dlq' = [dlq EXCEPT ![k] = row]
    /\ row.category \in Categories

(* A step writes at most one row of the queue, under a real category.      *)
LEMMA OneRowAtATime ==
  ASSUME RegInv, [Next]_vars PROVE dlq' = dlq \/ RowWritten
<1>1. /\ \A r \in Raw : r.slot \in Slot
      /\ batch \subseteq Raw /\ todo \subseteq Jobs
      /\ dlq \in [Slot -> [payload : Raw \union {NoRaw},
                          category : Categories \union {"none"}, open : BOOLEAN]]
  BY RawAssumption DEF RegInv, ProcInv, TypeOK, QueueTypeOK, ProcessTypeOK, RawRecord
<1>2. ASSUME NEW r \in Raw, NEW c \in Categories, AddDeadLetter(r, c)
      PROVE  RowWritten
  <2> DEFINE row == [payload |-> r, category |-> c, open |-> TRUE]
  <2>1. dlq' = [dlq EXCEPT ![r.slot] = row] /\ row.category \in Categories
    BY <1>2 DEF AddDeadLetter
  <2> HIDE DEF row
  <2> QED
    BY <1>1, <2>1 DEF RowWritten
<1>3. ASSUME NEW k \in Slot, dlq[k].open, NEW row, row.category = dlq[k].category,
             dlq' = [dlq EXCEPT ![k] = row]
      PROVE  RowWritten
  BY <1>3 DEF RegInv, ProcInv, RowSound, RowWritten
<1>4. CASE QueueKept
  BY <1>4 DEF QueueKept
<1>5. CASE \E r \in batch : PullPoison(r)
  <2>1. PICK r \in batch : PullPoison(r)
    BY <1>5
  <2>2. r \in Raw /\ CategoryOf(r) \in Categories
    BY <1>1 DEF CategoryOf, Categories
  <2> QED
    BY <1>2, <2>1, <2>2 DEF PullPoison
<1>6. CASE GiveUp
  <2>1. job.raw \in Raw /\ "transient_exhausted" \in Categories
    BY <1>6, JobRaw DEF RegInv, ProcInv, GiveUp, Categories
  <2> QED
    BY <1>2, <1>6, <2>1 DEF GiveUp
<1>7. CASE DrainGiveUp
  <2>1. pc = "reapply" /\ job.raw \in Raw /\ job.raw.slot \in Slot
    BY <1>7, JobRaw DEF RegInv, ProcInv, DrainGiveUp
  <2>2. job.category \in Categories
    BY <2>1 DEF RegInv, ProcInv, QueueListed, RowOf, RowSound
  <2> QED
    BY <1>2, <1>7, <2>1, <2>2 DEF DrainGiveUp
<1>8. CASE \E row \in todo : DrainPoison(row)
  <2>1. PICK row \in todo : DrainPoison(row)
    BY <1>8
  <2>2. row.raw \in Raw /\ row.raw.slot \in Slot
    BY <1>1 DEF Jobs
  <2>3. dlq[row.raw.slot] = RowOf(row)
    BY <2>1 DEF RegInv, ProcInv, QueueListed
  <2>4. row.category \in Categories
    BY <2>2, <2>3 DEF RegInv, ProcInv, RowSound, RowOf
  <2> QED
    BY <1>2, <2>1, <2>2, <2>4 DEF DrainPoison
<1>9. CASE Resolve
  <2> DEFINE k == job.raw.slot
             row == [dlq[k] EXCEPT !.open = FALSE]
  <2>1. k \in Slot /\ dlq[k].open
    BY <1>9, JobRaw DEF RegInv, ProcInv, Resolve, QueueListed, RowOf
  <2>2. row.category = dlq[k].category /\ dlq' = [dlq EXCEPT ![k] = row]
    BY <1>1, <1>9, <2>1 DEF Resolve
  <2> QED
    BY <1>3, <2>1, <2>2
<1>10. CASE \E k \in Slot : RetireRow(k) \/ \E r \in Raw : FixPayload(k, r)
  <2>1. PICK k \in Slot : RetireRow(k) \/ \E r \in Raw : FixPayload(k, r)
    BY <1>10
  <2>2. CASE RetireRow(k)
    <3>1. dlq' = [dlq EXCEPT ![k] = [dlq[k] EXCEPT !.open = FALSE]] /\ dlq[k].open
      BY <2>2 DEF RetireRow
    <3>2. [dlq[k] EXCEPT !.open = FALSE].category = dlq[k].category
      BY <1>1
    <3> QED
      BY <1>3, <3>1, <3>2
  <2>3. ASSUME NEW r \in Raw, FixPayload(k, r) PROVE RowWritten
    <3>1. dlq' = [dlq EXCEPT ![k] = [dlq[k] EXCEPT !.payload = r]] /\ dlq[k].open
      BY <2>3 DEF FixPayload
    <3>2. [dlq[k] EXCEPT !.payload = r].category = dlq[k].category
      BY <1>1
    <3> QED
      BY <1>3, <3>1, <3>2
  <2> QED
    BY <2>1, <2>2, <2>3
<1> QED
  BY QueueMoves, <1>4, <1>5, <1>6, <1>7, <1>8, <1>9, <1>10

(* The row that a write appends ends in the hash of a record.              *)
LEMMA WritesStayHashed ==
  ASSUME RegInv, WritesHashed, [Next]_vars PROVE WritesHashed'
<1>1. CASE ~ApplyReturns
  BY <1>1, OthersLeaveRegister DEF dbVars, WritesHashed
<1>2. CASE ApplyReturns /\ ~Later(Ver(job.raw), activity[job.raw.slot])
  BY <1>2, NoWriteStep DEF WritesHashed
<1>3. CASE ApplyReturns /\ Later(Ver(job.raw), activity[job.raw.slot])
  <2> DEFINE k == job.raw.slot
             more == Append(auditWrites[k], [old |-> ledger[k].hash, new |-> job.raw.hash])
  <2>1. auditWrites' = [auditWrites EXCEPT ![k] = more]
    BY <1>3, WriteStep DEF ApplyWrite
  <2>2. /\ k \in Slot /\ job.raw.hash \in Nat \ {0}
        /\ auditWrites \in [Slot -> Seq([old : Nat, new : Nat])]
        /\ ledger \in [Slot -> [hash : Nat, version : Nat]]
    BY <1>3, ReturnedRaw
  <2>3. \A i \in DOMAIN more : more[i].new # 0
    <3>1. auditWrites[k] \in Seq([old : Nat, new : Nat])
      BY <2>2
    <3>2. \A i \in DOMAIN more :
            \/ i \in DOMAIN auditWrites[k] /\ more[i] = auditWrites[k][i]
            \/ more[i] = [old |-> ledger[k].hash, new |-> job.raw.hash]
      BY <2>2, <3>1
    <3> QED
      BY <2>2, <3>2 DEF WritesHashed
  <2>4. \A j \in Slot : auditWrites'[j] = IF j = k THEN more ELSE auditWrites[j]
    BY <2>1, <2>2
  <2> QED
    BY <2>3, <2>4 DEF WritesHashed
<1> QED
  BY <1>1, <1>2, <1>3

LEMMA StepFunnel == FunnelInv /\ [Next]_vars => FunnelInv'
<1> SUFFICES ASSUME FunnelInv, [Next]_vars PROVE FunnelInv'
  OBVIOUS
<1> USE DEF FunnelInv
<1>1. RegInv' /\ AuditReplays' /\ WritesHashed'
  BY StepReg, ReplayStays, WritesStayHashed
<1>2. dlq \in [Slot -> [payload : Raw \union {NoRaw},
                        category : Categories \union {"none"}, open : BOOLEAN]]
  BY DEF RegInv, ProcInv, TypeOK, QueueTypeOK
<1>3. IsFiniteSet(LedgerKeys')
  <2>1. PICK k : LedgerKeys' \subseteq LedgerKeys \union {k}
    BY LedgerGrows
  <2>2. IsFiniteSet(LedgerKeys \union {k})
    BY FS_AddElement DEF FinitelyMany
  <2> QED
    BY <2>1, <2>2, FS_Subset
<1>4. RowsCategorised' /\ IsFiniteSet(QueueKeys')
  <2>1. CASE dlq' = dlq
    BY <2>1 DEF RowsCategorised, FinitelyMany, QueueKeys
  <2>2. CASE RowWritten
    <3>0. PICK k \in Slot : \E row : /\ dlq' = [dlq EXCEPT ![k] = row]
                                     /\ row.category \in Categories
      BY <2>2 DEF RowWritten
    <3>1. PICK row : dlq' = [dlq EXCEPT ![k] = row] /\ row.category \in Categories
      BY <3>0
    <3>2. \A j \in Slot : dlq'[j] = IF j = k THEN row ELSE dlq[j]
      BY <1>2, <3>1
    <3>3. QueueKeys' \subseteq QueueKeys \union {k}
      BY <3>2 DEF QueueKeys
    <3>4. IsFiniteSet(QueueKeys \union {k})
      BY FS_AddElement DEF FinitelyMany
    <3>5. IsFiniteSet(QueueKeys')
      BY <3>3, <3>4, FS_Subset
    <3> QED
      BY <3>1, <3>2, <3>5 DEF RowsCategorised, QueueKeys
  <2> QED
    BY <2>1, <2>2, OneRowAtATime
<1> QED
  BY <1>1, <1>3, <1>4 DEF FinitelyMany

LEMMA InitFunnel == Init => FunnelInv
<1> SUFFICES ASSUME Init PROVE FunnelInv
  OBVIOUS
<1>1. LedgerKeys = {} /\ QueueKeys = {}
  BY DEF Init, LedgerKeys, QueueKeys, Recorded
<1>2. AuditReplays /\ WritesHashed
  BY DEF Init, AuditReplays, WritesHashed
<1> QED
  BY <1>1, <1>2, InitReg, FS_EmptySet DEF FunnelInv, RowsCategorised, FinitelyMany

LEMMA FunnelInvariant == OpsSpec => []FunnelInv
BY OnlyReads, InitFunnel, StepFunnel, PTL DEF Spec

---------------------------------------------------------------------------
(* Counting.                                                               *)

LEMMA DisjointCount ==
  ASSUME NEW S, NEW T, IsFiniteSet(S), IsFiniteSet(T), S \intersect T = {}
  PROVE  /\ IsFiniteSet(S \union T)
         /\ Cardinality(S \union T) = Cardinality(S) + Cardinality(T)
<1>1. Cardinality(S \intersect T) = 0
  BY FS_EmptySet
<1>2. Cardinality(S) \in Nat /\ Cardinality(T) \in Nat
  BY FS_CardinalityType
<1>3. /\ IsFiniteSet(S \union T)
      /\ Cardinality(S \union T)
           = Cardinality(S) + Cardinality(T) - Cardinality(S \intersect T)
  BY FS_Union
<1> QED
  BY <1>1, <1>2, <1>3

(* The funnel's stages part the keys between them.                         *)
LEMMA StagesAddUp ==
  ASSUME FunnelInv PROVE Ingested = Upserted + FailedValidation + FailedWrite
<1> DEFINE V == {k \in Unrecovered : dlq[k].category \in {"poison", "poison_no_key"}}
           W == {k \in Unrecovered : dlq[k].category = "transient_exhausted"}
<1>1. IsFiniteSet(LedgerKeys) /\ IsFiniteSet(V) /\ IsFiniteSet(W)
  <2>1. V \subseteq QueueKeys /\ W \subseteq QueueKeys
    BY DEF Unrecovered
  <2> QED
    BY <2>1, FS_Subset DEF FunnelInv, FinitelyMany
<1>2. V \intersect W = {} /\ LedgerKeys \intersect (V \union W) = {}
  BY DEF Unrecovered
<1>3. LedgerKeys \union QueueKeys = LedgerKeys \union (V \union W)
  BY DEF Unrecovered, FunnelInv, RowsCategorised, Categories
<1>4. /\ IsFiniteSet(V \union W)
      /\ Cardinality(V \union W) = Cardinality(V) + Cardinality(W)
  <2> HIDE DEF V, W
  <2> QED
    BY <1>1, <1>2, DisjointCount
<1>5. Cardinality(LedgerKeys \union (V \union W))
        = Cardinality(LedgerKeys) + Cardinality(V \union W)
  <2> HIDE DEF V, W
  <2> QED
    BY <1>1, <1>2, <1>4, DisjointCount
<1>6. Cardinality(LedgerKeys) \in Nat /\ Cardinality(V) \in Nat /\ Cardinality(W) \in Nat
  <2> HIDE DEF V, W
  <2> QED
    BY <1>1, FS_CardinalityType
<1>7. /\ Ingested = Cardinality(LedgerKeys \union QueueKeys)
      /\ Upserted = Cardinality(LedgerKeys)
      /\ FailedValidation = Cardinality(V) /\ FailedWrite = Cardinality(W)
  BY DEF Ingested, Upserted, FailedValidation, FailedWrite
<1> HIDE DEF V, W
<1>8. Ingested = Cardinality(LedgerKeys) + (Cardinality(V) + Cardinality(W))
  BY <1>3, <1>4, <1>5, <1>7
<1> QED
  BY <1>6, <1>7, <1>8

(* A key in the ledger has exactly one audit row that starts from nothing, *)
(* its first.                                                              *)
LEMMA FirstRowCreates ==
  ASSUME FunnelInv, NEW k \in Slot
  PROVE  CreatedRows(k) = IF k \in LedgerKeys THEN {1} ELSE {}
<1> DEFINE written == auditWrites[k]
<1>1. /\ written \in Seq([old : Nat, new : Nat])
      /\ ledger[k].version \in Nat
  BY DEF FunnelInv, RegInv, ProcInv, TypeOK, DatabaseTypeOK
<1>2. DOMAIN written = 1..Len(written) /\ Len(written) \in Nat
  BY <1>1
<1>3. /\ Len(written) = ledger[k].version
      /\ \A i \in 1..Len(written) :
           written[i].old = IF i = 1 THEN 0 ELSE written[i - 1].new
  BY DEF FunnelInv, AuditReplays
<1>4. \A i \in 1..Len(written) : written[i].new # 0
  BY <1>2 DEF FunnelInv, WritesHashed
<1>5. k \in LedgerKeys <=> Len(written) > 0
  BY <1>3 DEF LedgerKeys, Recorded
<1>6. CreatedRows(k) = {i \in 1..Len(written) : written[i].old = 0}
  BY <1>2 DEF CreatedRows
<1> HIDE DEF written
<1>7. \A i \in 1..Len(written) : written[i].old = 0 <=> i = 1
  BY <1>2, <1>3, <1>4
<1>8. CASE k \in LedgerKeys
  <2>1. 1 \in 1..Len(written)
    BY <1>2, <1>5, <1>8
  <2> QED
    BY <1>6, <1>7, <1>8, <2>1
<1>9. CASE k \notin LedgerKeys
  <2>1. 1..Len(written) = {}
    BY <1>2, <1>5, <1>9
  <2> QED
    BY <1>6, <1>9, <2>1
<1> QED
  BY <1>8, <1>9

LEMMA CreatedCounts ==
  ASSUME FunnelInv, NEW s \in Source PROVE Created(s) = Records(s)
<1> DEFINE K == {k \in LedgerKeys : SourceOf[k] = s}
           P == {<<k, 1>> : k \in K}
           f == [k \in K |-> <<k, 1>>]
<1>1. UNION {{k} \X CreatedRows(k) : k \in {k \in Slot : SourceOf[k] = s}} = P
  <2>1. \A k \in Slot : {k} \X CreatedRows(k) = IF k \in LedgerKeys THEN {<<k, 1>>} ELSE {}
    BY FirstRowCreates
  <2> QED
    BY <2>1 DEF LedgerKeys
<1>2. f \in [K -> P] /\ \A j, k \in K : f[j] = f[k] => j = k
  OBVIOUS
<1>3. \A p \in P : \E k \in K : f[k] = p
  OBVIOUS
<1>4. IsFiniteSet(K)
  <2>1. K \subseteq LedgerKeys
    OBVIOUS
  <2> QED
    BY <2>1, FS_Subset DEF FunnelInv, FinitelyMany
<1>5. Cardinality(P) = Cardinality(K)
  <2> HIDE DEF K, P, f
  <2>1. f \in Bijection(K, P)
    BY <1>2, <1>3, Fun_IsBij
  <2>2. ExistsBijection(K, P)
    BY <2>1, Fun_ExistsBij
  <2> QED
    BY <1>4, <2>2, FS_Bijection
<1> QED
  BY <1>1, <1>5 DEF Created, Records

(* At every moment the numbers of the funnel add up, every decision the    *)
(* engine made is counted, and the created rows of the trail are as many as*)
(* the records of the source (ops_metrics.py:127-193, 212-258).            *)
THEOREM FunnelAlwaysAddsUp == OpsSpec => []FunnelAddsUp
<1>1. FunnelInv => FunnelAddsUp
  <2> SUFFICES ASSUME FunnelInv PROVE FunnelAddsUp
    OBVIOUS
  <2>1. \A r \in applied : r.slot \in LedgerKeys
    BY RawAssumption
    DEF FunnelInv, RegInv, AppliedShown, ProcInv, TypeOK, RawRecord, LedgerKeys
  <2> QED
    BY <2>1, StagesAddUp, CreatedCounts DEF FunnelAddsUp
<1> QED
  BY <1>1, FunnelInvariant, PTL

---------------------------------------------------------------------------
(* A whole look.                                                           *)

(* The ledger of a source only grows, so a number of records read earlier  *)
(* is no more than one read later.                                         *)
LEMMA RecordsGrow ==
  ASSUME FunnelInv, [Next]_vars, NEW s
  PROVE  /\ Records(s) \in Nat /\ Records(s)' \in Nat
         /\ Records(s) <= Records(s)'
<1> DEFINE K == {k \in LedgerKeys : SourceOf[k] = s}
<1>1. IsFiniteSet(LedgerKeys) /\ IsFiniteSet(LedgerKeys')
  BY StepFunnel DEF FunnelInv, FinitelyMany
<1>2. K \subseteq LedgerKeys /\ K' \subseteq LedgerKeys' /\ K \subseteq K'
  BY LedgerGrows DEF FunnelInv
<1>3. Records(s) = Cardinality(K) /\ Records(s)' = Cardinality(K')
  BY DEF Records
<1> HIDE DEF K
<1>4. IsFiniteSet(K) /\ IsFiniteSet(K')
  BY <1>1, <1>2, FS_Subset
<1>5. Cardinality(K) \in Nat /\ Cardinality(K') \in Nat
  BY <1>4, FS_CardinalityType
<1>6. Cardinality(K) <= Cardinality(K')
  BY <1>2, <1>4, FS_Subset
<1> QED
  BY <1>3, <1>5, <1>6

LookColumns == DOMAIN NoLook

(* Between its two SELECTs, what a look has of a source's created rows is  *)
(* no more than the records the source has by now.                         *)
LookInv ==
  /\ look = [c \in LookColumns |-> look[c]]
  /\ look.stage = "created" => /\ look.source \in Source
                               /\ look.created <= Records(look.source)
                               /\ look.created \in Nat
  /\ CreatedAreRecords

LEMMA StepLook == FunnelInv /\ LookInv /\ [OpsNext]_opsVars => LookInv'
<1> SUFFICES ASSUME FunnelInv, LookInv, [OpsNext]_opsVars PROVE LookInv'
  OBVIOUS
<1>1. {"stage", "source", "created", "records"} \subseteq LookColumns
  BY DEF LookColumns, NoLook
<1>2. CASE look' = look /\ [Next]_vars
  <2>1. ASSUME look.stage = "created" PROVE look.created <= Records(look.source)'
    BY <1>2, <2>1, RecordsGrow DEF LookInv
  <2> QED
    BY <1>2, <2>1 DEF LookInv, CreatedAreRecords
<1>3. CASE ReadDepth
  BY <1>3 DEF ReadDepth, LookInv, CreatedAreRecords, LookColumns, NoLook
<1>4. CASE ReadFunnel
  BY <1>1, <1>4 DEF ReadFunnel, Select, LookInv, CreatedAreRecords
<1>5. ASSUME NEW s \in Source, ReadThroughput(s) PROVE LookInv'
  <2>1. Records(s)' = Records(s) /\ Created(s) = Records(s) /\ Records(s) \in Nat
    <3>1. UNCHANGED vars
      BY <1>5 DEF ReadThroughput, Select
    <3>2. ledger' = ledger
      BY <3>1 DEF vars, dbVars
    <3> QED
      BY <3>1, <3>2, RecordsGrow, CreatedCounts DEF Records, LedgerKeys, Recorded
  <2>2. CASE look.stage = "open"
    <3>1. look' = [look EXCEPT !.stage = "created", !.source = s, !.created = Created(s)]
      BY <1>5, <2>2 DEF ReadThroughput, Select
    <3>2. look'.stage = "created" /\ look'.source = s /\ look'.created = Created(s)
      BY <1>1, <3>1 DEF LookInv
    <3>3. look' = [c \in LookColumns |-> look'[c]]
      BY <1>1, <3>1 DEF LookInv
    <3>4. (look.created <= Records(look.source))'
      BY <2>1, <3>2 DEF Records
    <3> QED
      BY <2>1, <3>2, <3>3, <3>4 DEF LookInv, CreatedAreRecords
  <2>3. CASE look.stage # "open"
    BY <1>1, <1>5, <2>1, <2>3 DEF ReadThroughput, Select, LookInv, CreatedAreRecords
  <2> QED
    BY <2>2, <2>3
<1> QED
  BY <1>2, <1>3, <1>4, <1>5 DEF OpsNext, Sync, Look, opsVars

(* Whatever the engine commits in the middle of a look, a source is never  *)
(* shown with more created rows than records (ops_metrics.py:226-249).     *)
THEOREM NeverMoreCreatedThanRecords == OpsSpec => []CreatedAreRecords
<1>1. OpsInit => LookInv
  BY DEF OpsInit, LookInv, LookColumns, NoLook, CreatedAreRecords
<1>2. OpsSpec => []LookInv
  BY <1>1, StepLook, FunnelInvariant, PTL DEF OpsSpec
<1> QED
  BY <1>2, PTL DEF LookInv

---------------------------------------------------------------------------
(* Numbers of different moments.                                           *)

Near(S, T) == \E k : S \subseteq T \union {k} /\ T \subseteq S \union {k}

LEMMA NearCount ==
  ASSUME NEW S, NEW T, IsFiniteSet(S), Near(S, T)
  PROVE  /\ IsFiniteSet(T) /\ Cardinality(S) \in Nat /\ Cardinality(T) \in Nat
         /\ Apart(Cardinality(S), Cardinality(T), 1)
<1>1. PICK k : S \subseteq T \union {k} /\ T \subseteq S \union {k}
  BY DEF Near
<1>2. IsFiniteSet(S \union {k}) /\ Cardinality(S \union {k}) <= Cardinality(S) + 1
      /\ Cardinality(S) \in Nat /\ Cardinality(S \union {k}) \in Nat
  BY FS_AddElement, FS_CardinalityType
<1>3. /\ IsFiniteSet(T) /\ Cardinality(T) <= Cardinality(S \union {k})
      /\ Cardinality(T) \in Nat
  BY <1>1, <1>2, FS_Subset, FS_CardinalityType
<1>4. /\ IsFiniteSet(T \union {k}) /\ Cardinality(T \union {k}) <= Cardinality(T) + 1
      /\ Cardinality(T \union {k}) \in Nat
  <2>1. /\ IsFiniteSet(T \union {k})
        /\ Cardinality(T \union {k}) = IF k \in T THEN Cardinality(T) ELSE Cardinality(T) + 1
    BY <1>3, FS_AddElement
  <2> QED
    BY <1>3, <2>1, FS_CardinalityType
<1>5. Cardinality(S) <= Cardinality(T \union {k})
  BY <1>1, <1>4, FS_Subset
<1> QED
  BY <1>2, <1>3, <1>4, <1>5 DEF Apart

(* A commit touches the ledger row or the queue row of one key: no single  *)
(* commit both lands a record and writes the queue.                        *)
LEMMA OneKeyAtATime ==
  ASSUME RegInv, [Next]_vars
  PROVE  \E k : \A j \in Slot :
           j # k => (Recorded(j)' <=> Recorded(j)) /\ dlq'[j] = dlq[j]
<1>1. dlq \in [Slot -> [payload : Raw \union {NoRaw},
                        category : Categories \union {"none"}, open : BOOLEAN]]
  BY DEF RegInv, ProcInv, TypeOK, QueueTypeOK
<1>2. CASE ApplyReturns
  <2>1. dlq' = dlq
    BY <1>2 DEF ApplyReturns, ApplyUnchanged, ApplyConflict, ApplyWrite, Applied
  <2>2. PICK k : LedgerKeys' \subseteq LedgerKeys \union {k}
    BY LedgerGrows
  <2>3. LedgerKeys \subseteq LedgerKeys'
    BY LedgerGrows
  <2>4. \A j \in Slot : j # k => (Recorded(j)' <=> Recorded(j))
    BY <2>2, <2>3 DEF LedgerKeys
  <2> QED
    BY <2>1, <2>4
<1>3. CASE ~ApplyReturns
  <2>1. \A j : Recorded(j)' <=> Recorded(j)
    BY <1>3, OthersLeaveRegister DEF dbVars, Recorded
  <2>2. CASE dlq' = dlq
    BY <2>1, <2>2
  <2>3. CASE RowWritten
    <3>1. PICK k \in Slot : \E row : dlq' = [dlq EXCEPT ![k] = row]
      BY <2>3 DEF RowWritten
    <3>2. \A j \in Slot : j # k => dlq'[j] = dlq[j]
      BY <1>1, <3>1
    <3> QED
      BY <2>1, <3>2
  <2> QED
    BY <2>2, <2>3, OneRowAtATime
<1> QED
  BY <1>2, <1>3

WriteKeys == {k \in Unrecovered : dlq[k].category = "transient_exhausted"}
OpenKeys  == {k \in Slot : dlq[k].open}

(* At one moment the failures of the funnel are the unrecovered keys.      *)
LEMMA FailuresAreUnrecovered ==
  ASSUME FunnelInv
  PROVE  /\ FailedValidation + FailedWrite = Cardinality(Unrecovered)
         /\ FailedValidation \in Nat /\ FailedWrite \in Nat
<1> DEFINE V == {k \in Unrecovered : dlq[k].category \in {"poison", "poison_no_key"}}
<1>1. IsFiniteSet(V) /\ IsFiniteSet(WriteKeys)
  <2>1. V \subseteq QueueKeys /\ WriteKeys \subseteq QueueKeys
    BY DEF Unrecovered, WriteKeys
  <2> QED
    BY <2>1, FS_Subset DEF FunnelInv, FinitelyMany
<1>2. V \intersect WriteKeys = {}
  BY DEF WriteKeys
<1>3. V \union WriteKeys = Unrecovered
  BY DEF WriteKeys, Unrecovered, FunnelInv, RowsCategorised, Categories
<1>4. FailedValidation = Cardinality(V) /\ FailedWrite = Cardinality(WriteKeys)
  BY DEF FailedValidation, FailedWrite, WriteKeys
<1> HIDE DEF V
<1> QED
  BY <1>1, <1>2, <1>3, <1>4, DisjointCount, FS_CardinalityType

(* One step of the engine moves each number of the funnel, and the sum of  *)
(* the failures, by one at most.                                           *)
LEMMA NumbersMove ==
  ASSUME FunnelInv, [Next]_vars
  PROVE  /\ Ingested \in Nat /\ Ingested' \in Nat /\ Apart(Ingested, Ingested', 1)
         /\ Cardinality(Unrecovered) \in Nat /\ Cardinality(Unrecovered') \in Nat
         /\ Apart(Cardinality(Unrecovered), Cardinality(Unrecovered'), 1)
         /\ FailedWrite \in Nat /\ FailedWrite' \in Nat
         /\ Apart(FailedWrite, FailedWrite', 1)
         /\ OpenRows \in Nat /\ OpenRows' \in Nat /\ Apart(OpenRows, OpenRows', 1)
<1>1. PICK k : \A j \in Slot :
        j # k => (Recorded(j)' <=> Recorded(j)) /\ dlq'[j] = dlq[j]
  BY OneKeyAtATime DEF FunnelInv
<1>2. /\ Near(LedgerKeys \union QueueKeys, LedgerKeys' \union QueueKeys')
      /\ Near(Unrecovered, Unrecovered')
      /\ Near(WriteKeys, WriteKeys') /\ Near(OpenKeys, OpenKeys')
  BY <1>1 DEF Near, LedgerKeys, QueueKeys, Unrecovered, WriteKeys, OpenKeys
<1>3. /\ IsFiniteSet(LedgerKeys \union QueueKeys) /\ IsFiniteSet(Unrecovered)
      /\ IsFiniteSet(WriteKeys) /\ IsFiniteSet(OpenKeys)
  <2>1. IsFiniteSet(LedgerKeys \union QueueKeys)
    BY FS_Union DEF FunnelInv, FinitelyMany
  <2>2. /\ Unrecovered \subseteq QueueKeys /\ WriteKeys \subseteq QueueKeys
        /\ OpenKeys \subseteq QueueKeys
    BY DEF Unrecovered, WriteKeys, OpenKeys, QueueKeys, NoRow
  <2> QED
    BY <2>1, <2>2, FS_Subset DEF FunnelInv, FinitelyMany
<1>4. /\ Ingested = Cardinality(LedgerKeys \union QueueKeys)
      /\ FailedWrite = Cardinality(WriteKeys) /\ OpenRows = Cardinality(OpenKeys)
  BY DEF Ingested, FailedWrite, OpenRows, WriteKeys, OpenKeys
<1>5. /\ Ingested' = Cardinality(LedgerKeys' \union QueueKeys')
      /\ FailedWrite' = Cardinality(WriteKeys') /\ OpenRows' = Cardinality(OpenKeys')
  BY DEF Ingested, FailedWrite, OpenRows, WriteKeys, OpenKeys
<1> QED
  BY <1>2, <1>3, <1>4, <1>5, NearCount

Columns == {"depth", "ingested", "upserted", "validation", "write", "open"}
Counting == {"depth", "ingested", "upserted", "validation", "write"}

(* What a look has of the queue's depth so far, and of the funnel's sum,   *)
(* were the rest of it read now.                                           *)
DepthNow == IF look.stage \in Counting THEN OpenRows ELSE look.open
SumNow ==
  CASE look.stage = "ingested"   -> Ingested
    [] look.stage = "upserted"   -> look.upserted + Cardinality(Unrecovered)
    [] look.stage = "validation" -> look.upserted + look.validation + FailedWrite
    [] OTHER                     -> look.upserted + look.validation + look.write

Stages == Counting \union {"idle", "open", "created", "done"}

(* Read now, the rest of a look disagrees with its beginning by no more    *)
(* than the commits so far.                                                *)
TornInv ==
  /\ look = [c \in LookColumns |-> look[c]]
  /\ look.stage \in Stages /\ commits \in Nat
  /\ look.depth \in Nat /\ look.ingested \in Nat /\ look.upserted \in Nat
  /\ look.validation \in Nat /\ look.write \in Nat /\ look.open \in Nat
  /\ look.stage # "idle" /\ commits < MaxCommits =>
       /\ Apart(look.depth, DepthNow, commits)
       /\ look.stage # "depth" => Apart(look.ingested, SumNow, commits)
       /\ look.stage \notin {"depth", "ingested"} => look.upserted <= look.ingested + commits

LEMMA ApartStep ==
  ASSUME NEW m \in Nat, NEW n \in Nat, NEW n2 \in Nat, NEW d \in Nat,
         Apart(m, n, d), Apart(n, n2, 1)
  PROVE  Apart(m, n2, d + 1)
BY DEF Apart

LEMMA ApartShift ==
  ASSUME NEW a \in Nat, NEW m \in Nat, NEW n \in Nat, Apart(m, n, 1)
  PROVE  a + m \in Nat /\ a + n \in Nat /\ Apart(a + m, a + n, 1)
BY DEF Apart

LEMMA ApartSelf == \A a \in Nat : Apart(a, a, 1)
BY DEF Apart

LEMMA NowMoves ==
  ASSUME FunnelInv, TornInv, [Next]_vars, UNCHANGED look
  PROVE  /\ DepthNow \in Nat /\ DepthNow' \in Nat /\ Apart(DepthNow, DepthNow', 1)
         /\ SumNow \in Nat /\ SumNow' \in Nat /\ Apart(SumNow, SumNow', 1)
<1>1. /\ Ingested \in Nat /\ Ingested' \in Nat /\ Apart(Ingested, Ingested', 1)
      /\ Cardinality(Unrecovered) \in Nat /\ Cardinality(Unrecovered') \in Nat
      /\ Apart(Cardinality(Unrecovered), Cardinality(Unrecovered'), 1)
      /\ FailedWrite \in Nat /\ FailedWrite' \in Nat
      /\ Apart(FailedWrite, FailedWrite', 1)
      /\ OpenRows \in Nat /\ OpenRows' \in Nat /\ Apart(OpenRows, OpenRows', 1)
  BY NumbersMove
<1>2. /\ look.upserted \in Nat /\ look.validation \in Nat /\ look.write \in Nat
      /\ look.open \in Nat
  BY DEF TornInv
<1>3. DepthNow \in Nat /\ DepthNow' \in Nat /\ Apart(DepthNow, DepthNow', 1)
  <2>1. CASE look.stage \in Counting
    BY <1>1, <2>1 DEF DepthNow
  <2>2. CASE look.stage \notin Counting
    <3>1. DepthNow = look.open /\ DepthNow' = look.open
      BY <2>2 DEF DepthNow
    <3> QED
      BY <1>2, <3>1, ApartSelf
  <2> QED
    BY <2>1, <2>2
<1>4. CASE look.stage = "ingested"
  BY <1>1, <1>3, <1>4 DEF SumNow
<1>5. CASE look.stage = "upserted"
  <2>1. /\ SumNow = look.upserted + Cardinality(Unrecovered)
        /\ SumNow' = look.upserted + Cardinality(Unrecovered')
    BY <1>5 DEF SumNow
  <2>2. SumNow \in Nat /\ SumNow' \in Nat /\ Apart(SumNow, SumNow', 1)
    BY <1>1, <1>2, <2>1, ApartShift
  <2> QED
    BY <1>3, <2>2
<1>6. CASE look.stage = "validation"
  <2>1. /\ SumNow = look.upserted + look.validation + FailedWrite
        /\ SumNow' = look.upserted + look.validation + FailedWrite'
    BY <1>6 DEF SumNow
  <2>2. look.upserted + look.validation \in Nat
    BY <1>2
  <2>3. SumNow \in Nat /\ SumNow' \in Nat /\ Apart(SumNow, SumNow', 1)
    BY <1>1, <2>1, <2>2, ApartShift
  <2> QED
    BY <1>3, <2>3
<1>7. CASE look.stage \notin {"ingested", "upserted", "validation"}
  <2>1. /\ SumNow = look.upserted + look.validation + look.write
        /\ SumNow' = look.upserted + look.validation + look.write
    BY <1>7 DEF SumNow
  <2>2. SumNow \in Nat /\ SumNow' = SumNow
    BY <1>2, <2>1
  <2>3. Apart(SumNow, SumNow', 1)
    BY <2>2, ApartSelf
  <2> QED
    BY <1>3, <2>2, <2>3
<1> QED
  BY <1>4, <1>5, <1>6, <1>7

LEMMA SyncTorn == FunnelInv /\ TornInv /\ [Sync]_opsVars => TornInv'
<1> SUFFICES ASSUME FunnelInv, TornInv, [Sync]_opsVars PROVE TornInv'
  OBVIOUS
<1>1. [Next]_vars /\ UNCHANGED look
  BY DEF Sync, opsVars
<1>2. /\ DepthNow \in Nat /\ DepthNow' \in Nat /\ Apart(DepthNow, DepthNow', 1)
      /\ SumNow \in Nat /\ SumNow' \in Nat /\ Apart(SumNow, SumNow', 1)
  BY <1>1, NowMoves
<1>3. /\ commits \in Nat /\ MaxCommits \in Nat
      /\ look.depth \in Nat /\ look.ingested \in Nat /\ look.upserted \in Nat
  BY MaxCommitsAssumption DEF TornInv
<1>4. CASE commits' = commits + 1 /\ commits < MaxCommits
  <2>1. ASSUME look.stage # "idle"
        PROVE  /\ Apart(look.depth, DepthNow', commits + 1)
               /\ look.stage # "depth" => Apart(look.ingested, SumNow', commits + 1)
               /\ look.stage \notin {"depth", "ingested"} =>
                    look.upserted <= look.ingested + (commits + 1)
    <3>1. Apart(look.depth, DepthNow', commits + 1)
      BY <1>2, <1>3, <1>4, <2>1, ApartStep DEF TornInv
    <3>2. ASSUME look.stage # "depth" PROVE Apart(look.ingested, SumNow', commits + 1)
      BY <1>2, <1>3, <1>4, <2>1, <3>2, ApartStep DEF TornInv
    <3>3. ASSUME look.stage \notin {"depth", "ingested"}
          PROVE  look.upserted <= look.ingested + (commits + 1)
      <4>1. look.upserted <= look.ingested + commits
        BY <1>4, <2>1, <3>3 DEF TornInv
      <4> QED
        BY <1>3, <4>1
    <3> QED
      BY <3>1, <3>2, <3>3
  <2> QED
    BY <1>1, <1>3, <1>4, <2>1 DEF TornInv
<1>5. CASE commits' = commits /\ (look.stage \in {"idle", "done"} \/ ~(commits < MaxCommits))
  <2>1. look.stage = "done" => DepthNow' = DepthNow /\ SumNow' = SumNow
    BY <1>1 DEF DepthNow, SumNow, Counting
  <2> QED
    BY <1>1, <1>5, <2>1 DEF TornInv
<1>6. CASE commits' = commits /\ dbVars' = dbVars /\ dlq' = dlq
  <2>1. ledger' = ledger
    BY <1>6 DEF dbVars
  <2>2. DepthNow' = DepthNow /\ SumNow' = SumNow
    BY <1>1, <1>6, <2>1 DEF DepthNow, SumNow, OpenRows, Ingested, Unrecovered, FailedWrite,
                            LedgerKeys, QueueKeys, Recorded
  <2> QED
    BY <1>1, <1>6, <2>2 DEF TornInv
<1>7. \/ commits' = commits + 1 /\ commits < MaxCommits
      \/ commits' = commits /\ (look.stage \in {"idle", "done"} \/ ~(commits < MaxCommits))
      \/ commits' = commits /\ dbVars' = dbVars /\ dlq' = dlq
  BY DEF Sync, Commits, opsVars, vars
<1> QED
  BY <1>4, <1>5, <1>6, <1>7

(* A SELECT reads what was to be read: nothing but the look moves.         *)
LEMMA LookTorn == FunnelInv /\ TornInv /\ Look => TornInv'
<1> SUFFICES ASSUME FunnelInv, TornInv, Look PROVE TornInv'
  OBVIOUS
<1>1. UNCHANGED vars
  BY DEF Look, ReadDepth, ReadFunnel, ReadThroughput, Select
<1>2. /\ OpenRows' = OpenRows /\ Ingested' = Ingested /\ FailedWrite' = FailedWrite
      /\ Cardinality(Unrecovered)' = Cardinality(Unrecovered)
  BY <1>1 DEF vars, dbVars, OpenRows, Ingested, Unrecovered, FailedWrite,
              LedgerKeys, QueueKeys, Recorded
<1>3. /\ OpenRows \in Nat /\ Ingested \in Nat /\ FailedWrite \in Nat
      /\ Cardinality(Unrecovered) \in Nat
  BY <1>1, NumbersMove
<1>4. /\ FailedValidation \in Nat /\ Upserted \in Nat
      /\ FailedValidation + FailedWrite = Cardinality(Unrecovered)
      /\ Ingested = Upserted + Cardinality(Unrecovered)
  <2>1. Upserted \in Nat
    BY FS_CardinalityType DEF Upserted, FunnelInv, FinitelyMany
  <2>2. /\ FailedValidation \in Nat
        /\ FailedValidation + FailedWrite = Cardinality(Unrecovered)
    BY FailuresAreUnrecovered
  <2>3. Ingested = Upserted + FailedValidation + FailedWrite
    BY StagesAddUp
  <2> QED
    BY <1>3, <2>1, <2>2, <2>3
<1>5. /\ Columns \union {"stage", "source", "created", "records"} = LookColumns
      /\ DOMAIN look = LookColumns
  BY DEF LookColumns, NoLook, Columns, TornInv
<1>6. commits \in Nat
  BY DEF TornInv
<1>7. CASE ReadDepth
  <2>1. /\ look' = [NoLook EXCEPT !.stage = "depth", !.depth = OpenRows] /\ commits' = 0
    BY <1>7 DEF ReadDepth
  <2>2. /\ look'.stage = "depth" /\ look'.depth = OpenRows /\ look'.ingested = 0
        /\ look'.upserted = 0 /\ look'.validation = 0 /\ look'.write = 0 /\ look'.open = 0
        /\ look' = [c \in LookColumns |-> look'[c]]
    BY <2>1 DEF NoLook, LookColumns
  <2>3. DepthNow' = OpenRows
    BY <1>2, <2>2 DEF DepthNow, Counting
  <2> QED
    BY <1>3, <2>1, <2>2, <2>3 DEF TornInv, Apart, Stages, Counting
<1>8. ASSUME Select("depth", "ingested", "ingested", Ingested) PROVE TornInv'
  <2>1. /\ look.stage = "depth" /\ commits' = commits
        /\ look' = [look EXCEPT !.stage = "ingested", !.ingested = Ingested]
    BY <1>8 DEF Select
  <2>2. /\ look'.stage = "ingested" /\ look'.ingested = Ingested
        /\ look'.depth = look.depth /\ look'.upserted = look.upserted
        /\ look'.validation = look.validation /\ look'.write = look.write
        /\ look'.open = look.open /\ look' = [c \in LookColumns |-> look'[c]]
    BY <1>5, <2>1 DEF Columns
  <2>3. DepthNow = OpenRows /\ DepthNow' = OpenRows /\ SumNow' = Ingested
    BY <1>2, <2>1, <2>2 DEF DepthNow, SumNow, Counting
  <2>4. Apart(Ingested, Ingested, commits)
    BY <1>3, <1>6 DEF Apart
  <2> QED
    BY <1>3, <2>1, <2>2, <2>3, <2>4 DEF TornInv, Stages, Counting
<1>9. ASSUME Select("ingested", "upserted", "upserted", Upserted) PROVE TornInv'
  <2>1. /\ look.stage = "ingested" /\ commits' = commits
        /\ look' = [look EXCEPT !.stage = "upserted", !.upserted = Upserted]
    BY <1>9 DEF Select
  <2>2. /\ look'.stage = "upserted" /\ look'.upserted = Upserted
        /\ look'.depth = look.depth /\ look'.ingested = look.ingested
        /\ look'.validation = look.validation /\ look'.write = look.write
        /\ look'.open = look.open /\ look' = [c \in LookColumns |-> look'[c]]
    BY <1>5, <2>1 DEF Columns
  <2>3. /\ DepthNow = OpenRows /\ DepthNow' = OpenRows /\ SumNow = Ingested
        /\ SumNow' = Upserted + Cardinality(Unrecovered)
    BY <1>2, <2>1, <2>2 DEF DepthNow, SumNow, Counting
  <2>4. commits < MaxCommits => Upserted <= look.ingested + commits
    <3>1. commits < MaxCommits => Apart(look.ingested, Ingested, commits)
      BY <2>1, <2>3 DEF TornInv
    <3> QED
      BY <1>3, <1>4, <1>6, <3>1 DEF Apart, TornInv
  <2> QED
    BY <1>4, <2>1, <2>2, <2>3, <2>4 DEF TornInv, Stages, Counting
<1>10. ASSUME Select("upserted", "validation", "validation", FailedValidation) PROVE TornInv'
  <2>1. /\ look.stage = "upserted" /\ commits' = commits
        /\ look' = [look EXCEPT !.stage = "validation", !.validation = FailedValidation]
    BY <1>10 DEF Select
  <2>2. /\ look'.stage = "validation" /\ look'.validation = FailedValidation
        /\ look'.depth = look.depth /\ look'.ingested = look.ingested
        /\ look'.upserted = look.upserted /\ look'.write = look.write
        /\ look'.open = look.open /\ look' = [c \in LookColumns |-> look'[c]]
    BY <1>5, <2>1 DEF Columns
  <2>3. /\ DepthNow = OpenRows /\ DepthNow' = OpenRows
        /\ SumNow = look.upserted + Cardinality(Unrecovered)
        /\ SumNow' = look.upserted + FailedValidation + FailedWrite
    BY <1>2, <2>1, <2>2 DEF DepthNow, SumNow, Counting
  <2>4. SumNow' = SumNow
    BY <1>3, <1>4, <2>3 DEF TornInv
  <2> QED
    BY <1>4, <2>1, <2>2, <2>3, <2>4 DEF TornInv, Stages, Counting
<1>11. ASSUME Select("validation", "write", "write", FailedWrite) PROVE TornInv'
  <2>1. /\ look.stage = "validation" /\ commits' = commits
        /\ look' = [look EXCEPT !.stage = "write", !.write = FailedWrite]
    BY <1>11 DEF Select
  <2>2. /\ look'.stage = "write" /\ look'.write = FailedWrite
        /\ look'.depth = look.depth /\ look'.ingested = look.ingested
        /\ look'.upserted = look.upserted /\ look'.validation = look.validation
        /\ look'.open = look.open /\ look' = [c \in LookColumns |-> look'[c]]
    BY <1>5, <2>1 DEF Columns
  <2>3. DepthNow = OpenRows /\ DepthNow' = OpenRows /\ SumNow' = SumNow
    BY <1>2, <2>1, <2>2 DEF DepthNow, SumNow, Counting
  <2> QED
    BY <1>3, <2>1, <2>2, <2>3 DEF TornInv, Stages, Counting
<1>12. ASSUME Select("write", "open", "open", OpenRows) PROVE TornInv'
  <2>1. /\ look.stage = "write" /\ commits' = commits
        /\ look' = [look EXCEPT !.stage = "open", !.open = OpenRows]
    BY <1>12 DEF Select
  <2>2. /\ look'.stage = "open" /\ look'.open = OpenRows
        /\ look'.depth = look.depth /\ look'.ingested = look.ingested
        /\ look'.upserted = look.upserted /\ look'.validation = look.validation
        /\ look'.write = look.write /\ look' = [c \in LookColumns |-> look'[c]]
    BY <1>5, <2>1 DEF Columns
  <2>3. DepthNow = OpenRows /\ DepthNow' = OpenRows /\ SumNow' = SumNow
    BY <1>2, <2>1, <2>2 DEF DepthNow, SumNow, Counting
  <2> QED
    BY <1>3, <2>1, <2>2, <2>3 DEF TornInv, Stages
<1>13. ASSUME NEW s \in Source, ReadThroughput(s) PROVE TornInv'
  <2>1. /\ look.stage \in {"open", "created"} /\ look'.stage \in {"created", "done"}
        /\ commits' = commits
        /\ look'.depth = look.depth /\ look'.ingested = look.ingested
        /\ look'.upserted = look.upserted /\ look'.validation = look.validation
        /\ look'.write = look.write /\ look'.open = look.open
        /\ look' = [c \in LookColumns |-> look'[c]]
    BY <1>5, <1>13 DEF ReadThroughput, Select, Columns
  <2>2. DepthNow' = DepthNow /\ SumNow' = SumNow
    BY <2>1 DEF DepthNow, SumNow, Counting
  <2> QED
    BY <2>1, <2>2 DEF TornInv, Stages
<1> QED
  BY <1>7, <1>8, <1>9, <1>10, <1>11, <1>12, <1>13 DEF Look, ReadFunnel

(* However many commits fall into a look, its numbers disagree by no more  *)
(* than these (dashboard/app.py reads each by a SELECT of its own).        *)
THEOREM TornOnlyByCommits == OpsSpec => []TornByCommits
<1>1. OpsInit => TornInv
  BY DEF OpsInit, TornInv, LookColumns, NoLook, Stages
<1>2. FunnelInv /\ TornInv /\ [OpsNext]_opsVars => TornInv'
  BY SyncTorn, LookTorn DEF OpsNext
<1>3. TornInv => TornByCommits
  BY DEF TornInv, TornByCommits, DepthNow, SumNow, Counting
<1> QED
  BY <1>1, <1>2, <1>3, FunnelInvariant, PTL DEF OpsSpec

=============================================================================
