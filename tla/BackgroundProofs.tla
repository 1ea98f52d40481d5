-------------------------- MODULE BackgroundProofs --------------------------
(***************************************************************************)
(* Proofs about what runs beside the request handlers: the ClickHouse      *)
(* exporter, the ROA poller, the detectors, the RPKI cache, the snapshots  *)
(* of the baseline model and the scores of waves.  They hold for every set *)
(* of ROAs, prefixes, ASNs, collectors and records, every batch size and   *)
(* every number of cycles, refreshes, saves and restarts.                  *)
(***************************************************************************)
EXTENDS ClickHouseExporter, RoaPoller, Detection, RpkiCache, Snapshots, WaveScore,
        SequenceFacts, FiniteSetTheorems, WellFoundedInduction, TLAPS

-----------------------------------------------------------------------------
(* ClickHouseExporter: no silent loss, an acknowledged batch is in the      *)
(* table, and no record gets more than two rows.  The argument for the rows:*)
(* a record that is queued has never been posted (Fresh), a record leaves   *)
(* the queue once (Queued), and a record of the batch has been posted at    *)
(* most as often as there were attempts (Bounded); ClickHouse turns a       *)
(* request into a row, which changes no sum.                                *)

\* Queue and batch hold written records, each at most once between them.
Queued ==
  /\ Increasing(buffer)
  /\ \A r \in Range(buffer) : r <= sent /\ r \notin Range(batch)
  /\ \A r \in Range(batch) : r <= sent

\* A record that is yet to be written or popped has never been posted.
Fresh ==
  \A r \in Records : r > sent \/ r \in Range(buffer) =>
    rows[r] = 0 /\ Carrying(r) = {}

\* No record was posted more often than there were attempts.
Bounded ==
  /\ IsFiniteSet(requests)
  /\ \A r \in Records : Copies(r) <= MaxAttempts
  /\ \A r \in Range(batch) : Copies(r) <= attempts

\* The locals of flush() and the answer it has, by where the task is.
Locals ==
  /\ pc \in {"sleep", "pop", "down"} => attempts = 0 /\ reply = "none"
  /\ pc \in {"sleep", "down"} => batch = <<>>
  /\ pc = "pause" => attempts < MaxAttempts
  /\ reply = "ok" => Range(batch) \subseteq Stored

ExporterInd ==
  TypeOK /\ Queued /\ Fresh /\ Bounded /\ Locals /\ AckedStored /\ NoSilentLoss

-----------------------------------------------------------------------------
\* What the assumptions say of the bounds.
LEMMA ExporterConstants ==
  /\ BatchSize \in Nat /\ BatchSize >= 1
  /\ QueueCapacity \in Nat /\ QueueCapacity = 2 * BatchSize
  /\ NumRecords \in Nat /\ MaxRestarts \in Nat /\ MaxAttempts = 2
  BY BatchSizeAssumption, RecordsAssumption, RestartsAssumption
  DEF QueueCapacity, MaxAttempts

\* The elements of a sequence of records are records.
LEMMA RecordSeq ==
  ASSUME NEW s \in Seq(Records)
  PROVE  Range(s) \subseteq Records /\ Len(s) \in Nat
  BY DEF Range

\* Records are numbers.
LEMMA RecordsAreNumbers == Records \in SUBSET Nat
  BY RecordsAssumption DEF Records

\* The empty sequence.
LEMMA EmptyQueue == <<>> \in Seq(Records) /\ Len(<<>>) = 0
  OBVIOUS

\* How many requests carry a record.
LEMMA CarryingType ==
  ASSUME IsFiniteSet(requests), NEW r
  PROVE  IsFiniteSet(Carrying(r)) /\ Cardinality(Carrying(r)) \in Nat
<1>1. Carrying(r) \in SUBSET requests BY DEF Carrying
<1>2. IsFiniteSet(Carrying(r)) BY <1>1, FS_Subset
<1> QED BY <1>2, FS_CardinalityType

\* A post adds at most one request that carries r, and none unless r is in it.
LEMMA CarryingPost ==
  ASSUME IsFiniteSet(requests), NEW q, requests' = requests \cup {q}, NEW r
  PROVE  /\ IsFiniteSet(requests')
         /\ Cardinality(Carrying(r)') <= Cardinality(Carrying(r)) + 1
         /\ Cardinality(Carrying(r)') \in Nat
         /\ r \notin Range(q.recs) => Carrying(r)' = Carrying(r)
<1>1. IsFiniteSet(requests') BY FS_AddElement
<1>2. /\ IsFiniteSet(Carrying(r)) /\ Cardinality(Carrying(r)) \in Nat
  BY CarryingType
<1>3. CASE r \in Range(q.recs)
  <2>1. Carrying(r)' = Carrying(r) \cup {q} BY <1>3 DEF Carrying
  <2> DEFINE C == Carrying(r)
             D == Carrying(r) \cup {q}
  <2>2. IsFiniteSet(D) /\ (q \in C => D = C) BY <1>2, FS_AddElement
  <2>3. q \notin C => Cardinality(D) = Cardinality(C) + 1 BY <1>2, FS_AddElement
  <2>4. Cardinality(D) \in Nat BY <2>2, FS_CardinalityType
  <2>5. Carrying(r)' = D BY <2>1
  <2>6. Cardinality(C) \in Nat BY <1>2
  <2>7. Cardinality(Carrying(r)') <= Cardinality(C) + 1
    <3> HIDE DEF C, D
    <3> QED BY <2>2, <2>3, <2>4, <2>5, <2>6
  <2> QED BY <1>1, <1>3, <2>4, <2>5, <2>7
<1>4. CASE r \notin Range(q.recs)
  <2>1. Carrying(r)' = Carrying(r) BY <1>4 DEF Carrying
  <2> QED BY <1>1, <1>2, <2>1
<1> QED BY <1>3, <1>4

\* A request that is carried out or refused carries r no longer.
LEMMA CarryingDone ==
  ASSUME IsFiniteSet(requests), NEW q \in requests, requests' = requests \ {q},
         NEW r
  PROVE  /\ IsFiniteSet(requests')
         /\ Cardinality(Carrying(r)') \in Nat
         /\ Cardinality(Carrying(r)') =
              Cardinality(Carrying(r)) - (IF r \in Range(q.recs) THEN 1 ELSE 0)
         /\ r \notin Range(q.recs) => Carrying(r)' = Carrying(r)
<1>1. IsFiniteSet(requests') BY FS_RemoveElement
<1>2. /\ IsFiniteSet(Carrying(r)) /\ Cardinality(Carrying(r)) \in Nat
  BY CarryingType
<1>3. CASE r \in Range(q.recs)
  <2>1. Carrying(r)' = Carrying(r) \ {q} /\ q \in Carrying(r) BY <1>3 DEF Carrying
  <2>2. /\ IsFiniteSet(Carrying(r)')
        /\ Cardinality(Carrying(r)') = Cardinality(Carrying(r)) - 1
    BY <1>2, <2>1, FS_RemoveElement
  <2>3. Cardinality(Carrying(r)') \in Nat BY <2>2, FS_CardinalityType
  <2> QED BY <1>1, <1>3, <2>2, <2>3
<1>4. CASE r \notin Range(q.recs)
  <2>1. Carrying(r)' = Carrying(r) BY <1>4 DEF Carrying
  <2> QED BY <1>1, <1>2, <1>4, <2>1
<1> QED BY <1>3, <1>4

-----------------------------------------------------------------------------
\* A write: the new record is greater than all there is.
LEMMA WriteStep == ASSUME ExporterInd, Write PROVE ExporterInd'
<1>0. /\ sent \in Nat /\ sent + 1 \in Records /\ sent' = sent + 1
      /\ UNCHANGED <<pc, batch, attempts, reply, requests, rows, acked, lost, restarts>>
      /\ TypeOK /\ sent + 1 <= NumRecords
  BY ExporterConstants DEF ExporterInd, TypeOK, Write, Records
<1>1. CASE /\ Len(buffer) < QueueCapacity /\ buffer' = Append(buffer, sent + 1)
           /\ UNCHANGED dropped
  <2>1. /\ buffer' \in Seq(Records) /\ Range(buffer') = Range(buffer) \cup {sent + 1}
        /\ Len(buffer') = Len(buffer) + 1 /\ Len(buffer) \in Nat
    BY <1>0, <1>1, RangeAppend DEF TypeOK
  <2>2. TypeOK' BY <1>0, <1>1, <2>1, ExporterConstants DEF TypeOK
  <2>3. Increasing(buffer')
    <3>1. /\ buffer \in Seq(Records) /\ \A x \in Range(buffer) : x \in Nat /\ x < sent + 1
          /\ Increasing(buffer) /\ sent + 1 \in Nat
      BY <1>0, RecordSeq DEF TypeOK, ExporterInd, Queued, Records
    <3> QED BY <1>1, <3>1, RecordsAreNumbers, IncreasingAppend
  <2>4. Queued'
    BY <1>0, <2>1, <2>3, RecordSeq DEF ExporterInd, Queued, TypeOK, Records
  <2>5. Fresh' BY <1>0, <2>1 DEF ExporterInd, Fresh, Records, Carrying
  <2>6. Bounded' /\ Locals' /\ AckedStored'
    BY <1>0 DEF ExporterInd, Bounded, Locals, AckedStored, Stored, Copies, Carrying
  <2>7. NoSilentLoss' BY <1>0, <1>1, <2>1 DEF ExporterInd, NoSilentLoss, Stored
  <2> QED BY <2>2, <2>4, <2>5, <2>6, <2>7 DEF ExporterInd
<1>2. CASE dropped' = dropped \cup {sent + 1} /\ UNCHANGED buffer
  <2>1. TypeOK' BY <1>0, <1>2 DEF TypeOK
  <2>2. Queued' BY <1>0, <1>2, RecordSeq DEF ExporterInd, Queued, TypeOK, Records
  <2>3. Fresh' BY <1>0, <1>2 DEF ExporterInd, Fresh, Records, Carrying
  <2>4. Bounded' /\ Locals' /\ AckedStored'
    BY <1>0 DEF ExporterInd, Bounded, Locals, AckedStored, Stored, Copies, Carrying
  <2>5. NoSilentLoss' BY <1>0, <1>2 DEF ExporterInd, NoSilentLoss, Stored
  <2> QED BY <2>1, <2>2, <2>3, <2>4, <2>5 DEF ExporterInd
<1> QED BY <1>1, <1>2 DEF Write

\* The head of the queue moves to the batch.
LEMMA PopStep == ASSUME ExporterInd, Pop PROVE ExporterInd'
<1> DEFINE h == Head(buffer)
<1>0. /\ TypeOK /\ buffer # <<>> /\ buffer' = Tail(buffer) /\ batch' = Append(batch, h)
      /\ UNCHANGED <<sent, pc, attempts, reply, requests, rows, acked, dropped,
                     lost, restarts>>
      /\ pc = "pop" /\ Len(batch) < BatchSize
  BY DEF ExporterInd, Pop
<1>1. /\ h \in Records /\ buffer' \in Seq(Records) /\ Len(buffer') = Len(buffer) - 1
      /\ Range(buffer) = Range(buffer') \cup {h} /\ Len(buffer) \in Nat
  BY <1>0, HeadAndTail DEF TypeOK
<1>2. /\ batch' \in Seq(Records) /\ Range(batch') = Range(batch) \cup {h}
      /\ Len(batch') = Len(batch) + 1 /\ Len(batch) \in Nat
  BY <1>0, <1>1, RangeAppend DEF TypeOK
<1>3. Increasing(buffer') /\ h \notin Range(buffer')
  BY <1>0, RecordsAreNumbers, IncreasingTail DEF TypeOK, ExporterInd, Queued
<1> HIDE DEF h
<1>4. TypeOK' BY <1>0, <1>1, <1>2, ExporterConstants DEF TypeOK
<1>5. Queued' BY <1>0, <1>1, <1>2, <1>3 DEF ExporterInd, Queued
<1>6. Fresh' BY <1>0, <1>1 DEF ExporterInd, Fresh, Carrying
<1>7. rows[h] = 0 /\ Carrying(h) = {} BY <1>1 DEF ExporterInd, Fresh
<1>8. Copies(h) = 0 BY <1>7, FS_EmptySet DEF Copies
<1>9. attempts = 0 /\ reply = "none" BY <1>0 DEF ExporterInd, Locals
<1>10. Bounded'
  <2>1. \A r : Copies(r)' = Copies(r) BY <1>0 DEF Copies, Carrying
  <2>2. \A r \in Range(batch) : Copies(r) <= attempts BY DEF ExporterInd, Bounded
  <2>3. \A r \in Range(batch') : Copies(r)' <= attempts'
    BY <1>0, <1>2, <1>8, <1>9, <2>1, <2>2
  <2>4. IsFiniteSet(requests') /\ \A r \in Records : Copies(r)' <= MaxAttempts
    BY <1>0, <2>1 DEF ExporterInd, Bounded
  <2> QED BY <2>3, <2>4 DEF Bounded, MaxAttempts
<1>11. Locals' BY <1>0, <1>9 DEF ExporterInd, Locals
<1>12. AckedStored' BY <1>0 DEF ExporterInd, AckedStored, Stored
<1>13. NoSilentLoss' BY <1>0, <1>1, <1>2 DEF ExporterInd, NoSilentLoss, Stored
<1> QED BY <1>4, <1>5, <1>6, <1>10, <1>11, <1>12, <1>13 DEF ExporterInd

\* A post adds a request that carries the batch.
LEMMA PostStep == ASSUME ExporterInd, Post PROVE ExporterInd'
<1> DEFINE q == [recs |-> batch, attempt |-> attempts + 1]
<1>0. /\ TypeOK /\ attempts' = attempts + 1 /\ requests' = requests \cup {q}
      /\ reply' = "none" /\ pc' = "wait"
      /\ UNCHANGED <<sent, buffer, batch, rows, acked, dropped, lost, restarts>>
  BY DEF ExporterInd, Post
<1>1. attempts < MaxAttempts /\ attempts \in Nat
  BY ExporterConstants DEF ExporterInd, TypeOK, Locals, Post
<1>2. q \in Request /\ q.recs = batch
  BY <1>0, <1>1, ExporterConstants DEF TypeOK, Request
<1> HIDE DEF q
<1>3. TypeOK' BY <1>0, <1>1, <1>2, ExporterConstants DEF TypeOK
<1>4. Queued' BY <1>0 DEF ExporterInd, Queued
<1>5. ASSUME NEW r PROVE
        /\ IsFiniteSet(requests')
        /\ Cardinality(Carrying(r)') <= Cardinality(Carrying(r)) + 1
        /\ Cardinality(Carrying(r)') \in Nat /\ Cardinality(Carrying(r)) \in Nat
        /\ r \notin Range(batch) => Carrying(r)' = Carrying(r)
  BY <1>0, <1>2, CarryingPost, CarryingType DEF ExporterInd, Bounded
<1>6. Fresh'
  <2> SUFFICES ASSUME NEW r \in Records, r > sent \/ r \in Range(buffer)
               PROVE  rows[r] = 0 /\ Carrying(r)' = {}
    BY <1>0 DEF Fresh
  <2>1. rows[r] = 0 /\ Carrying(r) = {} BY DEF ExporterInd, Fresh
  <2>2. r \notin Range(batch)
    BY RecordSeq DEF ExporterInd, Queued, TypeOK, Records
  <2> QED BY <1>5, <2>1, <2>2
<1>7. Bounded'
  <2>1. ASSUME NEW r \in Range(batch) PROVE Copies(r)' <= attempts'
    <3>1. Copies(r) <= attempts /\ rows[r] \in Nat
      BY <1>0, RecordSeq DEF ExporterInd, Bounded, TypeOK
    <3> QED BY <1>0, <1>1, <1>5, <3>1 DEF Copies
  <2>2. ASSUME NEW r \in Records PROVE Copies(r)' <= MaxAttempts
    <3>1. CASE r \in Range(batch)
      <4>1. rows[r] \in Nat BY <1>0 DEF TypeOK
      <4> QED BY <1>0, <1>1, <1>5, <2>1, <3>1, <4>1, ExporterConstants DEF Copies
    <3>2. CASE r \notin Range(batch)
      BY <1>0, <1>5, <3>2 DEF ExporterInd, Bounded, Copies, MaxAttempts
    <3> QED BY <3>1, <3>2
  <2> QED BY <1>0, <1>5, <2>1, <2>2 DEF Bounded, MaxAttempts
<1>8. Locals' BY <1>0 DEF Locals
<1>9. AckedStored' /\ NoSilentLoss'
  BY <1>0 DEF ExporterInd, AckedStored, NoSilentLoss, Stored
<1> QED BY <1>3, <1>4, <1>6, <1>7, <1>8, <1>9 DEF ExporterInd

\* A request becomes a row of each of its records.
LEMMA ApplyStep == ASSUME ExporterInd, NEW q \in requests, Apply(q) PROVE ExporterInd'
<1>0. /\ TypeOK /\ requests' = requests \ {q}
      /\ rows' = [r \in Records |-> IF r \in Range(q.recs) THEN rows[r] + 1 ELSE rows[r]]
      /\ reply' = IF Awaited(q) THEN "ok" ELSE reply
      /\ UNCHANGED <<sent, buffer, pc, batch, attempts, acked, dropped, lost, restarts>>
  BY DEF ExporterInd, Apply
<1>1. q.recs \in Seq(Records) BY <1>0 DEF TypeOK, Request
<1>2. \A r \in Records : rows'[r] \in Nat /\ rows[r] \in Nat /\ rows'[r] >= rows[r]
  BY <1>0 DEF TypeOK
<1>3. TypeOK' BY <1>0, <1>2 DEF TypeOK
<1>4. Queued' BY <1>0 DEF ExporterInd, Queued
<1>5. ASSUME NEW r PROVE
        /\ IsFiniteSet(requests')
        /\ Cardinality(Carrying(r)') \in Nat /\ Cardinality(Carrying(r)) \in Nat
        /\ Cardinality(Carrying(r)') =
             Cardinality(Carrying(r)) - (IF r \in Range(q.recs) THEN 1 ELSE 0)
        /\ r \notin Range(q.recs) => Carrying(r)' = Carrying(r)
  BY <1>0, CarryingDone, CarryingType DEF ExporterInd, Bounded
<1>6. Fresh'
  <2> SUFFICES ASSUME NEW r \in Records, r > sent \/ r \in Range(buffer)
               PROVE  rows'[r] = 0 /\ Carrying(r)' = {}
    BY <1>0 DEF Fresh
  <2>1. rows[r] = 0 /\ Carrying(r) = {} BY DEF ExporterInd, Fresh
  <2>2. r \notin Range(q.recs) BY <2>1 DEF Carrying
  <2> QED BY <1>0, <1>5, <2>1, <2>2
<1>7. \A r \in Records : Copies(r)' = Copies(r)
  BY <1>0, <1>2, <1>5 DEF Copies
<1>8. Bounded'
  BY <1>0, <1>5, <1>7, RecordSeq DEF ExporterInd, Bounded, TypeOK, MaxAttempts
<1>9. Stored \subseteq Stored' /\ Range(q.recs) \subseteq Stored'
  BY <1>0, <1>1, <1>2, RecordSeq DEF Stored
<1>10. Locals' BY <1>0, <1>9 DEF ExporterInd, Locals, Awaited
<1>11. AckedStored' /\ NoSilentLoss'
  BY <1>0, <1>9 DEF ExporterInd, AckedStored, NoSilentLoss
<1> QED BY <1>3, <1>4, <1>6, <1>8, <1>10, <1>11 DEF ExporterInd

\* A request is gone without a trace in the table.
LEMMA RejectStep == ASSUME ExporterInd, NEW q \in requests, Reject(q) PROVE ExporterInd'
<1>0. /\ TypeOK /\ requests' = requests \ {q}
      /\ reply' = IF Awaited(q) THEN "error" ELSE reply
      /\ UNCHANGED <<sent, buffer, pc, batch, attempts, rows, acked, dropped, lost,
                     restarts>>
  BY DEF ExporterInd, Reject
<1>1. TypeOK' BY <1>0 DEF TypeOK
<1>2. Queued' BY <1>0 DEF ExporterInd, Queued
<1>3. ASSUME NEW r PROVE
        /\ IsFiniteSet(requests')
        /\ Cardinality(Carrying(r)') \in Nat /\ Cardinality(Carrying(r)) \in Nat
        /\ Cardinality(Carrying(r)') <= Cardinality(Carrying(r))
  <2>1. /\ IsFiniteSet(requests')
        /\ Cardinality(Carrying(r)') \in Nat
        /\ Cardinality(Carrying(r)') =
             Cardinality(Carrying(r)) - (IF r \in Range(q.recs) THEN 1 ELSE 0)
    BY <1>0, CarryingDone DEF ExporterInd, Bounded
  <2>2. Cardinality(Carrying(r)) \in Nat BY CarryingType DEF ExporterInd, Bounded
  <2> QED BY <2>1, <2>2
<1>4. Fresh' BY <1>0 DEF ExporterInd, Fresh, Carrying
<1>5. \A r \in Records : Copies(r)' <= Copies(r) /\ Copies(r) \in Nat /\ Copies(r)' \in Nat
  BY <1>0, <1>3 DEF Copies, TypeOK
<1>6. attempts \in Nat /\ MaxAttempts \in Nat /\ Range(batch) \subseteq Records
  BY <1>0, RecordSeq, ExporterConstants DEF TypeOK
<1>7. Bounded'
  BY <1>0, <1>3, <1>5, <1>6 DEF ExporterInd, Bounded, MaxAttempts
<1>8. Locals' BY <1>0 DEF ExporterInd, Locals, Awaited, Stored
<1>9. AckedStored' /\ NoSilentLoss'
  BY <1>0 DEF ExporterInd, AckedStored, NoSilentLoss, Stored
<1> QED BY <1>1, <1>2, <1>4, <1>7, <1>8, <1>9 DEF ExporterInd

\* flush() returns, or the process ends: the batch is accounted for elsewhere.
LEMMA ClearStep ==
  ASSUME ExporterInd, TypeOK', batch' = <<>>, attempts' = 0, reply' = "none",
         pc' \in {"sleep", "down"},
         buffer' = buffer \/ buffer' = <<>>,
         UNCHANGED <<sent, requests, rows>>,
         acked' \subseteq Stored,
         Range(buffer) \cup Range(batch) \cup Stored \cup dropped \cup lost
           \subseteq Range(buffer') \cup Stored \cup dropped' \cup lost'
  PROVE  ExporterInd'
<1>0. /\ Range(batch') = {} /\ Range(buffer') \subseteq Range(buffer)
      /\ Increasing(buffer')
  <2>1. Increasing(buffer) BY DEF ExporterInd, Queued
  <2>2. ASSUME NEW s, s = <<>> PROVE Range(s) = {} /\ Increasing(s)
    BY <2>2, EmptyRange, IncreasingEmpty, Zenon
  <2> QED BY <2>1, <2>2
<1>1. Queued' BY <1>0 DEF ExporterInd, Queued
<1>2. Fresh' BY <1>0 DEF ExporterInd, Fresh, Carrying
<1>3. Bounded'
  <2>1. \A r : Copies(r)' = Copies(r) BY DEF Copies, Carrying
  <2> QED BY <1>0, <2>1 DEF ExporterInd, Bounded, MaxAttempts
<1>4. Locals' BY <1>0 DEF Locals
<1>5. Stored' = Stored BY DEF Stored
<1>6. AckedStored' /\ NoSilentLoss'
  BY <1>0, <1>5 DEF ExporterInd, AckedStored, NoSilentLoss
<1> QED BY <1>1, <1>2, <1>3, <1>4, <1>6 DEF ExporterInd

\* The steps of the task that post nothing, and the restart.
LEMMA TaskStep ==
  ASSUME ExporterInd, Wake \/ FlushEmpty \/ Restart \/ (Fail /\ pc' = "pause")
  PROVE  ExporterInd'
<1>0. UNCHANGED <<sent, buffer, batch, attempts, reply, requests, rows, acked,
                  dropped, lost>>
  BY DEF Wake, FlushEmpty, Restart, Fail, Return
<1>1. TypeOK'
  BY <1>0, ExporterConstants DEF ExporterInd, TypeOK, Wake, FlushEmpty, Restart, Fail
<1>2. Locals'
  BY <1>0 DEF ExporterInd, Locals, Stored, Wake, FlushEmpty, Restart, Fail, Return, MaxAttempts
<1>3. Queued' /\ Fresh' /\ Bounded' /\ AckedStored' /\ NoSilentLoss'
  BY <1>0 DEF ExporterInd, Queued, Fresh, Bounded, Copies, Carrying, AckedStored,
              NoSilentLoss, Stored, MaxAttempts
<1> QED BY <1>1, <1>2, <1>3 DEF ExporterInd

\* Every step preserves the inductive invariant.
LEMMA ExporterStep == ASSUME ExporterInd, [Next]_vars PROVE ExporterInd'
<1>1. CASE Write BY <1>1, WriteStep
<1>2. CASE Wake \/ FlushEmpty \/ Restart BY <1>2, TaskStep
<1>3. CASE Pop BY <1>3, PopStep
<1>4. CASE Post BY <1>4, PostStep
<1>5. CASE Succeed
  <2>1. Range(batch) \subseteq Stored /\ Range(batch) \subseteq Records
    BY <1>5, RecordSeq DEF Succeed, ExporterInd, Locals, TypeOK
  <2>2. TypeOK' BY <1>5, <2>1, EmptyQueue, ExporterConstants DEF Succeed, Return, ExporterInd, TypeOK
  <2> QED BY <1>5, <2>1, <2>2, ClearStep DEF Succeed, Return, ExporterInd, AckedStored
<1>6. CASE Fail
  <2>1. CASE attempts < MaxAttempts BY <1>6, <2>1, TaskStep DEF Fail
  <2>2. CASE ~(attempts < MaxAttempts)
    <3>1. Range(batch) \subseteq Records BY RecordSeq DEF ExporterInd, TypeOK
    <3>2. TypeOK'
      BY <1>6, <2>2, <3>1, EmptyQueue, ExporterConstants DEF Fail, Return, ExporterInd, TypeOK
    <3> QED BY <1>6, <2>2, <3>2, ClearStep DEF Fail, Return, ExporterInd, AckedStored
  <2> QED BY <2>1, <2>2
<1>7. ASSUME NEW q \in requests, Apply(q) \/ Reject(q) PROVE ExporterInd'
  BY <1>7, ApplyStep, RejectStep
<1>8. CASE Stop
  <2>1. Range(batch) \subseteq Records /\ Range(buffer) \subseteq Records
    BY RecordSeq DEF ExporterInd, TypeOK
  <2>2. TypeOK' BY <1>8, <2>1, EmptyQueue, ExporterConstants DEF Stop, ExporterInd, TypeOK
  <2> QED BY <1>8, <2>2, ClearStep DEF Stop, ExporterInd, AckedStored
<1>9. CASE UNCHANGED vars
  BY <1>9 DEF vars, ExporterInd, TypeOK, Queued, Fresh, Bounded, Copies, Carrying, Locals,
              AckedStored, NoSilentLoss, Stored, MaxAttempts
<1> QED BY <1>1, <1>2, <1>3, <1>4, <1>5, <1>6, <1>7, <1>8, <1>9 DEF Next, FlushStep

\* The inductive invariant holds initially.
LEMMA ExporterStart == Init => ExporterInd
<1> SUFFICES ASSUME Init PROVE ExporterInd
  OBVIOUS
<1>1. TypeOK BY ExporterConstants, EmptyQueue DEF Init, TypeOK
<1>2. \A r : Carrying(r) = {} BY DEF Init, Carrying
<1>3. \A r \in Records : rows[r] = 0 BY DEF Init
<1>4. Cardinality({}) = 0 /\ IsFiniteSet({}) BY FS_EmptySet
<1>5. \A r \in Records : Copies(r) = 0 BY <1>2, <1>3, <1>4 DEF Copies
<1>6. Range(buffer) = {} /\ Range(batch) = {} /\ Increasing(buffer)
  BY EmptyRange, IncreasingEmpty, Zenon DEF Init
<1>7. Queued BY <1>6 DEF Queued
<1>8. Fresh BY <1>2, <1>3 DEF Fresh
<1>9. Locals BY <1>6 DEF Init, Locals
<1>10. IsFiniteSet(requests) BY <1>4 DEF Init
<1>11. Bounded BY <1>5, <1>6, <1>10, ExporterConstants DEF Bounded
<1>12. AckedStored /\ NoSilentLoss BY DEF Init, AckedStored, NoSilentLoss
<1> QED BY <1>1, <1>7, <1>8, <1>9, <1>11, <1>12 DEF ExporterInd

\* ExporterInd is an invariant.
LEMMA ExporterInvariance == Spec => []ExporterInd
  BY ExporterStart, ExporterStep, PTL DEF Spec

-----------------------------------------------------------------------------
(* Type correctness: queue and batch keep their limits, and flush() makes   *)
(* at most two attempts.                                                    *)
THEOREM ExporterTypeCorrect == Spec => []TypeOK
<1>1. ExporterInd => TypeOK BY DEF ExporterInd
<1> QED BY ExporterInvariance, <1>1, PTL

(* No record handed to write() vanishes without being counted as dropped or *)
(* going down with the process.                                             *)
THEOREM RowsNotLostSilently == Spec => []NoSilentLoss
<1>1. ExporterInd => NoSilentLoss BY DEF ExporterInd
<1> QED BY ExporterInvariance, <1>1, PTL

(* A batch that flush() reports as flushed is in the table. *)
THEOREM AcknowledgedIsStored == Spec => []AckedStored
<1>1. ExporterInd => AckedStored BY DEF ExporterInd
<1> QED BY ExporterInvariance, <1>1, PTL

(* No record gets more rows than flush() makes attempts, whenever           *)
(* ClickHouse carries its requests out and however often the gateway is     *)
(* restarted.                                                               *)
THEOREM RetriesBounded == Spec => []AtMostTwice
<1>1. ExporterInd => AtMostTwice BY DEF ExporterInd, Bounded, AtMostTwice
<1> QED BY ExporterInvariance, <1>1, PTL

-----------------------------------------------------------------------------
(* RoaPoller.  While a cycle is under way the history lags behind the known *)
(* ROAs by exactly its deltas, whatever was unsure before.                  *)

RoaTypes ==
  /\ published \subseteq Roas /\ known_roas \subseteq Roas /\ new_roas \subseteq Roas
  /\ added \subseteq Roas /\ removed \subseteq Roas /\ toAlert \subseteq removed
  /\ unsure \subseteq Roas
  /\ poller \in {"idle", "fetched", "alerting"}
  /\ roaHistory \in [Roas -> {"none", "added", "removed"}]
  /\ roaAlerts \in [Roas -> Int] /\ removals \in [Roas -> Int]

\* The deltas are those of the cycle under way.
CycleDeltas ==
  /\ poller # "alerting" => added = {} /\ removed = {}
  /\ added \subseteq known_roas /\ removed \cap known_roas = {}

\* Every removal was reported or is about to be.
RemovalsReported ==
  \A e \in Roas : roaAlerts[e] = removals[e] - (IF e \in toAlert THEN 1 ELSE 0)

\* The history is what the poller knows, up to the deltas of the cycle.
HistoryLags ==
  \A e \in Roas \ (unsure \cup added \cup removed) :
    e \in known_roas <=> roaHistory[e] = "added"

RoaInd == RoaTypes /\ CycleDeltas /\ RemovalsReported /\ HistoryLags

LEMMA RoaStart == RoaInit => RoaInd
  BY SMT DEF RoaInit, RoaInd, RoaTypes, CycleDeltas, RemovalsReported, HistoryLags

LEMMA RoaStep == RoaInd /\ [RoaNext]_roaVars => RoaInd'
<1> SUFFICES ASSUME RoaInd, [RoaNext]_roaVars PROVE RoaInd'
  OBVIOUS
<1> USE DEF RoaInd, RoaTypes, CycleDeltas
<1>1. CASE Publish
  BY <1>1, SMT DEF Publish, RemovalsReported, HistoryLags
<1>2. CASE FetchRoas
  BY <1>2, SMT DEF FetchRoas, RemovalsReported, HistoryLags
<1>3. CASE ComputeDeltas
  <2>1. (RoaTypes /\ CycleDeltas)'
    BY <1>3, SMT DEF ComputeDeltas, KnownAfter
  <2>2. RemovalsReported'
    BY <1>3, SMT DEF ComputeDeltas, RemovalsReported
  <2>3. HistoryLags'
    BY <1>3, SMT DEF ComputeDeltas, HistoryLags, KnownAfter
  <2> QED
    BY <2>1, <2>2, <2>3
<1>4. ASSUME NEW e \in Roas, SendRemoved(e) PROVE RoaInd'
  BY <1>4, SMT DEF SendRemoved, RemovalsReported, HistoryLags
<1>5. CASE WriteDeltas
  <2>1. (RoaTypes /\ CycleDeltas)'
    BY <1>5, SMT DEF WriteDeltas, WithDeltas
  <2>2. RemovalsReported'
    BY <1>5, SMT DEF WriteDeltas, RemovalsReported
  <2>3. HistoryLags'
    BY <1>5, SMT DEF WriteDeltas, WithDeltas, HistoryLags
  <2> QED
    BY <2>1, <2>2, <2>3
<1>6. CASE RestartPoller
  BY <1>6, SMT DEF RestartPoller, RemovalsReported, HistoryLags
<1>7. CASE UNCHANGED roaVars
  BY <1>7, SMT DEF roaVars, RemovalsReported, HistoryLags
<1> QED
  BY <1>1, <1>2, <1>3, <1>4, <1>5, <1>6, <1>7 DEF RoaNext

(* Every removal of a ROA that a poll finds is reported exactly once, and   *)
(* the history in ClickHouse tells what the poller knows of every ROA whose *)
(* last change was written, through failed writes and restarts.             *)
THEOREM RoaHistoryKept == RoaSpec => []RoaChangesAccounted
<1>1. RoaInd => RoaChangesAccounted
  BY SMT DEF RoaInd, RoaTypes, CycleDeltas, RemovalsReported, HistoryLags, RoaChangesAccounted
<1> QED
  BY <1>1, RoaStart, RoaStep, PTL DEF RoaSpec

-----------------------------------------------------------------------------
(* Detection.  What a check() has just taught the baseline is not unusual   *)
(* to it; the reports of a new origin, and the calls of check() that hold   *)
(* one, are counted along with what is known.                               *)

Averages == [count: Nat, mean: Int, var: Nat, den: Nat \ {0}]

\* The average moves by a tenth of the deviation, which nine tenths remain of,
\* and the variance gains nine hundredths of its square.
LEMMA LearntIsNotUnusual ==
  ASSUME NEW b \in Averages, NEW len \in Nat
  PROVE  /\ Updated(b, len) \in Averages /\ Updated(b, len).count = b.count + 1
         /\ ~PathAnomalous(Updated(b, len), len)
<1> DEFINE u == Updated(b, len)
           D == b.den * len - b.mean
<1>0. b.count \in Nat /\ b.mean \in Int /\ b.var \in Nat /\ b.den \in Nat \ {0}
  BY DEF Averages
<1>1. CASE b.count = 0
  <2>1. u = [count |-> 1, mean |-> len, var |-> 0, den |-> 1]
    BY <1>1 DEF Updated
  <2>2. Deviation(u, len) = 0
    BY <2>1, SMT DEF Deviation
  <2>3. ~(0 * 0 - 9 * 0 > (9 * (1 * 1)) \div 1000000)
    BY SMT
  <2> QED
    BY <1>1, <2>1, <2>2, <2>3 DEF PathAnomalous, Averages
<1>2. CASE b.count # 0
  <2>1. u = [count |-> b.count + 1, mean |-> 9 * b.mean + b.den * len,
             var |-> 90 * b.var + 9 * (D * D), den |-> 10 * b.den]
    BY <1>2 DEF Updated, Deviation
  <2> DEFINE q == D * D
             e == (10 * b.den) * (10 * b.den)
             m == b.den * len
  <2>2. D \in Int /\ q \in Nat /\ e \in Nat /\ m \in Int /\ D = m - b.mean
    BY <1>0, SMT
  <2>3. Deviation(u, len) = 9 * D
    <3>1. (10 * b.den) * len = 10 * m
      BY <1>0, SMT
    <3>2. Deviation(u, len) = (10 * b.den) * len - (9 * b.mean + m)
      BY <2>1 DEF Deviation
    <3> HIDE DEF D, m
    <3> QED
      BY <1>0, <2>2, <3>1, <3>2, SMT
  <2>4. (9 * D) * (9 * D) = 81 * q
    BY <2>2, SMT
  <2>5. u \in Averages /\ u.count = b.count + 1
    <3> HIDE DEF D, q, e
    <3>1. 90 * b.var + 9 * q \in Nat /\ 9 * b.mean + b.den * len \in Int /\ 10 * b.den \in Nat \ {0}
      BY <1>0, <2>2, SMT
    <3> QED
      BY <1>0, <2>1, <3>1 DEF Averages, q
  <2>6. PathAnomalous(u, len) => 81 * q - 9 * (90 * b.var + 9 * q) > (9 * e) \div 1000000
    BY <2>1, <2>3, <2>4 DEF PathAnomalous
  <2> HIDE DEF q, e, u
  <2>7. ~(81 * q - 9 * (90 * b.var + 9 * q) > (9 * e) \div 1000000)
    BY <1>0, <2>2, SMT
  <2> QED
    BY <2>5, <2>6, <2>7 DEF u
<1> QED
  BY <1>0, <1>1, <1>2

BgpRecords == [n: Nat, type: {"announce", "withdraw"}, prefix: Prefixes, asn: Asns]

\* An announcement's origin is in K.
KnownTo(rec, K) == rec.type = "announce" => rec.asn \in K[rec.prefix]

CheckType == [pc: {"hijack", "flapping", "judge", "send", "pass"}, rec: BgpRecords, at: Nat,
              len: Nat, count: Nat, found: {"none", "hijack", "flapping"}, path: BOOLEAN,
              later: Int]

\* A call of check(): what it has learnt is known, and only if the baseline B has
\* been updated since may it find the path unusual.
CheckOK(c, K, B) ==
  /\ c \in CheckType
  /\ c.pc # "hijack" => KnownTo(c.rec, K)
  /\ c.pc \in {"hijack", "flapping", "pass"} => c.found = "none"
  /\ c.path => c.later > 0
  /\ B[c.rec.prefix].count >= c.count
  /\ B[c.rec.prefix].count = c.count => ~PathAnomalous(B[c.rec.prefix], c.len)

\* At time t the registry contradicts an announcement.
Contradicts(p, a, t) == t \in 0..MaxNow /\ IrrAnswer([prefix |-> p, asn |-> a], t) = "Inconsistent"

\* It was so between two times, or less than IrrTtl before the first.
JustifiedBy(p, a, from, to) == \E t \in 0..to : t > from - IrrTtl /\ Contradicts(p, a, t)

\* A task is idle, or waits with an announcement and a justified answer.
TaskOK(task, n) ==
  task = NoTask \/ /\ task.rec \in BgpRecords /\ task.rec.type = "announce"
                   /\ task.asked \in 0..n
                   /\ task.cached = "Inconsistent" =>
                        JustifiedBy(task.rec.prefix, task.rec.asn, task.asked, task.asked)

IrrEntries == [status: {"none"} \cup IrrStatuses, at: Nat]

\* What the cache has was the registry's answer.
CacheOK(cache, n) ==
  /\ cache \in [Prefixes \X Asns -> IrrEntries]
  /\ \A p \in Prefixes, a \in Asns :
       cache[<<p, a>>].at \in 0..n /\
       (cache[<<p, a>>].status = "Inconsistent" => Contradicts(p, a, cache[<<p, a>>].at))

\* Each report is one its reporter may make.
ReportOK(r) ==
  /\ r.path => r.later > 0
  /\ r.confidence >= 97 => r.by = "runner" \/ r.path
  /\ r.by = "runner" => r.sent
  /\ r.by = "enrichment" => ~r.new
  /\ r.irr => JustifiedBy(r.prefix, r.asn, r.asked, r.told)

NewIn(R, p, a) == {r \in R : r.new /\ r.prefix = p /\ r.asn = a}
HeldIn(C, p, a) == {c \in C : c.found = "hijack" /\ c.rec.prefix = p /\ c.rec.asn = a}

\* An origin that was learnt is reported once, or about to be.
CountedAs(K, N, H, p, a) ==
  IF a \in K[p] \ Learnt[p]
  THEN ((\E r : N = {r}) /\ H = {}) \/ (N = {} /\ \E c : H = {c})
  ELSE N = {} /\ H = {}
Counted(K, R, C) ==
  \A p \in Prefixes, a \in Asns : CountedAs(K, NewIn(R, p, a), HeldIn(C, p, a), p, a)

Growing(K) == K \in [Prefixes -> SUBSET Asns] /\ \A p \in Prefixes : Learnt[p] \subseteq K[p]

\* What the enrichment gets was learnt before.
EnrichmentOK ==
  /\ channel \in Seq(BgpRecords)
  /\ \A k \in DOMAIN channel : KnownTo(channel[k], known)
  /\ TaskOK(enriching, now)
  /\ enriching # NoTask => KnownTo(enriching.rec, known)

DetInd ==
  /\ now \in 0..MaxNow /\ handled \in Nat
  /\ Growing(known)
  /\ baseline \in [Prefixes -> Averages]
  /\ \A c \in checks : CheckOK(c, known, baseline)
  /\ CacheOK(irr, now)
  /\ EnrichmentOK
  /\ TaskOK(running, now)
  /\ Counted(known, reports, checks)
  /\ \A r \in reports : ReportOK(r)

\* Learning keeps what was known.
LEMMA LearnKeeps ==
  ASSUME DetInd, NEW rec \in BgpRecords
  PROVE  /\ Growing(Learn(rec)) /\ KnownTo(rec, Learn(rec))
         /\ \A p \in Prefixes : known[p] \subseteq Learn(rec)[p]
         /\ ~NewOrigin(rec) => Learn(rec) = known
<1>1. rec.prefix \in Prefixes /\ rec.asn \in Asns /\ rec.type \in {"announce", "withdraw"}
  BY DEF BgpRecords
<1>2. known \in [Prefixes -> SUBSET Asns] /\ \A p \in Prefixes : Learnt[p] \subseteq known[p]
  BY DEF DetInd, Growing
<1>3. CASE NewOrigin(rec)
  <2>1. Learn(rec) = [known EXCEPT ![rec.prefix] = @ \cup {rec.asn}]
    BY <1>3 DEF Learn
  <2> QED
    BY <1>1, <1>2, <1>3, <2>1 DEF Growing, KnownTo
<1>4. CASE ~NewOrigin(rec)
  <2>1. Learn(rec) = known
    BY <1>4 DEF Learn
  <2> QED
    BY <1>1, <1>2, <1>4, <2>1 DEF Growing, KnownTo, NewOrigin
<1> QED
  BY <1>3, <1>4

\* To know more disturbs neither a check() nor the enrichment.
LEMMA MoreKnown ==
  ASSUME DetInd, NEW K, \A p \in Prefixes : known[p] \subseteq K[p]
  PROVE  /\ \A c \in checks : CheckOK(c, K, baseline)
         /\ \A k \in DOMAIN channel : KnownTo(channel[k], K)
         /\ enriching # NoTask => KnownTo(enriching.rec, K)
<1>1. \A rec \in BgpRecords : KnownTo(rec, known) => KnownTo(rec, K)
  BY DEF KnownTo, BgpRecords
<1>2. ASSUME NEW c \in checks PROVE CheckOK(c, K, baseline)
  <2>1. CheckOK(c, known, baseline)
    BY DEF DetInd
  <2>2. c.rec \in BgpRecords
    BY <2>1 DEF CheckOK, CheckType
  <2> QED
    BY <1>1, <2>1, <2>2 DEF CheckOK
<1>3. ASSUME NEW k \in DOMAIN channel PROVE KnownTo(channel[k], K)
  <2>1. channel[k] \in BgpRecords /\ KnownTo(channel[k], known)
    BY DEF DetInd, EnrichmentOK
  <2> QED
    BY <1>1, <2>1
<1>4. enriching # NoTask => KnownTo(enriching.rec, K)
  BY <1>1 DEF DetInd, EnrichmentOK, TaskOK
<1> QED
  BY <1>2, <1>3, <1>4

\* The reports X of one record: of a new origin one, and no other.
LEMMA CountReports ==
  ASSUME DetInd, NEW rec \in BgpRecords, NEW X,
         NewOrigin(rec) => \E x \in X : /\ x.new /\ x.prefix = rec.prefix /\ x.asn = rec.asn
                                        /\ \A y \in X : y.new => y = x,
         ~NewOrigin(rec) => \A y \in X : ~y.new
  PROVE  Counted(Learn(rec), reports \cup X, checks)
<1> SUFFICES ASSUME NEW p \in Prefixes, NEW a \in Asns
             PROVE  CountedAs(Learn(rec), NewIn(reports \cup X, p, a), HeldIn(checks, p, a), p, a)
  BY DEF Counted
<1> DEFINE H == HeldIn(checks, p, a)
<1>0. CountedAs(known, NewIn(reports, p, a), H, p, a)
  BY DEF DetInd, Counted
<1>1. NewIn(reports \cup X, p, a) = NewIn(reports, p, a) \cup NewIn(X, p, a)
  BY DEF NewIn
<1> HIDE DEF H
<1>3. CASE NewOrigin(rec) /\ p = rec.prefix /\ a = rec.asn
  <2>1. NewIn(reports, p, a) = {} /\ H = {} /\ a \in Learn(rec)[p] \ Learnt[p]
    BY <1>0, <1>3 DEF NewOrigin, Learn, CountedAs, DetInd, Growing
  <2>2. \E x : NewIn(X, p, a) = {x}
    BY <1>3 DEF NewIn
  <2>3. NewIn(reports \cup X, p, a) = NewIn(X, p, a)
    BY <1>1, <2>1
  <2> QED
    BY <2>1, <2>2, <2>3 DEF CountedAs, H
<1>4. CASE ~(NewOrigin(rec) /\ p = rec.prefix /\ a = rec.asn)
  <2>1. NewIn(X, p, a) = {}
    BY <1>4 DEF NewIn
  <2>2. a \in Learn(rec)[p] <=> a \in known[p]
    BY <1>4 DEF Learn, DetInd, Growing, BgpRecords
  <2>3. NewIn(reports \cup X, p, a) = NewIn(reports, p, a)
    BY <1>1, <2>1
  <2> QED
    BY <1>0, <2>2, <2>3 DEF CountedAs, H
<1> QED
  BY <1>3, <1>4

LEMMA DetStart == DetInit => DetInd
<1> SUFFICES ASSUME DetInit PROVE DetInd
  OBVIOUS
<1>1. now = 0 /\ now \in 0..MaxNow /\ handled \in Nat
  BY CountsAssumption, SMT DEF DetInit
<1>2. Growing(known)
  BY LearntAssumption DEF DetInit, Growing
<1>3. baseline \in [Prefixes -> Averages] /\ checks = {} /\ reports = {}
  BY SMT DEF DetInit, Averages, NoPaths
<1>4. CacheOK(irr, now)
  <2>1. irr \in [Prefixes \X Asns -> IrrEntries]
    BY DEF DetInit, IrrEntries, NoAnswer
  <2>2. \A p \in Prefixes, a \in Asns : irr[<<p, a>>].at = 0 /\ irr[<<p, a>>].status = "none"
    BY DEF DetInit, NoAnswer
  <2> QED
    BY <1>1, <2>1, <2>2, SMT DEF CacheOK
<1>5. EnrichmentOK /\ TaskOK(running, now)
  BY DEF DetInit, EnrichmentOK, TaskOK
<1>6. Counted(known, reports, checks)
  BY <1>3 DEF DetInit, Counted, CountedAs, NewIn, HeldIn
<1> QED
  BY <1>1, <1>2, <1>3, <1>4, <1>5, <1>6 DEF DetInd

-----------------------------------------------------------------------------
(* The steps of check(). *)

\* A call that goes on changes only itself.
LEMMA ChecksGoOn ==
  ASSUME DetInd, NEW c, NEW d, GoesOn(c, d), NEW K, \A p \in Prefixes : known[p] \subseteq K[p],
         CheckOK(d, K, baseline)
  PROVE  \A e \in checks' : CheckOK(e, K, baseline)
  BY MoreKnown DEF GoesOn

\* Who holds what after c has gone on as d.
LEMMA HeldAfter ==
  ASSUME NEW c, NEW d, GoesOn(c, d), NEW p, NEW a
  PROVE  HeldIn(checks', p, a) = (HeldIn(checks, p, a) \ {c}) \cup HeldIn({d}, p, a)
  BY DEF GoesOn, HeldIn

\* Nobody learns or reports anything: who holds what stays the same.
LEMMA CountStays ==
  ASSUME DetInd, UNCHANGED <<known, reports>>,
         \A p \in Prefixes, a \in Asns : HeldIn(checks', p, a) = HeldIn(checks, p, a)
  PROVE  Counted(known', reports', checks')
  BY DEF DetInd, Counted

LEMMA CheckUpdateStep ==
  ASSUME DetInd, NEW rec \in BgpRecord(handled), NEW at \in 0..now, NEW len \in Lengths,
         CheckUpdate(rec, at, len)
  PROVE  DetInd'
<1> DEFINE q == rec.prefix
           b == baseline[q]
           u == Updated(b, len)
           c == Check(rec, at, len, u.count)
<1>1. /\ handled' = handled + 1
      /\ baseline' = [baseline EXCEPT ![q] = u] /\ checks' = checks \cup {c}
      /\ UNCHANGED <<known, irr, channel, enriching, running, now, reports>>
  BY DEF CheckUpdate, Arrives
<1>2. rec \in BgpRecords /\ q \in Prefixes /\ len \in Nat /\ at \in Nat
  BY LengthsAssumption, SMT DEF DetInd, BgpRecord, BgpRecords
<1>3. b \in Averages
  BY <1>2 DEF DetInd
<1>4. u \in Averages /\ u.count = b.count + 1 /\ ~PathAnomalous(u, len)
  BY <1>2, <1>3, LearntIsNotUnusual
<1>5. u.count \in Nat /\ b.count \in Nat /\ b.count < u.count
  BY <1>3, <1>4, SMT DEF Averages
<1> HIDE DEF b, u
<1>6. baseline' \in [Prefixes -> Averages]
  BY <1>1, <1>4 DEF DetInd
<1>7. baseline \in [Prefixes -> Averages] /\ \A p \in Prefixes : baseline'[p] = IF p = q THEN u ELSE baseline[p]
  BY <1>1, <1>2 DEF DetInd
<1>8. /\ c.pc = "hijack" /\ c.rec = rec /\ c.len = len /\ c.count = u.count /\ c.found = "none"
      /\ c.path = FALSE /\ c \in CheckType
  BY <1>2, <1>5, SMT DEF Check, CheckType
<1> HIDE DEF c, q
<1>9. CheckOK(c, known', baseline')
  <2>1. baseline'[rec.prefix] = u
    BY <1>2, <1>7 DEF q
  <2>2. u.count >= u.count
    BY <1>5, SMT
  <2> QED
    BY <1>4, <1>8, <2>1, <2>2 DEF CheckOK
<1>10. ASSUME NEW d \in checks PROVE CheckOK(d, known', baseline')
  <2>1. CheckOK(d, known, baseline)
    BY DEF DetInd
  <2>2. d.count \in Nat /\ d.rec.prefix \in Prefixes
    BY <2>1 DEF CheckOK, CheckType, BgpRecords
  <2>3. CASE d.rec.prefix = q
    <3>1. baseline'[d.rec.prefix].count = u.count /\ b.count >= d.count
      BY <1>7, <2>1, <2>2, <2>3 DEF CheckOK, b
    <3>2. u.count >= d.count /\ u.count # d.count
      BY <1>5, <2>2, <3>1, SMT
    <3> QED
      BY <1>1, <2>1, <3>1, <3>2 DEF CheckOK
  <2>4. CASE d.rec.prefix # q
    <3>1. baseline'[d.rec.prefix] = baseline[d.rec.prefix]
      BY <1>7, <2>2, <2>4
    <3> QED
      BY <1>1, <2>1, <3>1 DEF CheckOK
  <2> QED
    BY <2>3, <2>4
<1>11. \A d \in checks' : CheckOK(d, known', baseline')
  BY <1>1, <1>9, <1>10
<1>12. Counted(known', reports', checks')
  <2>1. \A p \in Prefixes, a \in Asns : HeldIn(checks', p, a) = HeldIn(checks, p, a)
    BY <1>1, <1>8 DEF HeldIn
  <2> QED
    BY <1>1, <2>1, CountStays
<1>13. handled' \in Nat
  BY <1>1, SMT DEF DetInd
<1> QED
  BY <1>1, <1>6, <1>11, <1>12, <1>13 DEF DetInd, EnrichmentOK, TaskOK, KnownTo

LEMMA CheckHijackStep ==
  ASSUME DetInd, NEW c \in checks, CheckHijack(c)
  PROVE  DetInd'
<1> DEFINE rec == c.rec
           d == IF NewOrigin(rec) THEN [c EXCEPT !.pc = "judge", !.found = "hijack"]
                ELSE [c EXCEPT !.pc = "flapping"]
<1>1. /\ c.pc = "hijack" /\ known' = Learn(rec) /\ GoesOn(c, d)
      /\ UNCHANGED <<baseline, irr, channel, enriching, running, now, handled, reports>>
  BY DEF CheckHijack
<1>2. CheckOK(c, known, baseline) /\ c \in CheckType /\ rec \in BgpRecords
  BY DEF DetInd, CheckOK, CheckType
<1>3. rec.prefix \in Prefixes /\ rec.asn \in Asns /\ c.found = "none"
  BY <1>1, <1>2 DEF BgpRecords, CheckOK
<1>4. /\ Growing(known') /\ KnownTo(rec, known') /\ \A p \in Prefixes : known[p] \subseteq known'[p]
      /\ ~NewOrigin(rec) => known' = known
  BY <1>1, <1>2, LearnKeeps
<1>5. /\ d \in CheckType /\ d.rec = rec /\ d.path = c.path /\ d.later = c.later
      /\ d.count = c.count /\ d.len = c.len
      /\ d.pc = IF NewOrigin(rec) THEN "judge" ELSE "flapping"
      /\ d.found = IF NewOrigin(rec) THEN "hijack" ELSE "none"
  BY <1>2, <1>3 DEF CheckType
<1> HIDE DEF d
<1>6. CheckOK(d, known', baseline)
  BY <1>2, <1>4, <1>5 DEF CheckOK
<1>7. \A e \in checks' : CheckOK(e, known', baseline)
  BY <1>1, <1>4, <1>6, ChecksGoOn
<1>8. Counted(known', reports, checks')
  <2> SUFFICES ASSUME NEW p \in Prefixes, NEW a \in Asns
               PROVE  CountedAs(known', NewIn(reports, p, a), HeldIn(checks', p, a), p, a)
    BY DEF Counted
  <2>1. CountedAs(known, NewIn(reports, p, a), HeldIn(checks, p, a), p, a)
    BY DEF DetInd, Counted
  <2>2. HeldIn(checks', p, a) = HeldIn(checks, p, a) \cup HeldIn({d}, p, a)
    <3>1. c \notin HeldIn(checks, p, a)
      BY <1>3 DEF HeldIn
    <3> QED
      BY <1>1, <3>1, HeldAfter
  <2>3. CASE NewOrigin(rec) /\ p = rec.prefix /\ a = rec.asn
    <3>1. /\ NewIn(reports, p, a) = {} /\ HeldIn(checks, p, a) = {}
          /\ a \in known'[p] \ Learnt[p]
      BY <1>1, <2>1, <2>3 DEF NewOrigin, Learn, CountedAs, DetInd, Growing
    <3>2. HeldIn({d}, p, a) = {d}
      BY <1>5, <2>3 DEF HeldIn
    <3> QED
      BY <2>2, <3>1, <3>2 DEF CountedAs
  <2>4. CASE ~(NewOrigin(rec) /\ p = rec.prefix /\ a = rec.asn)
    <3>1. a \in known'[p] <=> a \in known[p]
      BY <1>1, <1>3, <2>4 DEF Learn, DetInd, Growing
    <3>2. HeldIn({d}, p, a) = {}
      BY <1>5, <2>4 DEF HeldIn
    <3> QED
      BY <2>1, <2>2, <3>1, <3>2 DEF CountedAs
  <2> QED
    BY <2>3, <2>4
<1>9. EnrichmentOK'
  BY <1>1, <1>4, MoreKnown DEF DetInd, EnrichmentOK
<1> QED
  BY <1>1, <1>4, <1>7, <1>8, <1>9 DEF DetInd

LEMMA CheckFlapsStep ==
  ASSUME DetInd, NEW c \in checks, CheckFlaps(c) \/ CheckJudge(c)
  PROVE  DetInd'
<1> DEFINE b == baseline[c.rec.prefix]
<1>1. UNCHANGED <<known, baseline, irr, channel, enriching, running, now, handled, reports>>
  BY DEF CheckFlaps, CheckJudge
<1>2. /\ CheckOK(c, known, baseline) /\ c \in CheckType /\ c.rec \in BgpRecords
      /\ c.rec.prefix \in Prefixes /\ c.count \in Nat
  BY DEF DetInd, CheckOK, CheckType, BgpRecords
<1>3. PICK d : /\ GoesOn(c, d) /\ CheckOK(d, known, baseline) /\ d.rec = c.rec
               /\ (d.found = "hijack") <=> (c.found = "hijack")
  <2>1. CASE CheckFlaps(c)
    <3> DEFINE d == IF Flapping(flaps'["http"][c.rec.prefix])
                    THEN [c EXCEPT !.pc = "judge", !.found = "flapping"]
                    ELSE [c EXCEPT !.pc = "pass"]
    <3>1. c.pc = "flapping" /\ GoesOn(c, d) /\ c.found = "none"
      BY <1>2, <2>1 DEF CheckFlaps, CheckOK
    <3>2. /\ d \in CheckType /\ d.rec = c.rec /\ d.path = c.path /\ d.later = c.later
          /\ d.count = c.count /\ d.len = c.len
          /\ (d.pc = "judge" /\ d.found = "flapping") \/ (d.pc = "pass" /\ d.found = "none")
      BY <1>2, <3>1 DEF CheckType
    <3> HIDE DEF d
    <3>3. CheckOK(d, known, baseline)
      BY <1>2, <3>1, <3>2 DEF CheckOK
    <3> QED
      BY <3>1, <3>2, <3>3
  <2>2. CASE CheckJudge(c)
    <3> DEFINE path == PathAnomalous(b, c.len)
               later == b.count - c.count
               d == [c EXCEPT !.pc = "send", !.path = path, !.later = later]
    <3>1. c.pc = "judge" /\ GoesOn(c, d)
      BY <2>2 DEF CheckJudge
    <3>2. b \in Averages /\ b.count \in Nat
      BY <1>2 DEF DetInd, Averages
    <3>3. path \in BOOLEAN /\ later \in Int
      BY <1>2, <3>2, SMT DEF PathAnomalous
    <3>4. path => later > 0
      <4>1. b.count >= c.count /\ (b.count = c.count => ~path)
        BY <1>2 DEF CheckOK
      <4> HIDE DEF path
      <4> QED
        BY <1>2, <3>2, <4>1, SMT
    <3> HIDE DEF path, later
    <3>5. /\ d \in CheckType /\ d.rec = c.rec /\ d.path = path /\ d.later = later
          /\ d.count = c.count /\ d.len = c.len /\ d.pc = "send" /\ d.found = c.found
      BY <1>2, <3>3 DEF CheckType
    <3> HIDE DEF d
    <3>6. CheckOK(d, known, baseline)
      BY <1>2, <3>1, <3>4, <3>5 DEF CheckOK
    <3> QED
      BY <3>1, <3>5, <3>6
  <2> QED
    BY <2>1, <2>2
<1>4. \A e \in checks' : CheckOK(e, known, baseline)
  BY <1>3, ChecksGoOn
<1>5. Counted(known', reports', checks')
  <2> SUFFICES ASSUME NEW p \in Prefixes, NEW a \in Asns
               PROVE  CountedAs(known, NewIn(reports, p, a), HeldIn(checks', p, a), p, a)
    BY <1>1 DEF Counted
  <2>1. CountedAs(known, NewIn(reports, p, a), HeldIn(checks, p, a), p, a)
    BY DEF DetInd, Counted
  <2>2. HeldIn(checks', p, a) = (HeldIn(checks, p, a) \ {c}) \cup HeldIn({d}, p, a)
    BY <1>3, HeldAfter
  <2>3. CASE c \in HeldIn(checks, p, a)
    <3>1. HeldIn({d}, p, a) = {d}
      BY <1>3, <2>3 DEF HeldIn
    <3>2. HeldIn(checks, p, a) = {c}
      BY <2>1, <2>3 DEF CountedAs
    <3> QED
      BY <2>1, <2>2, <3>1, <3>2 DEF CountedAs
  <2>4. CASE c \notin HeldIn(checks, p, a)
    <3>1. HeldIn({d}, p, a) = {}
      BY <1>3, <2>4 DEF HeldIn
    <3> QED
      BY <2>1, <2>2, <2>4, <3>1
  <2> QED
    BY <2>3, <2>4
<1> QED
  BY <1>1, <1>4, <1>5 DEF DetInd, EnrichmentOK, TaskOK, KnownTo

\* What SendAlert adds to the reports.
LEMMA Sent ==
  ASSUME NEW r, SendAlert(r)
  PROVE  \E fits \in BOOLEAN : reports' = reports \cup {[r EXCEPT !.sent = fits]}
<1>1. (alerts < AlertCapacity) \in BOOLEAN
  OBVIOUS
<1> QED
  BY <1>1 DEF SendAlert

\* Without the length of its path, no anomaly is as sure as one that RPKI confirms.
LEMMA BoostedByPath ==
  ASSUME NEW base \in {75, 85}, NEW rec, NEW path \in BOOLEAN, Enhanced(base, rec, path) >= 97
  PROVE  path
  BY SMT DEF Enhanced, Boost

LEMMA CheckSendStep ==
  ASSUME DetInd, NEW c \in checks, CheckSend(c)
  PROVE  DetInd'
<1> DEFINE hijack == c.found = "hijack"
           conf == Enhanced(IF hijack THEN 85 ELSE 75, c.rec, c.path)
           q == Report(IF hijack THEN "http" ELSE "flapping", c.rec, hijack, conf)
           r == [q EXCEPT !.path = c.path, !.later = c.later]
           d == [c EXCEPT !.pc = IF hijack THEN "flapping" ELSE "pass", !.found = "none"]
<1>1. /\ c.pc = "send" /\ SendAlert(r) /\ GoesOn(c, d)
      /\ UNCHANGED <<known, baseline, irr, channel, enriching, running, now, handled>>
  BY DEF CheckSend
<1>2. /\ CheckOK(c, known, baseline) /\ c \in CheckType /\ c.rec \in BgpRecords
      /\ c.path \in BOOLEAN
  BY DEF DetInd, CheckOK, CheckType
<1> HIDE DEF r
<1>3. PICK fits \in BOOLEAN : reports' = reports \cup {[r EXCEPT !.sent = fits]}
  BY <1>1, Sent
<1> DEFINE x == [r EXCEPT !.sent = fits]
<1>4. /\ x.new = hijack /\ x.prefix = c.rec.prefix /\ x.asn = c.rec.asn /\ x.path = c.path
      /\ x.later = c.later /\ x.irr = FALSE /\ x.confidence = conf /\ x.by \in {"http", "flapping"}
  BY DEF r, Report
<1>5. conf >= 97 => c.path
  BY <1>2, BoostedByPath
<1>6. /\ d \in CheckType /\ d.rec = c.rec /\ d.path = c.path /\ d.later = c.later
      /\ d.count = c.count /\ d.len = c.len /\ d.found = "none"
      /\ d.pc \in {"flapping", "pass"}
  BY <1>2 DEF CheckType
<1> HIDE DEF x, d, conf
<1>7. ReportOK(x)
  BY <1>2, <1>4, <1>5 DEF ReportOK, CheckOK
<1>8. CheckOK(d, known, baseline)
  BY <1>1, <1>2, <1>6 DEF CheckOK
<1>9. \A e \in checks' : CheckOK(e, known, baseline)
  BY <1>1, <1>8, ChecksGoOn
<1>10. reports' = reports \cup {x}
  BY <1>3 DEF x
<1>11. Counted(known, reports', checks')
  <2> SUFFICES ASSUME NEW p \in Prefixes, NEW a \in Asns
               PROVE  CountedAs(known, NewIn(reports', p, a), HeldIn(checks', p, a), p, a)
    BY DEF Counted
  <2>1. CountedAs(known, NewIn(reports, p, a), HeldIn(checks, p, a), p, a)
    BY DEF DetInd, Counted
  <2>2. HeldIn(checks', p, a) = HeldIn(checks, p, a) \ {c}
    <3>1. HeldIn({d}, p, a) = {}
      BY <1>6 DEF HeldIn
    <3> QED
      BY <1>1, <3>1, HeldAfter
  <2>3. NewIn(reports', p, a) = NewIn(reports, p, a) \cup NewIn({x}, p, a)
    BY <1>10 DEF NewIn
  <2>4. CASE c \in HeldIn(checks, p, a)
    <3>1. NewIn({x}, p, a) = {x}
      BY <1>4, <2>4 DEF HeldIn, NewIn
    <3>2. HeldIn(checks, p, a) = {c} /\ NewIn(reports, p, a) = {} /\ a \in known[p] \ Learnt[p]
      BY <2>1, <2>4 DEF CountedAs
    <3> QED
      BY <2>2, <2>3, <3>1, <3>2 DEF CountedAs
  <2>5. CASE c \notin HeldIn(checks, p, a)
    <3>1. NewIn({x}, p, a) = {}
      BY <1>4, <2>5 DEF HeldIn, NewIn
    <3>2. HeldIn(checks', p, a) = HeldIn(checks, p, a) /\ NewIn(reports', p, a) = NewIn(reports, p, a)
      BY <2>2, <2>3, <2>5, <3>1
    <3> QED
      BY <2>1, <3>2
  <2> QED
    BY <2>4, <2>5
<1> QED
  BY <1>1, <1>7, <1>9, <1>10, <1>11 DEF DetInd, EnrichmentOK, TaskOK, KnownTo

\* The record of a call that ends goes to the enrichment, or not.
LEMMA CheckEndsStep ==
  ASSUME DetInd, NEW c \in checks, CheckEnds(c)
  PROVE  DetInd'
<1>1. /\ c.pc = "pass" /\ checks' = checks \ {c}
      /\ channel' = channel \/ channel' = Append(channel, c.rec)
      /\ UNCHANGED <<known, baseline, irr, enriching, running, now, handled, reports>>
  BY DEF CheckEnds
<1>2. /\ c.found = "none" /\ c.rec \in BgpRecords /\ KnownTo(c.rec, known)
  BY <1>1 DEF DetInd, CheckOK, CheckType
<1>3. channel' \in Seq(BgpRecords) /\ \A k \in DOMAIN channel' : KnownTo(channel'[k], known)
  <2>0. channel \in Seq(BgpRecords) /\ \A k \in DOMAIN channel : KnownTo(channel[k], known)
    BY DEF DetInd, EnrichmentOK
  <2>1. CASE channel' = channel
    BY <2>0, <2>1
  <2>2. CASE channel' = Append(channel, c.rec)
    <3> DEFINE rec == c.rec
    <3>1. rec \in BgpRecords /\ KnownTo(rec, known) /\ channel' = Append(channel, rec)
      BY <1>2, <2>2
    <3> HIDE DEF rec
    <3>2. channel' \in Seq(BgpRecords) /\ DOMAIN channel' = 1..(Len(channel) + 1)
            /\ \A k \in DOMAIN channel' : channel'[k] = IF k \in DOMAIN channel THEN channel[k] ELSE rec
      BY <2>0, <3>1, SMT
    <3> QED
      BY <2>0, <3>1, <3>2
  <2> QED
    BY <1>1, <2>1, <2>2
<1>4. Counted(known', reports', checks')
  <2>1. \A p \in Prefixes, a \in Asns : HeldIn(checks', p, a) = HeldIn(checks, p, a)
    BY <1>1, <1>2 DEF HeldIn
  <2> QED
    BY <1>1, <2>1, CountStays
<1>5. EnrichmentOK'
  BY <1>1, <1>3 DEF DetInd, EnrichmentOK, TaskOK, KnownTo
<1> QED
  BY <1>1, <1>4, <1>5 DEF DetInd, TaskOK

-----------------------------------------------------------------------------
(* The steps of the enrichment and of the detector runner. *)

\* What is justified stays so as time goes on.
LEMMA TaskStays ==
  ASSUME NEW task, NEW n \in Nat, NEW m \in Nat, n <= m, TaskOK(task, n)
  PROVE  TaskOK(task, m)
  BY SMT DEF TaskOK

\* What a task has just looked up.
LEMMA WaitingOK ==
  ASSUME DetInd, NEW rec \in BgpRecords, rec.type = "announce", NEW status
  PROVE  TaskOK(Waiting(rec, status), now) /\ Waiting(rec, status).rec = rec
<1> DEFINE k == <<rec.prefix, rec.asn>>
           w == Waiting(rec, status)
<1>1. /\ w.rec = rec /\ w.asked = now
      /\ w.cached = IF now - irr[k].at < IrrTtl THEN irr[k].status ELSE "none"
  BY DEF Waiting, Cached
<1>2. rec.prefix \in Prefixes /\ rec.asn \in Asns /\ now \in Nat /\ IrrTtl \in Nat
  BY CountsAssumption, SMT DEF BgpRecords, DetInd
<1>3. irr[k].at \in 0..now
  BY <1>2 DEF DetInd, CacheOK
<1>4. w.cached = "Inconsistent" => JustifiedBy(rec.prefix, rec.asn, now, now)
  <2> SUFFICES ASSUME w.cached = "Inconsistent" PROVE JustifiedBy(rec.prefix, rec.asn, now, now)
    OBVIOUS
  <2>1. now - irr[k].at < IrrTtl /\ irr[k].status = "Inconsistent"
    BY <1>1
  <2>2. Contradicts(rec.prefix, rec.asn, irr[k].at)
    BY <1>2, <2>1 DEF DetInd, CacheOK
  <2>3. irr[k].at > now - IrrTtl
    BY <1>2, <1>3, <2>1, SMT
  <2> QED
    BY <1>3, <2>2, <2>3 DEF JustifiedBy
<1> QED
  BY <1>1, <1>2, <1>4, SMT DEF TaskOK

\* An answer that contradicts an announcement is justified, and so is the cache.
LEMMA IrrStep ==
  ASSUME DetInd, NEW task, TaskOK(task, now), task # NoTask, NEW s \in IrrStatuses,
         IrrCheck(task, s)
  PROVE  /\ s = "Inconsistent" => JustifiedBy(task.rec.prefix, task.rec.asn, task.asked, now)
         /\ CacheOK(irr', now)
<1> DEFINE p == task.rec.prefix
           a == task.rec.asn
           k == <<p, a>>
<1>0. /\ p \in Prefixes /\ a \in Asns /\ now \in Nat /\ now \in 0..MaxNow
      /\ task.asked \in 0..now /\ IrrTtl \in Nat /\ IrrTtl > 0
  BY CountsAssumption, TtlAssumption, SMT DEF TaskOK, BgpRecords, DetInd
<1>1. CASE task.cached # "none"
  <2>1. s = task.cached /\ irr' = irr
    BY <1>1 DEF IrrCheck
  <2>2. s = "Inconsistent" => JustifiedBy(p, a, task.asked, task.asked)
    BY <2>1 DEF TaskOK
  <2>3. JustifiedBy(p, a, task.asked, task.asked) => JustifiedBy(p, a, task.asked, now)
    BY <1>0, SMT DEF JustifiedBy
  <2> QED
    BY <2>1, <2>2, <2>3 DEF DetInd
<1>2. CASE task.cached = "none"
  <2> DEFINE e == [status |-> s, at |-> now]
  <2>1. s \in {IrrAnswer(task.rec, now), "Unavailable"} /\ irr' = [irr EXCEPT ![k] = e]
    BY <1>2 DEF IrrCheck
  <2>2. s = "Inconsistent" => Contradicts(p, a, now)
    BY <1>0, <2>1 DEF IrrAnswer, Contradicts
  <2>3. s = "Inconsistent" => JustifiedBy(p, a, task.asked, now)
    <3>1. now > task.asked - IrrTtl /\ now \in 0..now
      BY <1>0, SMT
    <3> QED
      BY <2>2, <3>1 DEF JustifiedBy
  <2>4. e \in IrrEntries /\ e.status = s /\ e.at = now
    BY <1>0 DEF IrrEntries
  <2> HIDE DEF e
  <2>5. irr \in [Prefixes \X Asns -> IrrEntries]
    BY DEF DetInd, CacheOK
  <2>6. irr' \in [Prefixes \X Asns -> IrrEntries]
    BY <2>1, <2>4, <2>5
  <2>7. ASSUME NEW x \in Prefixes, NEW y \in Asns
        PROVE  /\ irr'[<<x, y>>].at \in 0..now
               /\ irr'[<<x, y>>].status = "Inconsistent" => Contradicts(x, y, irr'[<<x, y>>].at)
    <3>1. CASE x = p /\ y = a
      <4>1. irr'[<<x, y>>] = e
        BY <1>0, <2>1, <2>5, <3>1
      <4>2. now \in 0..now
        BY <1>0, SMT
      <4> QED
        BY <2>2, <2>4, <3>1, <4>1, <4>2
    <3>2. CASE ~(x = p /\ y = a)
      <4>1. irr'[<<x, y>>] = irr[<<x, y>>]
        BY <2>1, <2>5, <3>2
      <4> QED
        BY <4>1 DEF DetInd, CacheOK
    <3> QED
      BY <3>1, <3>2
  <2> QED
    BY <2>3, <2>6, <2>7 DEF CacheOK
<1> QED
  BY <1>1, <1>2

\* A new origin always has a confidence, one that is known never a high one.
LEMMA Confidences ==
  ASSUME NEW rec \in BgpRecords, rec.type = "announce", NEW status, NEW inc \in BOOLEAN
  PROVE  /\ RpkiConfidence(rec, status, inc) \in Nat
         /\ RpkiConfidence(rec, status, inc) = 0 => ~NewOrigin(rec)
         /\ ~NewOrigin(rec) => RpkiConfidence(rec, status, inc) < 97
<1> DEFINE n == NewOrigin(rec)
           i == status = "Invalid"
           v == status = "Valid"
<1>1. v => ~i
  OBVIOUS
<1>2. RpkiConfidence(rec, status, inc) =
        CASE ~n /\ i -> IF inc THEN 75 ELSE 60
          [] ~n /\ ~i -> 0
          [] n /\ v -> 30
          [] n /\ i -> IF inc THEN 99 ELSE 97
          [] OTHER -> IF inc THEN 90 ELSE 85
  BY DEF RpkiConfidence
<1> HIDE DEF n, i, v
<1> QED
  BY <1>1, <1>2, SMT DEF n

\* The report of a task whose answer has come.
LEMMA RpkiReportOK ==
  ASSUME DetInd, NEW by \in {"enrichment", "runner"}, NEW task, TaskOK(task, now),
         task # NoTask, NEW s,
         s = "Inconsistent" => JustifiedBy(task.rec.prefix, task.rec.asn, task.asked, now),
         by = "enrichment" => KnownTo(task.rec, known),
         NEW x, \/ x = RpkiReport(by, task, s)
                \/ /\ by = "enrichment"
                   /\ \E fits \in BOOLEAN : x = [RpkiReport(by, task, s) EXCEPT !.sent = fits]
  PROVE  /\ ReportOK(x) /\ x.new = NewOrigin(task.rec)
         /\ x.prefix = task.rec.prefix /\ x.asn = task.rec.asn
         /\ RpkiReport(by, task, s).confidence = 0 => ~NewOrigin(task.rec)
<1> DEFINE rec == task.rec
           inc == s = "Inconsistent"
           c == RpkiConfidence(rec, task.status, inc)
<1>1. rec \in BgpRecords /\ rec.type = "announce"
  BY DEF TaskOK
<1>2. c \in Nat /\ (c = 0 => ~NewOrigin(rec)) /\ (~NewOrigin(rec) => c < 97)
  BY <1>1, Confidences
<1>3. /\ x.new = NewOrigin(rec) /\ x.prefix = rec.prefix /\ x.asn = rec.asn /\ x.by = by
      /\ x.irr = inc /\ x.path = FALSE /\ x.confidence = c /\ (by = "runner" => x.sent)
      /\ inc => x.asked = task.asked /\ x.told = now
      /\ RpkiReport(by, task, s).confidence = c
  <2>1. CASE x = RpkiReport(by, task, s)
    BY <2>1 DEF RpkiReport, Report
  <2>2. CASE /\ by = "enrichment"
             /\ \E fits \in BOOLEAN : x = [RpkiReport(by, task, s) EXCEPT !.sent = fits]
    BY <2>2 DEF RpkiReport, Report
  <2> QED
    BY <2>1, <2>2
<1>4. NewOrigin(rec) \in BOOLEAN /\ (by = "enrichment" => ~NewOrigin(rec))
  BY <1>1 DEF NewOrigin, KnownTo
<1> HIDE DEF c
<1>5. x.confidence >= 97 => x.by = "runner"
  BY <1>2, <1>3, <1>4, SMT
<1>6. ReportOK(x)
  BY <1>3, <1>4, <1>5 DEF ReportOK
<1> QED
  BY <1>2, <1>3, <1>6

\* The enrichment takes a record: what it skips are withdrawals.
LEMMA EnrichTakeStep ==
  ASSUME DetInd, NEW status, EnrichTake(status)
  PROVE  DetInd'
<1> DEFINE rec == Head(channel)
<1>1. /\ channel # <<>> /\ channel' = Tail(channel)
      /\ enriching' = IF rec.type = "announce" THEN Waiting(rec, status) ELSE NoTask
      /\ UNCHANGED <<known, baseline, checks, irr, running, now, handled, reports>>
  BY DEF EnrichTake
<1>2. /\ channel \in Seq(BgpRecords) /\ rec \in BgpRecords /\ channel' \in Seq(BgpRecords)
      /\ rec = channel[1] /\ 1 \in DOMAIN channel
  BY <1>1 DEF DetInd, EnrichmentOK
<1>3. \A k \in DOMAIN channel' : k + 1 \in DOMAIN channel /\ channel'[k] = channel[k + 1]
  BY <1>1, <1>2
<1>4. KnownTo(rec, known)
  BY <1>2 DEF DetInd, EnrichmentOK
<1> HIDE DEF rec
<1>5. TaskOK(enriching', now) /\ (enriching' # NoTask => KnownTo(enriching'.rec, known))
  <2>1. CASE rec.type = "announce"
    BY <1>1, <1>2, <1>4, <2>1, WaitingOK
  <2>2. CASE rec.type # "announce"
    BY <1>1, <2>2 DEF TaskOK
  <2> QED
    BY <2>1, <2>2
<1>6. \A k \in DOMAIN channel' : KnownTo(channel'[k], known)
  BY <1>3 DEF DetInd, EnrichmentOK
<1>7. EnrichmentOK'
  BY <1>1, <1>2, <1>5, <1>6 DEF EnrichmentOK, TaskOK, KnownTo
<1> QED
  BY <1>1, <1>7 DEF DetInd, TaskOK

\* Known and reports have changed as by one record, and the calls of check() not.
LEMMA RecordStep ==
  ASSUME DetInd, NEW rec \in BgpRecords, UNCHANGED <<checks, baseline, channel, now>>,
         known' \in {known, Learn(rec)}, Counted(known', reports', checks),
         \A r \in reports' : ReportOK(r), handled' \in Nat,
         enriching' \in {enriching, NoTask}, TaskOK(running', now), CacheOK(irr', now)
  PROVE  DetInd'
<1>1. Growing(known') /\ \A p \in Prefixes : known[p] \subseteq known'[p]
  BY LearnKeeps DEF DetInd
<1>2. /\ \A c \in checks : CheckOK(c, known', baseline)
      /\ \A k \in DOMAIN channel : KnownTo(channel[k], known')
      /\ enriching # NoTask => KnownTo(enriching.rec, known')
  BY <1>1, MoreKnown
<1>3. EnrichmentOK'
  BY <1>2 DEF DetInd, EnrichmentOK, TaskOK
<1> QED
  BY <1>1, <1>2, <1>3 DEF DetInd

\* The answer of the IRR has come to the enrichment ...
LEMMA EnrichCheckStep ==
  ASSUME DetInd, NEW s \in IrrStatuses, EnrichCheck(s)
  PROVE  DetInd'
<1> DEFINE rec == enriching.rec
           r == RpkiReport("enrichment", enriching, s)
<1>1. /\ enriching # NoTask /\ IrrCheck(enriching, s) /\ known' = Learn(rec)
      /\ IF r.confidence = 0 THEN reports' = reports ELSE SendAlert(r)
      /\ enriching' = NoTask
      /\ UNCHANGED <<baseline, checks, channel, running, now, handled>>
  BY DEF EnrichCheck
<1>2. TaskOK(enriching, now) /\ KnownTo(rec, known) /\ rec \in BgpRecords
  BY <1>1 DEF DetInd, EnrichmentOK, TaskOK
<1>3. /\ s = "Inconsistent" => JustifiedBy(rec.prefix, rec.asn, enriching.asked, now)
      /\ CacheOK(irr', now)
  BY <1>1, <1>2, IrrStep
<1>4. ~NewOrigin(rec)
  BY <1>2 DEF NewOrigin, KnownTo, TaskOK, BgpRecords
<1> DEFINE X == reports' \ reports
<1>5. reports' = reports \cup X /\ \A x \in X : ReportOK(x) /\ ~x.new
  <2>1. CASE r.confidence = 0
    BY <1>1, <2>1
  <2>2. CASE r.confidence # 0
    <3>1. PICK fits \in BOOLEAN : reports' = reports \cup {[r EXCEPT !.sent = fits]}
      BY <1>1, <2>2, Sent
    <3> DEFINE x == [r EXCEPT !.sent = fits]
    <3>2. ReportOK(x) /\ x.new = NewOrigin(rec)
      BY <1>1, <1>2, <1>3, RpkiReportOK
    <3>3. reports' = reports \cup {x}
      BY <3>1
    <3> HIDE DEF x
    <3> QED
      BY <1>4, <3>2, <3>3
  <2> QED
    BY <2>1, <2>2
<1> HIDE DEF X
<1>6. \A q \in reports' : ReportOK(q)
  BY <1>5 DEF DetInd
<1>7. Counted(known', reports', checks)
  BY <1>1, <1>2, <1>4, <1>5, CountReports
<1>8. TaskOK(running', now) /\ handled' \in Nat
  BY <1>1 DEF DetInd, TaskOK
<1> QED
  BY <1>1, <1>2, <1>3, <1>6, <1>7, <1>8, RecordStep

\* ... or to the detector runner.
LEMMA RunnerCheckStep ==
  ASSUME DetInd, NEW s \in IrrStatuses, RunnerCheck(s)
  PROVE  DetInd'
<1> DEFINE rec == running.rec
           r == RpkiReport("runner", running, s)
           X == IF r.confidence = 0 THEN {} ELSE {r}
<1>1. /\ running # NoTask /\ IrrCheck(running, s) /\ known' = Learn(rec)
      /\ reports' = reports \cup X /\ running' = NoTask
      /\ UNCHANGED <<baseline, checks, channel, enriching, now, handled>>
  BY DEF RunnerCheck
<1>2. TaskOK(running, now) /\ rec \in BgpRecords
  BY <1>1 DEF DetInd, TaskOK
<1>3. /\ s = "Inconsistent" => JustifiedBy(rec.prefix, rec.asn, running.asked, now)
      /\ CacheOK(irr', now)
  BY <1>1, <1>2, IrrStep
<1>4. /\ ReportOK(r) /\ r.new = NewOrigin(rec) /\ r.prefix = rec.prefix /\ r.asn = rec.asn
      /\ r.confidence = 0 => ~NewOrigin(rec)
  BY <1>1, <1>2, <1>3, RpkiReportOK
<1> HIDE DEF r
<1>5. /\ NewOrigin(rec) => \E y \in X : /\ y.new /\ y.prefix = rec.prefix /\ y.asn = rec.asn
                                        /\ \A z \in X : z.new => z = y
      /\ ~NewOrigin(rec) => \A y \in X : ~y.new
  BY <1>4
<1>6. \A q \in reports' : ReportOK(q)
  BY <1>1, <1>4 DEF DetInd
<1> HIDE DEF X
<1>7. Counted(known', reports', checks)
  BY <1>1, <1>2, <1>5, CountReports
<1>8. TaskOK(running', now) /\ handled' \in Nat
  BY <1>1 DEF DetInd, TaskOK
<1> QED
  BY <1>1, <1>2, <1>3, <1>6, <1>7, <1>8, RecordStep

\* process_record() of the detector runner.
LEMMA RunnerStep ==
  ASSUME DetInd, NEW rec \in BgpRecord(handled), NEW at, NEW status, RunnerTake(rec, at, status)
  PROVE  DetInd'
<1> DEFINE flap == Report("flapping", rec, FALSE, 75)
           one == Report("runner", rec, TRUE, 85)
           F == {r \in {flap} : Flapping(flaps'["runner"][rec.prefix])}
           N == {r \in {one} : ~rpkiOn /\ NewOrigin(rec)}
<1>0. rec \in BgpRecords
  BY DEF DetInd, BgpRecord, BgpRecords
<1>1. /\ reports' = reports \cup (F \cup N) /\ handled' = handled + 1
      /\ UNCHANGED <<baseline, checks, irr, channel, enriching, now>>
      /\ known' = IF rpkiOn THEN known ELSE Learn(rec)
  BY DEF RunnerTake, Arrives
<1>2. /\ one.new /\ one.prefix = rec.prefix /\ one.asn = rec.asn /\ one.by = "runner"
      /\ ~one.irr /\ ~one.path /\ one.confidence = 85 /\ one.sent
      /\ ~flap.new /\ flap.by = "flapping" /\ ~flap.irr /\ ~flap.path /\ flap.confidence = 75
  BY DEF Report
<1>3. ReportOK(one) /\ ReportOK(flap)
  <2>1. ~(85 >= 97) /\ ~(75 >= 97)
    BY SMT
  <2> QED
    BY <1>2, <2>1 DEF ReportOK
<1> HIDE DEF one, flap
<1>4. \A r \in reports' : ReportOK(r)
  BY <1>1, <1>3 DEF DetInd
<1>5. Counted(known', reports', checks)
  <2>1. CASE rpkiOn
    <3>1. known' = known /\ reports' = reports \cup F
      BY <1>1, <2>1
    <3>2. \A r \in F : ~r.new
      BY <1>2
    <3> HIDE DEF F
    <3>3. \A p \in Prefixes, a \in Asns : NewIn(reports', p, a) = NewIn(reports, p, a)
      BY <3>1, <3>2 DEF NewIn
    <3> QED
      BY <3>1, <3>3 DEF DetInd, Counted
  <2>2. CASE ~rpkiOn
    <3> DEFINE X == F \cup N
    <3>1. NewOrigin(rec) => \E x \in X : /\ x.new /\ x.prefix = rec.prefix /\ x.asn = rec.asn
                                         /\ \A y \in X : y.new => y = x
      BY <1>2, <2>2
    <3>2. ~NewOrigin(rec) => \A y \in X : ~y.new
      BY <1>2
    <3>3. reports' = reports \cup X /\ known' = Learn(rec)
      BY <1>1, <2>2
    <3> HIDE DEF X
    <3> QED
      BY <1>0, <3>1, <3>2, <3>3, CountReports
  <2> QED
    BY <2>1, <2>2
<1>6. TaskOK(running', now)
  <2>1. CASE running' = NoTask
    BY <2>1 DEF TaskOK
  <2>2. CASE rec.type = "announce" /\ running' = Waiting(rec, status)
    BY <1>0, <2>2, WaitingOK
  <2> QED
    BY <2>1, <2>2 DEF RunnerTake
<1>7. known' \in {known, Learn(rec)} /\ enriching' \in {enriching, NoTask}
  BY <1>1
<1>8. handled' \in Nat /\ CacheOK(irr', now)
  BY <1>1, SMT DEF DetInd, CacheOK
<1> QED
  BY <1>0, <1>1, <1>4, <1>5, <1>6, <1>7, <1>8, RecordStep

LEMMA DetStep == DetInd /\ [DetNext]_detVars => DetInd'
<1> SUFFICES ASSUME DetInd, [DetNext]_detVars PROVE DetInd'
  OBVIOUS
<1>1. ASSUME NEW k \in Prefixes \X Asns, IrrEvicts(k) PROVE DetInd'
  <2>1. /\ irr' = [irr EXCEPT ![k] = NoAnswer]
        /\ UNCHANGED <<known, baseline, checks, channel, enriching, running, now, handled, reports>>
    BY <1>1 DEF IrrEvicts
  <2>2. irr \in [Prefixes \X Asns -> IrrEntries] /\ NoAnswer \in IrrEntries /\ 0 \in 0..now
    BY SMT DEF DetInd, CacheOK, NoAnswer, IrrEntries
  <2>3. \A x \in Prefixes \X Asns : irr'[x] = IF x = k THEN NoAnswer ELSE irr[x]
    BY <2>1, <2>2
  <2>4. NoAnswer.status = "none" /\ NoAnswer.at = 0
    BY DEF NoAnswer
  <2>5. irr' \in [Prefixes \X Asns -> IrrEntries]
    BY <2>1, <2>2
  <2>6. CacheOK(irr', now)
    BY <2>2, <2>3, <2>4, <2>5 DEF DetInd, CacheOK
  <2> QED
    BY <2>1, <2>6 DEF DetInd, EnrichmentOK, TaskOK, KnownTo
<1>2. CASE DetTick
  <2>1. /\ now' = now + 1 /\ now < MaxNow
        /\ UNCHANGED <<known, baseline, checks, irr, channel, enriching, running, handled, reports>>
    BY <1>2 DEF DetTick
  <2>2. now \in Nat /\ now' \in Nat /\ now <= now' /\ now' \in 0..MaxNow
    BY <2>1, CountsAssumption, SMT DEF DetInd
  <2>3. TaskOK(enriching, now') /\ TaskOK(running, now')
    BY <2>2, TaskStays DEF DetInd, EnrichmentOK
  <2>4. CacheOK(irr, now')
    <3>1. \A n \in 0..now : n \in 0..now'
      BY <2>2, SMT
    <3> QED
      BY <3>1 DEF DetInd, CacheOK
  <2> QED
    BY <2>1, <2>2, <2>3, <2>4 DEF DetInd, EnrichmentOK
<1>3. CASE AlertTaken \/ RoaAlert \/ UNCHANGED detVars
  <2>1. UNCHANGED <<known, baseline, checks, irr, channel, enriching, running, now, handled, reports>>
    BY <1>3 DEF AlertTaken, RoaAlert, detVars
  <2> QED
    BY <2>1 DEF DetInd, EnrichmentOK, TaskOK, KnownTo
<1> QED
  BY <1>1, <1>2, <1>3, CheckUpdateStep, CheckHijackStep, CheckFlapsStep, CheckSendStep,
     CheckEndsStep, RunnerStep, EnrichTakeStep, EnrichCheckStep, RunnerCheckStep DEF DetNext

(* However the calls of check(), the enrichment and the detector runner     *)
(* interleave on the origins they share, an origin that is learnt makes one *)
(* anomaly, which a call still holds, or which was sent, or was dropped by  *)
(* the full alert channel: for every set of prefixes and ASNs, any number   *)
(* of calls and any capacity.                                               *)
THEOREM OriginsOnce == DetSpec => []OriginsReportedOnce
<1>1. DetInd => OriginsReportedOnce
  <2> SUFFICES ASSUME DetInd PROVE OriginsReportedOnce
    OBVIOUS
  <2>1. ASSUME NEW p \in Prefixes, NEW a \in Asns
        PROVE  Cardinality(NewReports(p, a)) + Cardinality(NewInCheck(p, a))
                 = IF a \in known[p] \ Learnt[p] THEN 1 ELSE 0
    <3> DEFINE N == NewIn(reports, p, a)
               H == HeldIn(checks, p, a)
    <3>1. CountedAs(known, N, H, p, a)
      BY DEF DetInd, Counted
    <3> HIDE DEF N, H
    <3>2. CASE a \in known[p] \ Learnt[p]
      <4>1. (Cardinality(N) = 1 /\ Cardinality(H) = 0) \/ (Cardinality(N) = 0 /\ Cardinality(H) = 1)
        BY <3>1, <3>2, FS_Singleton, FS_EmptySet DEF CountedAs
      <4>2. Cardinality(N) + Cardinality(H) = 1
        BY <4>1, SMT
      <4> QED
        BY <3>2, <4>2 DEF N, H, NewIn, HeldIn, NewReports, NewInCheck
    <3>3. CASE a \notin known[p] \ Learnt[p]
      <4>1. Cardinality(N) = 0 /\ Cardinality(H) = 0
        BY <3>1, <3>3, FS_EmptySet DEF CountedAs
      <4>2. Cardinality(N) + Cardinality(H) = 0
        BY <4>1, SMT
      <4> QED
        BY <3>3, <4>2 DEF N, H, NewIn, HeldIn, NewReports, NewInCheck
    <3> QED
      BY <3>2, <3>3
  <2>2. \A r \in reports : ReportOK(r)
    BY DEF DetInd
  <2> QED
    BY <2>1, <2>2 DEF OriginsReportedOnce, ReportOK
<1> QED
  BY <1>1, DetStart, DetStep, PTL DEF DetSpec

(* The registry did contradict an origin that is reported as contradicted,  *)
(* when the answer came or less than IrrTtl before the cache was asked:     *)
(* however the registry changes and whatever the two tasks that share the   *)
(* cache look up in between.                                                *)
THEOREM AnswersJustified == DetSpec => []IrrAnswersJustified
<1>1. DetInd => IrrAnswersJustified
  <2> SUFFICES ASSUME DetInd, NEW r \in reports, r.irr
               PROVE  \E t \in 0..MaxNow : /\ t <= r.told /\ t > r.asked - IrrTtl
                                           /\ IrrAnswer(r, t) = "Inconsistent"
    BY DEF IrrAnswersJustified
  <2>1. JustifiedBy(r.prefix, r.asn, r.asked, r.told)
    BY DEF DetInd, ReportOK
  <2>2. PICK t \in 0..r.told : t > r.asked - IrrTtl /\ Contradicts(r.prefix, r.asn, t)
    BY <2>1 DEF JustifiedBy
  <2>3. t \in 0..MaxNow /\ IrrAnswer(r, t) = "Inconsistent"
    BY <2>2 DEF Contradicts, IrrAnswer
  <2>4. t <= r.told
    BY <2>2, SMT
  <2> QED
    BY <2>2, <2>3, <2>4
<1> QED
  BY <1>1, DetStart, DetStep, PTL DEF DetSpec

(* The boost for an unusual path needs another call of check() in between:  *)
(* for every average and variance, a path that the baseline has just learnt *)
(* is less than three standard deviations away, whatever its length.        *)
THEOREM PathBoostOnlyIfOvertaken == DetSpec => []BoostOnlyIfOvertaken
<1>1. DetInd => BoostOnlyIfOvertaken
  BY DEF DetInd, ReportOK, BoostOnlyIfOvertaken
<1> QED
  BY <1>1, DetStart, DetStep, PTL DEF DetSpec

-----------------------------------------------------------------------------
(* Snapshots.  The file put in place last is newer than every other, and    *)
(* while it may be cleaned up it is the one named by this save.             *)

Contents == [samples: [SnapPrefixes -> Nat], days: [SnapAsns -> SUBSET Days]]

SnapTypes ==
  /\ day \in Days /\ saves \in Nat
  /\ model \in Contents /\ content \in Contents /\ snapshot \in Contents
  /\ files \in [Days -> Contents \cup {NoFile}] /\ lastSaved \in Contents \cup {NoFile}
  /\ mtime \in [Days -> Nat]
  /\ found \in Days /\ name \in Days
  /\ loader \in {"find", "read", "insert", "done"}
  /\ saver \in {"sleep", "collect", "create", "write", "rename", "cleanup"}

\* A save is later than every file that is there, its name at most a day old.
SaveInProgress ==
  /\ \A d \in Days : /\ mtime[d] <= saves
                     /\ saver \in {"collect", "create", "write", "rename"} => mtime[d] < saves
  /\ saver \notin {"sleep", "collect"} => name >= day - 1
  /\ saver = "rename" => tmp = content

\* The newest file is the last snapshot put in place.
NewestIsLast ==
  RetentionDays > 1 /\ lastSaved # NoFile =>
    \E n \in Days : /\ files[n] = lastSaved
                    /\ \A e \in Files \ {n} : mtime[e] < mtime[n]
                    /\ saver = "cleanup" => n = name

\* What was inserted is not lost.
LoadKept ==
  /\ loader \in {"find", "read"} => snapshot = EmptyModel
  /\ \A p \in SnapPrefixes \ toInsert :
       loader \in {"insert", "done"} => model.samples[p] >= snapshot.samples[p]
  /\ loader = "done" => \A a \in SnapAsns : snapshot.days[a] \subseteq model.days[a]

SnapInd == SnapTypes /\ SaveInProgress /\ NewestIsLast /\ LoadKept

LEMMA NoFileNoContent == NoFile \notin Contents
<1> SUFFICES ASSUME NoFile \in Contents PROVE FALSE
  OBVIOUS
<1>1. DOMAIN NoFile = {"samples", "days"}
  BY DEF Contents
<1>2. DOMAIN NoFile = {"none"}
  BY DEF NoFile
<1> QED
  BY <1>1, <1>2

LEMMA EmptyModelType == EmptyModel \in Contents
  BY DEF EmptyModel, Contents

LEMMA SnapStart == SnapInit => SnapInd
<1> SUFFICES ASSUME SnapInit PROVE SnapInd
  OBVIOUS
<1>0. 0 \in Days
  BY SnapBounds DEF Days
<1>1. PICK s \in {NoFile, [samples |-> [p \in SnapPrefixes |-> 1],
                        days |-> [a \in SnapAsns |-> {0}]]} :
        files = [d \in Days |-> IF d = 0 THEN s ELSE NoFile] /\ lastSaved = s
  BY DEF SnapInit
<1>2. s \in Contents \cup {NoFile}
  BY <1>0 DEF Contents
<1>3. SnapTypes
  BY <1>0, <1>1, <1>2, EmptyModelType DEF SnapInit, SnapTypes
<1>4. SaveInProgress
  BY SMT DEF SnapInit, SaveInProgress
<1>5. NewestIsLast
  BY <1>0, <1>1 DEF SnapInit, NewestIsLast, Files
<1>6. LoadKept
  BY DEF SnapInit, LoadKept, EmptyModel
<1> QED
  BY <1>3, <1>4, <1>5, <1>6 DEF SnapInd

LEMMA SnapStep == SnapInd /\ [SnapNext]_snapVars => SnapInd'
<1> SUFFICES ASSUME SnapInd, [SnapNext]_snapVars PROVE SnapInd'
  OBVIOUS
<1> USE DEF SnapInd, loadVars, saveVars
<1>1. ASSUME NEW p \in SnapPrefixes, UpdateBaseline(p) PROVE SnapInd'
  <2> DEFINE m == [model EXCEPT !.samples[p] = @ + 1]
  <2>1. m \in Contents /\ m.days = model.days
          /\ \A q \in SnapPrefixes : m.samples[q] >= model.samples[q]
    <3> DEFINE f == [model.samples EXCEPT ![p] = @ + 1]
    <3>1. model \in Contents
      BY DEF SnapTypes
    <3>2. f \in [SnapPrefixes -> Nat] /\ \A q \in SnapPrefixes : f[q] >= model.samples[q]
      BY <3>1, SMT DEF Contents
    <3>3. m = [model EXCEPT !.samples = f]
      OBVIOUS
    <3> HIDE DEF f, m
    <3> QED
      BY <3>1, <3>2, <3>3 DEF Contents
  <2>2. model' = m
    BY <1>1 DEF UpdateBaseline
  <2> HIDE DEF m
  <2>3. SnapTypes'
    BY <1>1, <2>1, <2>2 DEF UpdateBaseline, SnapTypes
  <2>4. SaveInProgress' /\ NewestIsLast'
    BY <1>1 DEF UpdateBaseline, SaveInProgress, NewestIsLast, Files
  <2>5. LoadKept'
    <3>1. \A q \in SnapPrefixes : snapshot.samples[q] \in Nat /\ model.samples[q] \in Nat
                                    /\ m.samples[q] \in Nat
      BY <2>1 DEF SnapTypes, Contents
    <3> QED
      BY <1>1, <2>1, <2>2, <3>1, SMT DEF UpdateBaseline, LoadKept
  <2> QED
    BY <2>3, <2>4, <2>5
<1>2. ASSUME NEW p \in SnapPrefixes, InsertPrefix(p) PROVE SnapInd'
  <2> DEFINE m == [model EXCEPT !.samples[p] = snapshot.samples[p]]
  <2>1. m \in Contents /\ m.days = model.days
          /\ \A q \in SnapPrefixes :
               m.samples[q] = IF q = p THEN snapshot.samples[p] ELSE model.samples[q]
    BY SMT DEF SnapTypes, Contents
  <2>2. model' = m
    BY <1>2 DEF InsertPrefix
  <2> HIDE DEF m
  <2>3. SnapTypes'
    BY <1>2, <2>1, <2>2 DEF InsertPrefix, SnapTypes
  <2>4. SaveInProgress' /\ NewestIsLast'
    BY <1>2 DEF InsertPrefix, SaveInProgress, NewestIsLast, Files
  <2>5. LoadKept'
    <3>1. \A q \in SnapPrefixes : snapshot.samples[q] \in Nat /\ model.samples[q] \in Nat
      BY DEF SnapTypes, Contents
    <3>2. \A q \in SnapPrefixes \ toInsert' : m.samples[q] >= snapshot.samples[q]
      <4> SUFFICES ASSUME NEW q \in SnapPrefixes, q = p \/ q \notin toInsert
                   PROVE  m.samples[q] >= snapshot.samples[q]
        BY <1>2 DEF InsertPrefix
      <4>1. CASE q = p
        BY <2>1, <3>1, <4>1, SMT
      <4>2. CASE q # p
        BY <1>2, <2>1, <4>2 DEF InsertPrefix, LoadKept
      <4> QED
        BY <4>1, <4>2
    <3> QED
      BY <1>2, <2>2, <3>2 DEF InsertPrefix, LoadKept
  <2> QED
    BY <2>3, <2>4, <2>5
<1>3. CASE FindNewest
  <2>1. SnapTypes'
    BY <1>3 DEF FindNewest, SnapTypes, Files
  <2>2. SaveInProgress' /\ NewestIsLast'
    BY <1>3 DEF FindNewest, SaveInProgress, NewestIsLast, Files
  <2>3. LoadKept'
    <3>1. \A q \in SnapPrefixes : model.samples[q] \in Nat
      BY DEF SnapTypes, Contents
    <3>2. snapshot = EmptyModel /\ UNCHANGED <<model, snapshot, toInsert>>
            /\ loader' \in {"done", "read"}
      BY <1>3 DEF FindNewest, LoadKept
    <3> QED
      BY <3>1, <3>2, SMT DEF LoadKept, EmptyModel
  <2> QED
    BY <2>1, <2>2, <2>3
<1>4. CASE ReadSnapshot
  <2>1. SnapTypes'
    BY <1>4 DEF ReadSnapshot, SnapTypes
  <2>2. SaveInProgress' /\ NewestIsLast'
    BY <1>4 DEF ReadSnapshot, SaveInProgress, NewestIsLast, Files
  <2>3. LoadKept'
    <3>1. \A q \in SnapPrefixes : model.samples[q] \in Nat
      BY DEF SnapTypes, Contents
    <3>2. snapshot = EmptyModel /\ UNCHANGED model
      BY <1>4 DEF ReadSnapshot, LoadKept
    <3>3. CASE files[found] \in {NoFile, Truncated}
      <4>1. UNCHANGED <<snapshot, toInsert>> /\ loader' = "done"
        BY <1>4, <3>3 DEF ReadSnapshot
      <4> QED
        BY <3>1, <3>2, <4>1, SMT DEF LoadKept, EmptyModel
    <3>4. CASE files[found] \notin {NoFile, Truncated}
      <4>1. /\ loader' = "insert" /\ snapshot' = files[found]
            /\ toInsert' = {p \in SnapPrefixes : files[found].samples[p] > 0}
        BY <1>4, <3>4 DEF ReadSnapshot
      <4>2. \A q \in SnapPrefixes : snapshot'.samples[q] \in Nat
        BY <3>4, <4>1 DEF SnapTypes, Contents
      <4> QED
        BY <3>1, <3>2, <4>1, <4>2, SMT DEF LoadKept
    <3> QED
      BY <3>3, <3>4
  <2> QED
    BY <2>1, <2>2, <2>3
<1>5. CASE InsertDays
  <2> DEFINE m == [model EXCEPT !.days = [a \in SnapAsns |-> @[a] \cup snapshot.days[a]]]
  <2>1. m \in Contents /\ m.samples = model.samples
          /\ \A a \in SnapAsns : snapshot.days[a] \subseteq m.days[a]
    BY DEF SnapTypes, Contents
  <2>2. model' = m
    BY <1>5 DEF InsertDays
  <2> HIDE DEF m
  <2>3. SnapTypes'
    BY <1>5, <2>1, <2>2 DEF InsertDays, SnapTypes
  <2>4. SaveInProgress' /\ NewestIsLast'
    BY <1>5 DEF InsertDays, SaveInProgress, NewestIsLast, Files
  <2>5. LoadKept'
    BY <1>5, <2>1, <2>2 DEF InsertDays, LoadKept
  <2> QED
    BY <2>3, <2>4, <2>5
<1>6. CASE WakeDaily
  <2>1. SnapTypes' /\ LoadKept'
    BY <1>6 DEF WakeDaily, SnapTypes, LoadKept
  <2>2. SaveInProgress'
    BY <1>6, SMT DEF WakeDaily, SnapTypes, SaveInProgress
  <2>3. NewestIsLast'
    BY <1>6 DEF WakeDaily, NewestIsLast, Files
  <2> QED
    BY <2>1, <2>2, <2>3
<1>7. CASE Collect
  <2>1. SnapTypes' /\ LoadKept'
    BY <1>7 DEF Collect, SnapTypes, LoadKept
  <2>2. SaveInProgress'
    BY <1>7, SMT DEF Collect, SnapTypes, SaveInProgress, Days
  <2>3. NewestIsLast'
    BY <1>7 DEF Collect, NewestIsLast, Files
  <2> QED
    BY <2>1, <2>2, <2>3
<1>8. CASE CreateTmp \/ WriteTmp \/ SaveFails
  <2>1. SnapTypes' /\ LoadKept'
    BY <1>8 DEF CreateTmp, WriteTmp, SaveFails, SnapTypes, LoadKept
  <2>2. SaveInProgress'
    BY <1>8 DEF CreateTmp, WriteTmp, SaveFails, SaveInProgress
  <2>3. NewestIsLast'
    BY <1>8 DEF CreateTmp, WriteTmp, SaveFails, NewestIsLast, Files
  <2> QED
    BY <2>1, <2>2, <2>3
<1>9. CASE RenameTmp
  <2>1. tmp = content /\ content \in Contents /\ name \in Days
    BY <1>9 DEF RenameTmp, SaveInProgress, SnapTypes
  <2>2. SnapTypes' /\ LoadKept'
    BY <1>9, <2>1 DEF RenameTmp, SnapTypes, LoadKept
  <2>3. SaveInProgress'
    BY <1>9, SMT DEF RenameTmp, SnapTypes, SaveInProgress
  <2>4. NewestIsLast'
    <3>1. files'[name] = lastSaved' /\ name' = name
      BY <1>9, <2>1 DEF RenameTmp, SnapTypes
    <3>2. \A e \in Days \ {name} : mtime'[e] < mtime'[name]
      BY <1>9, <2>1, SMT DEF RenameTmp, SnapTypes, SaveInProgress
    <3> QED
      BY <2>1, <3>1, <3>2 DEF NewestIsLast, Files
  <2> QED
    BY <2>2, <2>3, <2>4
<1>10. CASE Cleanup
  <2>1. PICK gone \in SUBSET Outdated :
          files' = [d \in Days |-> IF d \in gone THEN NoFile ELSE files[d]]
    BY <1>10 DEF Cleanup
  <2>2. SnapTypes' /\ LoadKept'
    BY <1>10, <2>1 DEF Cleanup, SnapTypes, LoadKept
  <2>3. SaveInProgress'
    BY <1>10 DEF Cleanup, SaveInProgress
  <2>4. RetentionDays > 1 => name \notin gone
    <3>1. name \in Int /\ day \in Int /\ name >= day - 1
      BY <1>10 DEF Cleanup, SaveInProgress, SnapTypes, Days
    <3> QED
      BY <3>1, RetentionAssumption, SMT DEF Outdated
  <2>5. Files' \subseteq Files
    BY <2>1 DEF Files
  <2>6. NewestIsLast'
    BY <1>10, <2>1, <2>4, <2>5 DEF Cleanup, NewestIsLast
  <2> QED
    BY <2>2, <2>3, <2>6
<1>11. CASE PassTime
  <2>1. SnapTypes' /\ LoadKept'
    BY <1>11, SnapBounds, SMT DEF PassTime, SnapTypes, LoadKept, Days
  <2>2. SaveInProgress'
    BY <1>11, SMT DEF PassTime, SnapTypes, SaveInProgress, Days
  <2>3. NewestIsLast'
    BY <1>11 DEF PassTime, NewestIsLast, Files
  <2> QED
    BY <2>1, <2>2, <2>3
<1>12. CASE CrashTrainer
  <2>0. 0 \in Days
    BY SnapBounds DEF Days
  <2>1. SnapTypes'
    BY <1>12, <2>0, EmptyModelType DEF CrashTrainer, SnapTypes
  <2>2. SaveInProgress' /\ LoadKept'
    BY <1>12 DEF CrashTrainer, SaveInProgress, LoadKept
  <2>3. NewestIsLast'
    BY <1>12 DEF CrashTrainer, NewestIsLast, Files
  <2> QED
    BY <2>1, <2>2, <2>3
<1>13. CASE UNCHANGED snapVars
  BY <1>13 DEF snapVars, SnapTypes, SaveInProgress, NewestIsLast, LoadKept, Files
<1> QED
  BY <1>1, <1>2, <1>3, <1>4, <1>5, <1>6, <1>7, <1>8, <1>9, <1>10, <1>11, <1>12, <1>13
     DEF SnapNext

(* Through failed saves, crashes and clean-ups the newest snapshot file is  *)
(* complete and is the one put in place last, and what a start has loaded   *)
(* from it stays in the baseline, for every set of prefixes and ASNs and    *)
(* any number of days.  The first half needs a retention of two days or     *)
(* more: with less, which the configuration takes, the clean-up deletes the *)
(* snapshot that was just saved.                                            *)
THEOREM SnapshotsKept == SnapSpec => []SnapshotSafe
<1>1. SnapInd => SnapshotSafe
  <2> SUFFICES ASSUME SnapInd PROVE SnapshotSafe
    OBVIOUS
  <2>1. ASSUME RetentionDays > 1, lastSaved # NoFile
        PROVE  /\ Files # {}
               /\ \A d \in Files : (\A e \in Files : mtime[e] <= mtime[d]) => files[d] = lastSaved
    <3>1. PICK n \in Days : files[n] = lastSaved /\ \A e \in Files \ {n} : mtime[e] < mtime[n]
      BY <2>1 DEF SnapInd, NewestIsLast
    <3>2. n \in Files
      BY <2>1, <3>1 DEF Files
    <3>3. ASSUME NEW d \in Files, mtime[n] <= mtime[d], d # n PROVE FALSE
      <4>1. mtime[d] < mtime[n] /\ mtime[d] \in Nat /\ mtime[n] \in Nat
        BY <3>1, <3>3 DEF SnapInd, SnapTypes, Files
      <4> QED
        BY <3>3, <4>1, SMT
    <3> QED
      BY <3>1, <3>2, <3>3
  <2> QED
    BY <2>1 DEF SnapInd, LoadKept, SnapshotSafe
<1> QED
  BY <1>1, SnapStart, SnapStep, PTL DEF SnapSpec

-----------------------------------------------------------------------------
(* Finite sets of numbers. *)

\* A finite set of numbers that is not empty has a greatest and a least one.
LEMMA Extremes ==
  ASSUME NEW S, S \subseteq Int, S # {}, IsFiniteSet(S)
  PROVE  /\ Max(S) \in S /\ \A y \in S : Max(S) >= y
         /\ Min(S) \in S /\ \A y \in S : Min(S) <= y
<1> DEFINE Good(T) == /\ \E x \in T : \A y \in T : x >= y
                      /\ \E x \in T : \A y \in T : x <= y
           Bad == {T \in FiniteSubsetsOf(S) : T # {} /\ ~Good(T)}
<1>1. ASSUME Bad # {} PROVE FALSE
  <2>1. PICK T \in Bad : \A U \in Bad : <<U, T>> \notin StrictSubsetOrdering(S)
    <3>1. IsWellFoundedOn(StrictSubsetOrdering(S), FiniteSubsetsOf(S)) /\ Bad \subseteq FiniteSubsetsOf(S)
      BY FS_StrictSubsetOrderingWellFounded
    <3> HIDE DEF Bad
    <3> QED
      BY <1>1, <3>1, WFMin
  <2>2. T \subseteq Int /\ T \subseteq S /\ IsFiniteSet(T) /\ T # {} /\ ~Good(T)
    BY DEF FiniteSubsetsOf
  <2>3. PICK x \in T : TRUE
    BY <2>2
  <2> DEFINE U == T \ {x}
  <2>4. IsFiniteSet(U) /\ U \subseteq Int /\ U \in FiniteSubsetsOf(S)
    BY <2>2, FS_Subset DEF FiniteSubsetsOf
  <2>5. <<U, T>> \in StrictSubsetOrdering(S)
    BY <2>2, <2>3 DEF StrictSubsetOrdering
  <2>6. U = {} \/ Good(U)
    BY <2>1, <2>4, <2>5
  <2>7. CASE U = {}
    <3>1. T = {x} /\ x \in Int
      BY <2>2, <2>3, <2>7
    <3> QED
      BY <2>2, <3>1
  <2>8. CASE Good(U)
    <3>1. PICK a \in U : \A y \in U : a >= y
      BY <2>8
    <3>2. PICK b \in U : \A y \in U : b <= y
      BY <2>8
    <3>3. x \in Int /\ a \in Int /\ b \in Int /\ a \in T /\ b \in T
      BY <2>2, <2>3, <2>4
    <3>4. \A y \in T : y = x \/ y \in U
      OBVIOUS
    <3>5. \E z \in T : \A y \in T : z >= y
      <4>1. CASE a >= x
        BY <3>1, <3>3, <3>4, <4>1
      <4>2. CASE x > a
        BY <2>4, <3>1, <3>3, <3>4, <4>2
      <4> QED
        BY <3>3, <4>1, <4>2
    <3>6. \E z \in T : \A y \in T : z <= y
      <4>1. CASE b <= x
        BY <3>2, <3>3, <3>4, <4>1
      <4>2. CASE x < b
        BY <2>4, <3>2, <3>3, <3>4, <4>2
      <4> QED
        BY <3>3, <4>1, <4>2
    <3> QED
      BY <2>2, <3>5, <3>6
  <2> QED
    BY <2>6, <2>7, <2>8
<1>2. Good(S)
  BY <1>1 DEF FiniteSubsetsOf
<1> QED
  BY <1>2 DEF Max, Min

\* A set within an interval is a finite set of numbers.
LEMMA Within ==
  ASSUME NEW m \in Int, NEW n \in Int, NEW S, S \subseteq m..n
  PROVE  IsFiniteSet(S) /\ S \subseteq Int
<1>1. IsFiniteSet(m..n) /\ m..n \subseteq Int
  BY FS_Interval
<1>2. IsFiniteSet(S)
  BY <1>1, FS_Subset
<1> QED
  BY <1>1, <1>2

\* A function has finitely many values on a finite set.
LEMMA FiniteImage ==
  ASSUME NEW S, IsFiniteSet(S), NEW f
  PROVE  IsFiniteSet({f[x] : x \in S})
<1> DEFINE T == {f[x] : x \in S}
           g == [x \in S |-> f[x]]
<1>1. g \in Surjection(S, T)
  BY DEF Surjection
<1> HIDE DEF T, g
<1>2. IsFiniteSet(T)
  BY <1>1, FS_Surjection
<1> QED
  BY <1>2 DEF T

-----------------------------------------------------------------------------
(* RpkiCache.  The index is always the one of the dump loaded last.         *)

RpkiInd ==
  /\ vrpDump \in Seq(RawVrp) /\ vrpLoading \in Seq(RawVrp)
  /\ vrp_index = BuildIndex(vrpDump)

LEMMA RpkiStart == RpkiInit => RpkiInd
<1> SUFFICES ASSUME RpkiInit PROVE RpkiInd
  OBVIOUS
<1>1. vrpDump = <<>> /\ vrpLoading = <<>> /\ vrp_index = [n \in {} |-> <<>>]
  BY DEF RpkiInit
<1>2. Places(<<>>) = {}
  BY DEF Places
<1>3. BuildIndex(<<>>) = [n \in {} |-> <<>>]
  BY <1>2 DEF BuildIndex
<1> QED
  BY <1>1, <1>3 DEF RpkiInd

LEMMA RpkiStep == RpkiInd /\ [RpkiNext]_rpkiVars => RpkiInd'
<1> SUFFICES ASSUME RpkiInd, [RpkiNext]_rpkiVars PROVE RpkiInd'
  OBVIOUS
<1>1. ASSUME NEW d \in Dumps, LockIndex(d) PROVE RpkiInd'
  BY <1>1, DumpsAssumption DEF LockIndex, RpkiInd
<1>2. CASE ReplaceIndex
  BY <1>2 DEF ReplaceIndex, RpkiInd
<1>3. CASE RefreshFails \/ UNCHANGED rpkiVars
  BY <1>3 DEF RefreshFails, rpkiVars, RpkiInd
<1> QED
  BY <1>1, <1>2, <1>3 DEF RpkiNext

\* The index has the usable entries of the dump, each under its network.
LEMMA IndexFacts ==
  ASSUME RpkiInd
  PROVE  /\ Places(vrpDump) \subseteq 1..Len(vrpDump) /\ Len(vrpDump) \in Nat
         /\ \A k \in Places(vrpDump) : /\ vrpDump[k] \in Range(vrpDump) /\ Usable(vrpDump[k])
                                       /\ vrpDump[k].net \in Seq({0, 1})
                                       /\ vrpDump[k].max_length \in Nat
         /\ \A v \in Range(vrpDump) : Usable(v) => \E k \in Places(vrpDump) : v = vrpDump[k]
         /\ DOMAIN vrp_index = {vrpDump[k].net : k \in Places(vrpDump)}
         /\ \A n \in DOMAIN vrp_index :
              /\ DOMAIN vrp_index[n] = {k \in Places(vrpDump) : vrpDump[k].net = n}
              /\ \A k \in DOMAIN vrp_index[n] : vrp_index[n][k] = vrpDump[k]
<1>1. DOMAIN vrpDump = 1..Len(vrpDump) /\ Len(vrpDump) \in Nat
        /\ \A k \in DOMAIN vrpDump : vrpDump[k] \in RawVrp
  BY DEF RpkiInd
<1>2. Places(vrpDump) \subseteq 1..Len(vrpDump)
  BY <1>1 DEF Places
<1>3. \A k \in Places(vrpDump) : /\ vrpDump[k] \in Range(vrpDump) /\ Usable(vrpDump[k])
                                 /\ vrpDump[k].net \in Seq({0, 1})
                                 /\ vrpDump[k].max_length \in Nat
  <2> SUFFICES ASSUME NEW k \in Places(vrpDump)
               PROVE  /\ vrpDump[k] \in Range(vrpDump) /\ Usable(vrpDump[k])
                      /\ vrpDump[k].net \in Seq({0, 1}) /\ vrpDump[k].max_length \in Nat
    OBVIOUS
  <2>1. k \in DOMAIN vrpDump /\ Usable(vrpDump[k]) /\ vrpDump[k] \in RawVrp
    BY <1>1 DEF Places
  <2>2. vrpDump[k].net \in {BadNet} \cup Seq({0, 1}) /\ vrpDump[k].max_length \in Nat
    BY <2>1 DEF RawVrp
  <2> QED
    BY <2>1, <2>2 DEF Range, Usable
<1>4. \A v \in Range(vrpDump) : Usable(v) => \E k \in Places(vrpDump) : v = vrpDump[k]
  BY DEF Range, Places
<1>5. DOMAIN vrp_index = {vrpDump[k].net : k \in Places(vrpDump)}
  BY DEF RpkiInd, BuildIndex
<1>6. \A n \in DOMAIN vrp_index :
        vrp_index[n] = [k \in {j \in Places(vrpDump) : vrpDump[j].net = n} |-> vrpDump[k]]
  BY DEF RpkiInd, BuildIndex
<1>7. ASSUME NEW n \in DOMAIN vrp_index
      PROVE  /\ DOMAIN vrp_index[n] = {k \in Places(vrpDump) : vrpDump[k].net = n}
             /\ \A k \in DOMAIN vrp_index[n] : vrp_index[n][k] = vrpDump[k]
  BY ONLY <1>6, <1>7
<1> QED
  BY ONLY <1>1, <1>2, <1>3, <1>4, <1>5, <1>7, Zenon

\* The look-up by length finds exactly the entries that cover the route.
LEMMA CoverFacts ==
  ASSUME RpkiInd, NEW p \in Seq({0, 1})
  PROVE  /\ \A len \in Candidates(p) : len \in 0..Len(p)
         /\ \A len \in Candidates(p) : \A k \in DOMAIN vrp_index[SubSeq(p, 1, len)] :
              vrpDump[k] \in CoveringVrps(p) /\ k \in Places(vrpDump)
         /\ \A len \in Candidates(p) : DOMAIN vrp_index[SubSeq(p, 1, len)] # {}
         /\ \A v \in CoveringVrps(p) :
              \E len \in Candidates(p) : \E k \in DOMAIN vrp_index[SubSeq(p, 1, len)] : v = vrpDump[k]
<1>0. Len(p) \in Nat
  OBVIOUS
<1>1. \A len \in 0..Len(p) : Len(SubSeq(p, 1, len)) = len
  OBVIOUS
<1>2. \A len \in Candidates(p) : len \in 0..Len(p) /\ SubSeq(p, 1, len) \in DOMAIN vrp_index
  BY DEF Candidates
<1>3. ASSUME NEW len \in Candidates(p), NEW k \in DOMAIN vrp_index[SubSeq(p, 1, len)]
      PROVE  vrpDump[k] \in CoveringVrps(p) /\ k \in Places(vrpDump)
  <2>1. k \in Places(vrpDump) /\ vrpDump[k].net = SubSeq(p, 1, len)
    <3> DEFINE n == SubSeq(p, 1, len)
    <3>1. n \in DOMAIN vrp_index /\ k \in DOMAIN vrp_index[n]
      BY <1>2
    <3> HIDE DEF n
    <3>2. k \in Places(vrpDump) /\ vrpDump[k].net = n
      BY <3>1, IndexFacts
    <3> QED
      BY <3>2 DEF n
  <2>2. vrpDump[k] \in Range(vrpDump) /\ Usable(vrpDump[k])
    BY <2>1, IndexFacts
  <2>3. Len(vrpDump[k].net) = len /\ len <= Len(p)
    BY <1>0, <1>1, <1>2, <2>1
  <2> QED
    BY <2>1, <2>2, <2>3 DEF CoveringVrps
<1>4. ASSUME NEW len \in Candidates(p)
      PROVE  DOMAIN vrp_index[SubSeq(p, 1, len)] # {}
  <2>1. SubSeq(p, 1, len) \in DOMAIN vrp_index
    BY <1>2
  <2>2. PICK k \in Places(vrpDump) : SubSeq(p, 1, len) = vrpDump[k].net
    BY <2>1, IndexFacts
  <2> QED
    BY <2>1, <2>2, IndexFacts
<1>5. ASSUME NEW v \in CoveringVrps(p)
      PROVE  \E len \in Candidates(p) : \E k \in DOMAIN vrp_index[SubSeq(p, 1, len)] : v = vrpDump[k]
  <2>1. /\ v \in Range(vrpDump) /\ Usable(v) /\ Len(v.net) <= Len(p)
        /\ SubSeq(p, 1, Len(v.net)) = v.net
    BY DEF CoveringVrps
  <2>2. PICK k \in Places(vrpDump) : v = vrpDump[k]
    BY <2>1, IndexFacts
  <2>3. v.net \in DOMAIN vrp_index /\ v.net \in Seq({0, 1})
    BY <2>2, IndexFacts
  <2>4. Len(v.net) \in 0..Len(p)
    BY <1>0, <2>1, <2>3
  <2>5. Len(v.net) \in Candidates(p)
    BY <2>1, <2>3, <2>4 DEF Candidates
  <2>6. k \in DOMAIN vrp_index[v.net]
    BY <2>2, <2>3, IndexFacts
  <2> QED
    BY <2>1, <2>2, <2>5, <2>6
<1> QED
  BY <1>2, <1>3, <1>4, <1>5

(* Whatever the dumps, the routes and the failed refreshes: the status that *)
(* validate() gives an announcement follows from the dump loaded last.      *)
THEOREM StatusSound == RpkiSpec => []RpkiStatusSound
<1>1. RpkiInd => RpkiStatusSound
  <2> SUFFICES ASSUME RpkiInd, NEW p \in Routes, NEW a \in RouteAsns
               PROVE  LET s == validate(p, a)
                          own == {v \in CoveringVrps(p) : v.asn = a}
                      IN IF vrpLocked \/ \A v \in Range(vrpDump) : ~Usable(v)
                         THEN s = "Unavailable"
                         ELSE \/ s = "NotFound" /\ CoveringVrps(p) = {}
                              \/ s = "InvalidAsn" /\ CoveringVrps(p) # {} /\ own = {}
                              \/ s = "Valid" /\ \E v \in own : Len(p) <= v.max_length
                              \/ s = "InvalidLength" /\ \E v \in own : Len(p) > v.max_length
    BY DEF RpkiStatusSound
  <2> DEFINE s == validate(p, a)
             own == {v \in CoveringVrps(p) : v.asn = a}
             matching == {len \in Candidates(p) : MatchesAt(p, len, a) # {}}
             first == FirstMatch(p, Max(matching), a)
  <2>0. p \in Seq({0, 1}) /\ p # BadNet /\ Len(p) \in Nat
    BY RoutesAssumption
  <2>1. s = IF vrpLocked \/ DOMAIN vrp_index = {} THEN "Unavailable"
            ELSE IF matching # {} THEN IF Len(p) <= first.max_length THEN "Valid" ELSE "InvalidLength"
            ELSE IF Candidates(p) # {} THEN "InvalidAsn" ELSE "NotFound"
    BY <2>0 DEF validate
  <2>2. DOMAIN vrp_index = {} <=> \A v \in Range(vrpDump) : ~Usable(v)
    <3>1. DOMAIN vrp_index = {vrpDump[k].net : k \in Places(vrpDump)}
      BY IndexFacts
    <3>2. \A k \in Places(vrpDump) : vrpDump[k] \in Range(vrpDump) /\ Usable(vrpDump[k])
      BY IndexFacts
    <3>3. \A v \in Range(vrpDump) : Usable(v) => \E k \in Places(vrpDump) : v = vrpDump[k]
      BY IndexFacts
    <3> QED
      BY ONLY <3>1, <3>2, <3>3
  <2>3. Candidates(p) = {} <=> CoveringVrps(p) = {}
    BY <2>0, CoverFacts
  <2>4. ASSUME NEW len \in Candidates(p), NEW k \in MatchesAt(p, len, a)
        PROVE  /\ vrpDump[k] \in own /\ k \in Places(vrpDump)
               /\ vrp_index[SubSeq(p, 1, len)][k] = vrpDump[k]
    <3>1. SubSeq(p, 1, len) \in DOMAIN vrp_index
      BY DEF Candidates
    <3>2. /\ k \in DOMAIN vrp_index[SubSeq(p, 1, len)]
          /\ vrp_index[SubSeq(p, 1, len)][k].asn = a
      BY DEF MatchesAt
    <3>3. vrp_index[SubSeq(p, 1, len)][k] = vrpDump[k]
      BY <3>1, <3>2, IndexFacts
    <3> QED
      BY <2>0, <3>2, <3>3, CoverFacts
  <2>5. matching = {} => own = {}
    <3> SUFFICES ASSUME NEW v \in own PROVE matching # {}
      OBVIOUS
    <3>1. PICK len \in Candidates(p) : \E k \in DOMAIN vrp_index[SubSeq(p, 1, len)] : v = vrpDump[k]
      BY <2>0, CoverFacts
    <3>2. PICK k \in DOMAIN vrp_index[SubSeq(p, 1, len)] : v = vrpDump[k]
      BY <3>1
    <3>3. SubSeq(p, 1, len) \in DOMAIN vrp_index
      BY <3>1 DEF Candidates
    <3>4. vrp_index[SubSeq(p, 1, len)][k].asn = a
      BY <3>2, <3>3, IndexFacts
    <3> QED
      BY <3>1, <3>2, <3>4 DEF MatchesAt
  <2>6. matching # {} => first \in own /\ first.max_length \in Nat
    <3> SUFFICES ASSUME matching # {} PROVE first \in own /\ first.max_length \in Nat
      OBVIOUS
    <3>1. matching \subseteq 0..Len(p)
      BY <2>0, CoverFacts
    <3>2. IsFiniteSet(matching) /\ matching \subseteq Int
      <4> HIDE DEF matching
      <4>1. 0 \in Int /\ Len(p) \in Int
        BY <2>0
      <4> QED
        BY ONLY <3>1, <4>1, Within, Zenon
    <3> DEFINE len == Max(matching)
               matched == MatchesAt(p, len, a)
    <3> HIDE DEF matching
    <3>3. len \in matching
      BY <3>2, Extremes
    <3>4. len \in Candidates(p) /\ matched # {}
      BY <3>3 DEF matching
    <3>5. matched \subseteq Places(vrpDump)
      BY <2>4, <3>4
    <3>6. matched \subseteq 1..Len(vrpDump) /\ Len(vrpDump) \in Nat
      BY <3>5, IndexFacts
    <3>7. IsFiniteSet(matched) /\ matched \subseteq Int
      <4> HIDE DEF matched
      <4>1. 1 \in Int /\ Len(vrpDump) \in Int
        BY <3>6
      <4> QED
        BY ONLY <3>6, <4>1, Within, Zenon
    <3>8. Min(matched) \in matched
      <4> HIDE DEF matched
      <4> QED
        BY <3>4, <3>7, Extremes
    <3>9. first = vrpDump[Min(matched)] /\ vrpDump[Min(matched)] \in own
            /\ Min(matched) \in Places(vrpDump)
      BY <2>4, <3>4, <3>8 DEF FirstMatch
    <3> QED
      BY <3>9, IndexFacts
  <2> HIDE DEF s, own, matching, first
  <2>7. IF vrpLocked \/ \A v \in Range(vrpDump) : ~Usable(v) THEN s = "Unavailable"
        ELSE \/ s = "NotFound" /\ CoveringVrps(p) = {}
             \/ s = "InvalidAsn" /\ CoveringVrps(p) # {} /\ own = {}
             \/ s = "Valid" /\ \E v \in own : Len(p) <= v.max_length
             \/ s = "InvalidLength" /\ \E v \in own : Len(p) > v.max_length
    <3>1. CASE vrpLocked \/ \A v \in Range(vrpDump) : ~Usable(v)
      BY <2>1, <2>2, <3>1
    <3>2. CASE ~vrpLocked /\ DOMAIN vrp_index # {} /\ matching # {}
      <4>1. CASE Len(p) <= first.max_length
        BY <2>1, <2>2, <2>6, <3>2, <4>1
      <4>2. CASE ~(Len(p) <= first.max_length)
        <5>1. Len(p) > first.max_length /\ first \in own
          BY <2>0, <2>6, <3>2, <4>2
        <5> QED
          BY <2>1, <2>2, <3>2, <4>2, <5>1
      <4> QED
        BY <4>1, <4>2
    <3>3. CASE ~vrpLocked /\ DOMAIN vrp_index # {} /\ matching = {}
      BY <2>1, <2>2, <2>3, <2>5, <3>3
    <3> QED
      BY <2>2, <3>1, <3>2, <3>3
  <2> QED
    BY <2>7 DEF s, own
<1> QED
  BY <1>1, RpkiStart, RpkiStep, PTL DEF RpkiSpec

-----------------------------------------------------------------------------
(* WaveScore.  No signal but the deviation from the baseline, the order and *)
(* the speed is left to a simultaneous event: at most 400, 100 and 50.      *)

\* An entry of the baseline or none, and the class of an event under it.
WaveInd ==
  /\ baselineEntry \in Entries \cup {Unknown}
  /\ \/ scored = Unknown
     \/ \E ev \in WaveEvents :
          scored = [event |-> ev, classification |-> from_score(score_event(ev))]

\* The times of an event are finitely many numbers.
LEMMA EventFacts ==
  ASSUME NEW ev \in WaveEvents
  PROVE  /\ DOMAIN ev \subseteq Nat /\ DOMAIN ev # {} /\ IsFiniteSet(DOMAIN ev)
         /\ \A c \in DOMAIN ev : ev[c] \in Nat
         /\ Range(ev) = {ev[c] : c \in DOMAIN ev}
         /\ Range(ev) \subseteq Int /\ Range(ev) # {} /\ IsFiniteSet(Range(ev))
<1>1. PICK cs \in (SUBSET Collectors) \ {{}} : ev \in [cs -> Times]
  BY DEF WaveEvents
<1>2. DOMAIN ev = cs /\ \A c \in cs : ev[c] \in Times
  BY <1>1
<1>3. IsFiniteSet(cs) /\ cs \subseteq Nat /\ Times \subseteq Nat /\ cs # {}
  <2>1. cs \in SUBSET Collectors /\ cs # {}
    BY <1>1
  <2>2. IsFiniteSet(cs)
    BY <2>1, CollectorsAssumption, FS_Subset
  <2> QED
    BY <2>1, <2>2, CollectorsAssumption
<1>4. Range(ev) = {ev[c] : c \in cs}
  BY <1>2 DEF Range
<1>5. IsFiniteSet(Range(ev))
  <2>1. IsFiniteSet({ev[c] : c \in cs})
    BY <1>3, FiniteImage
  <2> QED
    BY <1>4, <2>1
<1>6. \A c \in cs : ev[c] \in Nat
  BY <1>2, <1>3
<1>7. Range(ev) \subseteq Int /\ Range(ev) # {}
  BY <1>3, <1>4, <1>6
<1> QED
  BY <1>2, <1>3, <1>4, <1>5, <1>6, <1>7

\* The spread is a number, and the last arrival the first plus the spread.
LEMMA SpreadFacts ==
  ASSUME NEW ev \in WaveEvents
  PROVE  /\ Spread(ev) \in Int /\ Max(Range(ev)) \in Int
         /\ \A t \in Range(ev) : t \in Int /\ t <= Max(Range(ev)) /\ Max(Range(ev)) - t <= Spread(ev)
<1>1. /\ Max(Range(ev)) \in Range(ev) /\ \A y \in Range(ev) : Max(Range(ev)) >= y
      /\ Min(Range(ev)) \in Range(ev) /\ \A y \in Range(ev) : Min(Range(ev)) <= y
  BY EventFacts, Extremes
<1>2. Range(ev) \subseteq Int
  BY EventFacts
<1>3. Spread(ev) = Max(Range(ev)) - Min(Range(ev))
  BY DEF Spread
<1> HIDE DEF Spread
<1> QED
  BY <1>1, <1>2, <1>3

\* A part of a number is a number.
LEMMA Quotient ==
  ASSUME NEW a \in Int, NEW b \in Int, b > 0
  PROVE  a \div b \in Int /\ (a >= 0 => a \div b >= 0) /\ (a = 0 => a \div b = 0)
  OBVIOUS

LEMMA ClampFacts == ASSUME NEW x \in Int PROVE Clamp(x) \in Int /\ Clamp(x) <= 1000
  BY DEF Clamp

LEMMA DeviationBound ==
  ASSUME NEW ev \in WaveEvents, NEW e \in Entries
  PROVE  spread_z_score(ev, e) \in Int /\ spread_z_score(ev, e) <= 1000
<1>1. e.p50 \in Nat /\ e.std_dev \in Nat /\ Spread(ev) \in Int
  BY EntriesAssumption, SpreadFacts
<1>2. CASE e.std_dev = 0
  BY <1>2 DEF spread_z_score
<1>3. CASE e.std_dev # 0
  <2> DEFINE z == Spread(ev) - e.p50
             a == 1000 * (IF z < 0 THEN -z ELSE z)
             b == 3 * e.std_dev
  <2>1. a \in Int /\ b \in Int /\ b > 0
    BY <1>1, <1>3
  <2>2. spread_z_score(ev, e) = Clamp(a \div b)
    BY <1>3 DEF spread_z_score
  <2> HIDE DEF a, b
  <2>3. a \div b \in Int
    BY <2>1, Quotient
  <2> QED
    BY <2>2, <2>3, ClampFacts
<1> QED
  BY <1>2, <1>3

\* Within four milliseconds there is no gap.
LEMMA NoGaps ==
  ASSUME NEW ev \in WaveEvents, Spread(ev) <= 4
  PROVE  calculate_gap_ratio(ev) = 0
<1>1. GapsAfter(ev) = {}
  <2> SUFFICES ASSUME NEW t \in GapsAfter(ev) PROVE FALSE
    OBVIOUS
  <2>1. /\ t \in Range(ev) /\ t # Max(Range(ev))
        /\ \A u \in Range(ev) : u <= t \/ u - t > 4
    BY DEF GapsAfter
  <2>2. Max(Range(ev)) \in Range(ev)
    BY EventFacts, Extremes
  <2>3. t \in Int /\ Max(Range(ev)) \in Int /\ Spread(ev) \in Int
          /\ t <= Max(Range(ev)) /\ Max(Range(ev)) - t <= Spread(ev)
    BY <2>1, SpreadFacts
  <2> QED
    BY <2>1, <2>2, <2>3
<1>2. Cardinality(GapsAfter(ev)) = 0
  BY <1>1, FS_EmptySet
<1>3. Cardinality(DOMAIN ev) \in Nat
  BY EventFacts, FS_CardinalityType
<1> DEFINE n == Cardinality(DOMAIN ev)
<1>4. calculate_gap_ratio(ev) = IF n < 2 THEN 0 ELSE (1000 * 0) \div (n - 1)
  BY <1>2 DEF calculate_gap_ratio
<1>5. n \in Nat
  BY <1>3
<1> HIDE DEF n
<1>6. ~(n < 2) => (1000 * 0) \div (n - 1) = 0
  <2> SUFFICES ASSUME ~(n < 2) PROVE (1000 * 0) \div (n - 1) = 0
    OBVIOUS
  <2>1. 1000 * 0 \in Int /\ n - 1 \in Int /\ n - 1 > 0 /\ 1000 * 0 = 0
    BY <1>5
  <2> QED
    BY <2>1, Quotient
<1> QED
  BY <1>4, <1>6

\* Some collector is the first.
LEMMA FirstThere == ASSUME NEW ev \in WaveEvents PROVE ActualTop(ev) # {}
<1> DEFINE t == Min(Range(ev))
           cs == {c \in DOMAIN ev : ev[c] = t}
           c0 == Min(cs)
<1>1. t \in Range(ev) /\ \A u \in Range(ev) : t <= u
  BY EventFacts, Extremes
<1>2. cs # {} /\ cs \subseteq Int /\ cs \subseteq DOMAIN ev
  BY <1>1, EventFacts
<1>3. IsFiniteSet(cs)
  BY <1>2, EventFacts, FS_Subset
<1> HIDE DEF cs
<1>4. c0 \in cs /\ \A c \in cs : c0 <= c
  BY <1>2, <1>3, Extremes
<1> HIDE DEF c0, t
<1>5. c0 \in DOMAIN ev /\ ev[c0] = t /\ c0 \in Nat
  BY <1>2, <1>4, EventFacts DEF cs
<1>6. ASSUME NEW d \in DOMAIN ev, ArrivesBefore(ev, d, c0) PROVE FALSE
  <2>1. ev[d] \in Nat /\ ev[c0] \in Nat /\ ev[d] \in Range(ev) /\ d \in Nat
    BY <1>5, EventFacts
  <2>2. t <= ev[d]
    BY <1>1, <2>1
  <2>3. ev[d] = ev[c0] /\ d < c0
    BY <1>5, <1>6, <2>1, <2>2 DEF ArrivesBefore
  <2>4. d \in cs
    BY <1>5, <2>3 DEF cs
  <2> QED
    BY <1>4, <1>5, <2>1, <2>3, <2>4
<1>7. {d \in DOMAIN ev : ArrivesBefore(ev, d, c0)} = {}
  BY <1>6
<1>8. Cardinality({d \in DOMAIN ev : ArrivesBefore(ev, d, c0)}) = 0
  BY <1>7, FS_EmptySet
<1> QED
  BY <1>5, <1>8 DEF ActualTop

LEMMA OrderBound ==
  ASSUME NEW ev \in WaveEvents, NEW e \in Entries
  PROVE  calculate_order_deviation(ev, e) \in Int /\ calculate_order_deviation(ev, e) <= 1000
<1> DEFINE actual == ActualTop(ev)
           expected == ExpectedTop(e)
           denom == Min({Cardinality(actual), Cardinality(expected)})
<1>1. CASE e.expected_order = <<>> \/ Cardinality(DOMAIN ev) < 2
  BY <1>1 DEF calculate_order_deviation
<1>2. CASE ~(e.expected_order = <<>> \/ Cardinality(DOMAIN ev) < 2)
  <2>1. IsFiniteSet(actual) /\ actual # {}
    <3>1. actual \subseteq DOMAIN ev
      BY DEF ActualTop
    <3> QED
      BY <3>1, EventFacts, FirstThere, FS_Subset
  <2>2. IsFiniteSet(expected) /\ expected # {}
    <3>1. e.expected_order \in Seq(Collectors) /\ e.expected_order # <<>>
      BY <1>2, EntriesAssumption
    <3>2. 1 \in DOMAIN e.expected_order
      BY <3>1
    <3>3. IsFiniteSet(1..3)
      BY Within
    <3>4. IsFiniteSet(DOMAIN e.expected_order \cap 1..3)
      BY <3>3, FS_Subset
    <3>5. IsFiniteSet(expected)
      BY <3>4, FiniteImage DEF ExpectedTop
    <3>6. 1 \in DOMAIN e.expected_order \cap 1..3
      BY <3>2
    <3> QED
      BY <3>5, <3>6 DEF ExpectedTop
  <2> HIDE DEF actual, expected
  <2>3. /\ Cardinality(actual) \in Nat /\ Cardinality(actual) # 0
        /\ Cardinality(expected) \in Nat /\ Cardinality(expected) # 0
    BY <2>1, <2>2, FS_CardinalityType, FS_EmptySet
  <2>4. IsFiniteSet(actual \cap expected)
    BY <2>1, FS_Subset
  <2>5. Cardinality(actual \cap expected) \in Nat
    BY <2>4, FS_CardinalityType
  <2> DEFINE m == {Cardinality(actual), Cardinality(expected)}
             k == Cardinality(actual \cap expected)
  <2>6. m # {} /\ m \subseteq Int /\ \A x \in m : x > 0
    BY <2>3
  <2>7. IsFiniteSet(m)
    <3>1. IsFiniteSet({Cardinality(actual)})
      BY FS_Singleton
    <3>2. IsFiniteSet({Cardinality(actual)} \cup {Cardinality(expected)})
      BY <3>1, FS_AddElement
    <3> QED
      BY <3>2
  <2> HIDE DEF m
  <2>8. Min(m) \in m
    BY <2>6, <2>7, Extremes
  <2>9. Min(m) \in Int /\ Min(m) > 0
    BY <2>6, <2>8
  <2>10. calculate_order_deviation(ev, e) = 1000 - (1000 * k) \div Min(m)
    BY <1>2 DEF calculate_order_deviation, m, actual, expected
  <2> HIDE DEF k
  <2>11. 1000 * k \in Int /\ 1000 * k >= 0
    BY <2>5 DEF k
  <2>12. (1000 * k) \div Min(m) \in Int /\ (1000 * k) \div Min(m) >= 0
    BY ONLY <2>9, <2>11, Quotient
  <2> DEFINE q == (1000 * k) \div Min(m)
  <2>13. q \in Int /\ q >= 0 /\ calculate_order_deviation(ev, e) = 1000 - q
    BY <2>10, <2>12
  <2> HIDE DEF q
  <2> QED
    BY <2>13
<1> QED
  BY <1>1, <1>2

LEMMA SpeedBound ==
  ASSUME NEW ev \in WaveEvents
  PROVE  calculate_propagation_speed(ev) \in Int /\ calculate_propagation_speed(ev) <= 1000
<1> DEFINE cs == DOMAIN ev \cap DOMAIN Position
           placed == {Position[c] : c \in cs}
<1>1. IsFiniteSet(cs) /\ placed \subseteq Int
  BY EventFacts, FS_Subset, PositionAssumption
<1>2. IsFiniteSet(placed)
  BY <1>1, FiniteImage
<1>3. LightTime(ev) = IF placed = {} THEN 0 ELSE Max(placed) - Min(placed)
  BY DEF LightTime
<1>9. placed \subseteq Int
  BY <1>1
<1> HIDE DEF placed
<1>4. LightTime(ev) \in Int /\ LightTime(ev) >= 0
  <2>1. CASE placed = {}
    BY <1>3, <2>1
  <2>2. CASE placed # {}
    <3>1. Max(placed) \in placed /\ Min(placed) \in placed /\ Min(placed) <= Max(placed)
      BY <1>2, <1>9, <2>2, Extremes
    <3>2. Max(placed) \in Int /\ Min(placed) \in Int /\ LightTime(ev) = Max(placed) - Min(placed)
      BY <1>3, <1>9, <2>2, <3>1
    <3> QED
      BY <3>1, <3>2
  <2> QED
    BY <2>1, <2>2
<1>5. CASE LightTime(ev) = 0
  BY <1>5 DEF calculate_propagation_speed
<1>6. CASE LightTime(ev) # 0
  <2> DEFINE a == 1000 * Spread(ev)
  <2>1. a \in Int /\ LightTime(ev) > 0
    BY <1>4, <1>6, SpreadFacts
  <2>2. calculate_propagation_speed(ev) = Clamp(a \div LightTime(ev))
    BY <1>6 DEF calculate_propagation_speed
  <2> HIDE DEF a
  <2>3. a \div LightTime(ev) \in Int
    BY <1>4, <2>1, Quotient
  <2> QED
    BY <2>2, <2>3, ClampFacts
<1> QED
  BY <1>5, <1>6

\* So a simultaneous event scores at most 550 of 1000.
LEMMA SimultaneousScore ==
  ASSUME NEW ev \in WaveEvents, NEW e \in Entries, Spread(ev) <= 4, Spread(ev) <= e.p99
  PROVE  calculate_score_for_entry(ev, e) \in Int /\ calculate_score_for_entry(ev, e) < 600
<1> DEFINE z == spread_z_score(ev, e)
           d == calculate_order_deviation(ev, e)
           v == calculate_propagation_speed(ev)
<1>1. z \in Int /\ z <= 1000 /\ d \in Int /\ d <= 1000 /\ v \in Int /\ v <= 1000
  BY DeviationBound, OrderBound, SpeedBound
<1>2. e.p99 \in Nat /\ Spread(ev) \in Int
  BY EntriesAssumption, SpreadFacts
<1>3. outlier_factor(ev, e) = 0
  BY <1>2 DEF outlier_factor
<1>4. calculate_gap_ratio(ev) = 0
  BY NoGaps
<1>5. calculate_score_for_entry(ev, e) = (400 * z + 300 * 0 + 150 * 0 + 100 * d + 50 * v) \div 1000
  BY <1>3, <1>4 DEF calculate_score_for_entry
<1> HIDE DEF z, d, v
<1> QED
  BY <1>1, <1>5

(* However far from its baseline, an announcement that reaches all          *)
(* collectors within 4 ms and is no slower than 99% of the others is never  *)
(* anomalous, for every baseline, set of collectors and places.             *)
THEOREM SimultaneousNotAnomalous == WaveSpec => []SimultaneousAtMostSuspicious
<1>1. WaveInit => WaveInd
  BY DEF WaveInit, WaveInd
<1>2. WaveInd /\ [WaveNext]_waveVars => WaveInd'
  <2> SUFFICES ASSUME WaveInd, [WaveNext]_waveVars PROVE WaveInd'
    OBVIOUS
  <2>1. baselineEntry' = baselineEntry
    BY DEF WaveNext, ScoreEvent, waveVars
  <2>2. \A ev : score_event(ev)' = score_event(ev)
    BY <2>1 DEF score_event
  <2>3. ASSUME NEW ev \in WaveEvents, ScoreEvent(ev) PROVE WaveInd'
    BY <2>1, <2>2, <2>3 DEF ScoreEvent, WaveInd
  <2>4. CASE UNCHANGED waveVars
    BY <2>2, <2>4 DEF WaveInd, waveVars
  <2> QED
    BY <2>3, <2>4 DEF WaveNext
<1>3. WaveInd => SimultaneousAtMostSuspicious
  <2> SUFFICES ASSUME WaveInd, scored # Unknown, baselineEntry # Unknown,
                      Spread(scored.event) <= 4, Spread(scored.event) <= baselineEntry.p99
               PROVE  scored.classification # "Anomalous"
    BY DEF SimultaneousAtMostSuspicious
  <2>1. baselineEntry \in Entries
    BY DEF WaveInd
  <2>2. PICK ev \in WaveEvents :
          scored = [event |-> ev, classification |-> from_score(score_event(ev))]
    BY DEF WaveInd
  <2>3. scored.event = ev /\ scored.classification = from_score(score_event(ev))
    BY <2>2
  <2>4. score_event(ev) = calculate_score_for_entry(ev, baselineEntry)
    BY DEF score_event
  <2>5. score_event(ev) \in Int /\ score_event(ev) < 600
    BY <2>1, <2>3, <2>4, SimultaneousScore
  <2> QED
    BY <2>3, <2>5 DEF from_score
<1> QED
  BY <1>1, <1>2, <1>3, PTL DEF WaveSpec
=============================================================================
