------------------------- MODULE ClickHouseExporter -------------------------
(***************************************************************************)
(* The ClickHouse exporter (clickhouse_exporter.rs): handlers push BGP     *)
(* records on a bounded queue, and one task posts them in batches as an    *)
(* INSERT, twice if the first attempt fails or does not answer in time.    *)
(*                                                                         *)
(* A request has a life of its own: a timeout ends the wait for the        *)
(* answer, not the request, which ClickHouse may still carry out later,    *)
(* even after the retry or the end of the gateway.  The table is a plain   *)
(* MergeTree and keeps every row it is given.                              *)
(***************************************************************************)
EXTENDS Integers, Sequences, FiniteSets, Functions

CONSTANTS NumRecords,   \* bound: records the handlers write, 1, 2, ...
          BatchSize,    \* config.clickhouse.batch_size
          MaxRestarts   \* bound: restarts of the gateway process

ASSUME RecordsAssumption == NumRecords \in Nat
ASSUME BatchSizeAssumption == BatchSize \in Nat \ {0}
ASSUME RestartsAssumption == MaxRestarts \in Nat

Records == 1..NumRecords

\* ClickHouseExporter::new: twice the batch size as headroom.
QueueCapacity == BatchSize * 2

\* flush(): max_attempts.
MaxAttempts == 2

VARIABLES
  sent,      \* records written so far; record r is the r-th write
  buffer,    \* Seq(Records): the ArrayQueue
  pc,        \* where the flush task is
  batch,     \* Seq(Records): flush()'s local vector
  attempts,  \* posts of this batch so far
  reply,     \* what has come back for the last post
  requests,  \* posts on their way to ClickHouse
  rows,      \* [Records -> Nat]: rows of a record in the table
  acked,     \* history: records of batches flush() reported as flushed
  dropped,   \* history: records refused by a full queue or given up by flush()
  lost,      \* history: records in the memory of a process that ended
  restarts

vars == <<sent, buffer, pc, batch, attempts, reply, requests, rows, acked,
          dropped, lost, restarts>>

Request == [recs: Seq(Records), attempt: 1..MaxAttempts]

Init ==
  /\ sent = 0
  /\ buffer = <<>> /\ batch = <<>>
  /\ pc = "sleep"
  /\ attempts = 0
  /\ reply = "none"
  /\ requests = {}
  /\ rows = [r \in Records |-> 0]
  /\ acked = {} /\ dropped = {} /\ lost = {}
  /\ restarts = 0

-----------------------------------------------------------------------------
\* Mutation: the queue admits one record too many.
WriteOneTooMany ==
  /\ pc # "down"
  /\ sent < NumRecords
  /\ sent' = sent + 1
  /\ IF Len(buffer) <= QueueCapacity
     THEN buffer' = Append(buffer, sent + 1) /\ UNCHANGED dropped
     ELSE dropped' = dropped \cup {sent + 1} /\ UNCHANGED buffer
  /\ UNCHANGED <<pc, batch, attempts, reply, requests, rows, acked, lost, restarts>>

(* write(): push; a full queue drops the record and counts an error. *)
Write ==
  /\ pc # "down"
  /\ sent < NumRecords
  /\ sent' = sent + 1
  /\ IF Len(buffer) < QueueCapacity
     THEN buffer' = Append(buffer, sent + 1) /\ UNCHANGED dropped
     ELSE dropped' = dropped \cup {sent + 1} /\ UNCHANGED buffer
  /\ UNCHANGED <<pc, batch, attempts, reply, requests, rows, acked, lost, restarts>>

(* start_flush_task(): the sleep is over. *)
Wake ==
  /\ pc = "sleep"
  /\ pc' = "pop"
  /\ UNCHANGED <<sent, buffer, batch, attempts, reply, requests, rows, acked,
                 dropped, lost, restarts>>

(* One turn of flush()'s pop loop; handlers push between two turns. *)
Pop ==
  /\ pc = "pop"
  /\ Len(batch) < BatchSize
  /\ buffer # <<>>
  /\ batch' = Append(batch, Head(buffer))
  /\ buffer' = Tail(buffer)
  /\ UNCHANGED <<sent, pc, attempts, reply, requests, rows, acked, dropped,
                 lost, restarts>>

\* The pop loop has ended: queue empty, or one batch collected.
PopsDone == buffer = <<>> \/ Len(batch) >= BatchSize

(* Nothing popped: flush() returns early. *)
FlushEmpty ==
  /\ pc = "pop"
  /\ batch = <<>> /\ buffer = <<>>
  /\ pc' = "sleep"
  /\ UNCHANGED <<sent, buffer, batch, attempts, reply, requests, rows, acked,
                 dropped, lost, restarts>>

(* The batch is posted, for the first time or, after a pause, again. *)
Post ==
  /\ \/ pc = "pop" /\ batch # <<>> /\ PopsDone
     \/ pc = "pause"
  /\ attempts' = attempts + 1
  /\ requests' = requests \cup {[recs |-> batch, attempt |-> attempts + 1]}
  /\ reply' = "none"
  /\ pc' = "wait"
  /\ UNCHANGED <<sent, buffer, batch, rows, acked, dropped, lost, restarts>>

\* The request whose answer flush() waits for.
Awaited(q) == pc = "wait" /\ q.recs = batch /\ q.attempt = attempts

(* ClickHouse carries out an INSERT: every row, or none. *)
Apply(q) ==
  /\ q \in requests
  /\ requests' = requests \ {q}
  /\ rows' = [r \in Records |-> IF r \in Range(q.recs) THEN rows[r] + 1 ELSE rows[r]]
  /\ reply' = IF Awaited(q) THEN "ok" ELSE reply
  /\ UNCHANGED <<sent, buffer, pc, batch, attempts, acked, dropped, lost, restarts>>

(* ClickHouse refuses it, or it never arrives. *)
Reject(q) ==
  /\ q \in requests
  /\ requests' = requests \ {q}
  /\ reply' = IF Awaited(q) THEN "error" ELSE reply
  /\ UNCHANGED <<sent, buffer, pc, batch, attempts, rows, acked, dropped, lost,
                 restarts>>

\* flush() returns.
Return ==
  /\ pc' = "sleep"
  /\ batch' = <<>>
  /\ attempts' = 0
  /\ reply' = "none"

\* Mutation: any answer counts as success, whatever its status.
SucceedUnchecked ==
  /\ pc = "wait" /\ reply # "none"
  /\ acked' = acked \cup Range(batch)
  /\ Return
  /\ UNCHANGED <<sent, buffer, requests, rows, dropped, lost, restarts>>

(* The answer says success: logged as flushed. *)
Succeed ==
  /\ pc = "wait" /\ reply = "ok"
  /\ acked' = acked \cup Range(batch)
  /\ Return
  /\ UNCHANGED <<sent, buffer, requests, rows, dropped, lost, restarts>>

\* Mutation: one attempt too many.
FailOneMore ==
  /\ pc = "wait"
  /\ IF attempts <= MaxAttempts
     THEN pc' = "pause" /\ UNCHANGED <<batch, attempts, reply, dropped>>
     ELSE dropped' = dropped \cup Range(batch) /\ Return
  /\ UNCHANGED <<sent, buffer, requests, rows, acked, lost, restarts>>

\* Mutation: a failed attempt is not tried again.
FailForgets ==
  /\ pc = "wait"
  /\ Return
  /\ UNCHANGED <<sent, buffer, requests, rows, acked, dropped, lost, restarts>>

\* Mutation: the client waits for an answer without a timeout.
FailNoTimeout ==
  /\ pc = "wait" /\ reply = "error"
  /\ IF attempts < MaxAttempts
     THEN pc' = "pause" /\ UNCHANGED <<batch, attempts, reply, dropped>>
     ELSE dropped' = dropped \cup Range(batch) /\ Return
  /\ UNCHANGED <<sent, buffer, requests, rows, acked, lost, restarts>>

(* An error status, a broken connection, or no answer within the timeout of *)
(* three seconds: pause and try again, or drop the batch and count an error.*)
Fail ==
  /\ pc = "wait"
  /\ IF attempts < MaxAttempts
     THEN pc' = "pause" /\ UNCHANGED <<batch, attempts, reply, dropped>>
     ELSE dropped' = dropped \cup Range(batch) /\ Return
  /\ UNCHANGED <<sent, buffer, requests, rows, acked, lost, restarts>>

(* The process ends, by a crash or a shutdown: nothing calls                *)
(* flush_on_shutdown().  Requests already posted may still be carried out.  *)
Stop ==
  /\ pc # "down"
  /\ lost' = lost \cup Range(buffer) \cup Range(batch)
  /\ pc' = "down"
  /\ buffer' = <<>> /\ batch' = <<>>
  /\ attempts' = 0
  /\ reply' = "none"
  /\ UNCHANGED <<sent, requests, rows, acked, dropped, restarts>>

(* A new process; its flush task sleeps first. *)
Restart ==
  /\ pc = "down"
  /\ restarts < MaxRestarts
  /\ restarts' = restarts + 1
  /\ pc' = "sleep"
  /\ UNCHANGED <<sent, buffer, batch, attempts, reply, requests, rows, acked,
                 dropped, lost>>

FlushStep == Wake \/ Pop \/ FlushEmpty \/ Post \/ Succeed \/ Fail

Next ==
  \/ Write
  \/ FlushStep
  \/ \E q \in requests : Apply(q) \/ Reject(q)
  \/ Stop \/ Restart

Spec == Init /\ [][Next]_vars

(* The task's timer fires, it is polled, and a post that is not answered    *)
(* times out.  ClickHouse owes nothing.                                     *)
FairSpec == Spec /\ WF_vars(FlushStep)

-----------------------------------------------------------------------------
TypeOK ==
  /\ sent \in 0..NumRecords
  /\ buffer \in Seq(Records) /\ Len(buffer) <= QueueCapacity
  /\ batch \in Seq(Records) /\ Len(batch) <= BatchSize
  /\ pc \in {"sleep", "pop", "wait", "pause", "down"}
  /\ attempts \in 0..MaxAttempts
  /\ reply \in {"none", "ok", "error"}
  /\ requests \subseteq Request
  /\ rows \in [Records -> Nat]
  /\ acked \subseteq Records /\ dropped \subseteq Records /\ lost \subseteq Records
  /\ restarts \in 0..MaxRestarts

\* Records with a row in the table.
Stored == {r \in Records : rows[r] > 0}

(* Every record written is queued, in the batch of a flush, in the table,   *)
(* counted as dropped, or lost with the process.                            *)
NoSilentLoss ==
  1..sent \subseteq Range(buffer) \cup Range(batch) \cup Stored \cup dropped \cup lost

(* What flush() reports as flushed is in the table, though the answer to    *)
(* one attempt may come when it already waits for the other.                *)
AckedStored == acked \subseteq Stored

\* The requests that carry record r.
Carrying(r) == {q \in requests : r \in Range(q.recs)}

\* Rows of record r, counting the requests still to be carried out.
Copies(r) == rows[r] + Cardinality(Carrying(r))

(* A record ends up with at most as many rows as flush() makes attempts,    *)
(* however late ClickHouse carries them out, across restarts.               *)
AtMostTwice == \A r \in Records : Copies(r) <= MaxAttempts

(* A queued record leaves the gateway: it is stored, or its loss has been   *)
(* counted, or it was lost with the process.                                *)
EventuallySettled ==
  \A r \in Records : (r \in Range(buffer)) ~> (r \in Stored \cup dropped \cup lost)
=============================================================================
