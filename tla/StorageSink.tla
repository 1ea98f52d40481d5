---------------------------- MODULE StorageSink ----------------------------
(***************************************************************************)
(* The NDJSON storage sink (sink.rs) as main.rs and lib.rs wire it.        *)
(*                                                                         *)
(* main() builds one StorageSink and keeps a clone for its shutdown hook;  *)
(* create_app() builds a second one over the same output directory, and    *)
(* only that one is handed to the request handlers.  Each has a background *)
(* flush task.  Handlers push records on a bounded lock-free queue; a      *)
(* flush pops up to max_buffer_size records one by one, names a file after *)
(* the wall clock in milliseconds, creates (truncates) it and writes it.   *)
(*                                                                         *)
(* The clock is quotiented: it only matters which flushes name their file  *)
(* in the same millisecond, so Tick fires only when a task waits for the   *)
(* current millisecond to pass, and a flush that finds nothing (it names   *)
(* no file) does not restart its task's sleep.                             *)
(***************************************************************************)
EXTENDS Integers, Sequences, Functions

CONSTANTS NumRecords,        \* bound: records the handlers write, 1, 2, ...
          MaxBufferSize,     \* config.sink.max_buffer_size
          FlushIntervalSecs, \* config.sink.flush_interval_secs
          MaxRestarts        \* bound: restarts of the gateway process

ASSUME NumRecordsAssumption == NumRecords \in Nat
ASSUME MaxBufferSizeAssumption == MaxBufferSize \in Nat \ {0}
ASSUME FlushIntervalAssumption == FlushIntervalSecs \in Nat
ASSUME MaxRestartsAssumption == MaxRestarts \in Nat

Records == 1..NumRecords
Sinks == {"main_sink", "app_sink"}
Flushers == {"main_task", "app_task", "shutdown_hook"}
Tasks == {"main_task", "app_task"}

\* The queue a flusher drains.  The shutdown hook holds a clone of main's sink.
SinkOf(f) == IF f = "app_task" THEN "app_sink" ELSE "main_sink"

\* The queue the request handlers push to: AppState.sink.
HandlerSink == "app_sink"

\* StorageSink::new: twice the flush size as headroom.
QueueCapacity == MaxBufferSize * 2

VARIABLES
  sent,     \* records written so far; record r is the r-th write
  buffer,   \* [Sinks -> Seq(Records)]: the ArrayQueues
  pc,       \* [Flushers -> where the flusher is]
  batch,    \* [Flushers -> Seq(Records)]: flush()'s local vector
  stamp,    \* [Flushers -> Nat]: millisecond of its last file name, or of its start
  files,    \* the output directory
  dropped,  \* records refused by a full queue
  lost,     \* records lost to a failed write, a crash or an exit
  now,      \* wall clock
  server,   \* life cycle of the process
  restarts

vars == <<sent, buffer, pc, batch, stamp, files, dropped, lost, now,
          server, restarts>>

File == [name: Nat, recs: Seq(Records), complete: BOOLEAN]
States == {"idle", "sleep", "pop", "named", "write"}

(* "flushing": the signal arrived and the shutdown hook runs, requests are  *)
(* still accepted; "draining": the hook returned, in-flight requests end.   *)
Running == server \in {"up", "flushing", "draining"}

Init ==
  /\ sent = 0
  /\ buffer = [s \in Sinks |-> <<>>]
  /\ pc = [f \in Flushers |-> IF f \in Tasks THEN "sleep" ELSE "idle"]
  /\ batch = [f \in Flushers |-> <<>>]
  /\ stamp = [f \in Flushers |-> 0]
  /\ files = {}
  /\ dropped = {} /\ lost = {}
  /\ now = 0
  /\ server = "up"
  /\ restarts = 0

-----------------------------------------------------------------------------
\* Mutation: the queue admits one record too many.
WriteOneTooMany ==
  /\ Running
  /\ sent < NumRecords
  /\ sent' = sent + 1
  /\ IF Len(buffer[HandlerSink]) <= QueueCapacity
     THEN /\ buffer' = [buffer EXCEPT ![HandlerSink] = Append(@, sent + 1)]
          /\ UNCHANGED dropped
     ELSE /\ dropped' = dropped \cup {sent + 1}
          /\ UNCHANGED buffer
  /\ UNCHANGED <<pc, batch, stamp, files, lost, now, server, restarts>>

(* write(): push, and drop the record silently when the queue is full. *)
Write ==
  /\ Running
  /\ sent < NumRecords
  /\ sent' = sent + 1
  /\ IF Len(buffer[HandlerSink]) < QueueCapacity
     THEN /\ buffer' = [buffer EXCEPT ![HandlerSink] = Append(@, sent + 1)]
          /\ UNCHANGED dropped
     ELSE /\ dropped' = dropped \cup {sent + 1}
          /\ UNCHANGED buffer
  /\ UNCHANGED <<pc, batch, stamp, files, lost, now, server, restarts>>

\* Mutation: the task does not sleep between two flushes.
WakeAtOnce(f) ==
  /\ Running
  /\ f \in Tasks
  /\ pc[f] = "sleep"
  /\ pc' = [pc EXCEPT ![f] = "pop"]
  /\ UNCHANGED <<sent, buffer, batch, stamp, files, dropped, lost, now,
                 server, restarts>>

\* Mutation: the task flushes only when a whole batch has gathered.
WakeOnFullBatch(f) ==
  /\ Running
  /\ f \in Tasks
  /\ pc[f] = "sleep"
  /\ stamp[f] < now
  /\ Len(buffer[SinkOf(f)]) >= MaxBufferSize
  /\ pc' = [pc EXCEPT ![f] = "pop"]
  /\ UNCHANGED <<sent, buffer, batch, stamp, files, dropped, lost, now,
                 server, restarts>>

(* start_flush_task(): the sleep is over; with an interval of zero at once. *)
Wake(f) ==
  /\ Running
  /\ f \in Tasks
  /\ pc[f] = "sleep"
  /\ FlushIntervalSecs = 0 \/ stamp[f] < now
  /\ pc' = [pc EXCEPT ![f] = "pop"]
  /\ UNCHANGED <<sent, buffer, batch, stamp, files, dropped, lost, now,
                 server, restarts>>

\* Where a flusher goes when flush() returns.
Rest(f) == IF f \in Tasks THEN "sleep" ELSE "idle"

(* One turn of flush()'s pop loop; handlers push between two turns. *)
Pop(f) ==
  /\ Running
  /\ pc[f] = "pop"
  /\ Len(batch[f]) < MaxBufferSize
  /\ buffer[SinkOf(f)] # <<>>
  /\ batch' = [batch EXCEPT ![f] = Append(@, Head(buffer[SinkOf(f)]))]
  /\ buffer' = [buffer EXCEPT ![SinkOf(f)] = Tail(@)]
  /\ UNCHANGED <<sent, pc, stamp, files, dropped, lost, now, server, restarts>>

\* The pop loop has ended: queue empty, or one flush's worth collected.
PopsDone(f) == buffer[SinkOf(f)] = <<>> \/ Len(batch[f]) >= MaxBufferSize

(* Nothing popped: flush() returns early. *)
FlushEmpty(f) ==
  /\ Running
  /\ pc[f] = "pop"
  /\ batch[f] = <<>> /\ buffer[SinkOf(f)] = <<>>
  /\ pc' = [pc EXCEPT ![f] = Rest(f)]
  /\ UNCHANGED <<sent, buffer, batch, stamp, files, dropped, lost, now,
                 server, restarts>>

\* Mutation: the file is named with a coarser clock.
NameFileCoarse(f) ==
  /\ Running
  /\ pc[f] = "pop"
  /\ batch[f] # <<>> /\ PopsDone(f)
  /\ stamp' = [stamp EXCEPT ![f] = now - (now % 2)]
  /\ pc' = [pc EXCEPT ![f] = "named"]
  /\ UNCHANGED <<sent, buffer, batch, files, dropped, lost, now, server,
                 restarts>>

(* Something popped: the file is named after the clock. *)
NameFile(f) ==
  /\ Running
  /\ pc[f] = "pop"
  /\ batch[f] # <<>> /\ PopsDone(f)
  /\ stamp' = [stamp EXCEPT ![f] = now]
  /\ pc' = [pc EXCEPT ![f] = "named"]
  /\ UNCHANGED <<sent, buffer, batch, files, dropped, lost, now, server,
                 restarts>>

\* The directory after creating, or truncating, the file of that name.
Created(name, recs, complete) ==
  {g \in files : g.name # name}
    \cup {[name |-> name, recs |-> recs, complete |-> complete]}

(* tokio::fs::write, first part: open with create and truncate. *)
OpenFile(f) ==
  /\ Running
  /\ pc[f] = "named"
  /\ files' = Created(stamp[f], <<>>, FALSE)
  /\ pc' = [pc EXCEPT ![f] = "write"]
  /\ UNCHANGED <<sent, buffer, batch, stamp, dropped, lost, now, server,
                 restarts>>

\* A write goes to the file if the name is still linked, else nowhere.
Filled(name, recs, complete) ==
  IF \E g \in files : g.name = name THEN Created(name, recs, complete) ELSE files

(* Part of the bytes has reached the file. *)
WriteChunk(f) ==
  /\ Running
  /\ pc[f] = "write"
  /\ \E g \in files : \E k \in (Len(g.recs) + 1)..(Len(batch[f]) - 1) :
       /\ g.name = stamp[f]
       /\ files' = Created(stamp[f], SubSeq(batch[f], 1, k), FALSE)
  /\ UNCHANGED <<sent, buffer, pc, batch, stamp, dropped, lost, now, server,
                 restarts>>

(* The write succeeds and flush() returns. *)
WriteOk(f) ==
  /\ Running
  /\ pc[f] = "write"
  /\ files' = Filled(stamp[f], batch[f], TRUE)
  /\ batch' = [batch EXCEPT ![f] = <<>>]
  /\ pc' = [pc EXCEPT ![f] = Rest(f)]
  /\ UNCHANGED <<sent, buffer, stamp, dropped, lost, now, server, restarts>>

\* Mutation: a failed flush puts its batch back at the end of the queue.
WriteFailRequeue(f) ==
  /\ Running
  /\ pc[f] \in {"named", "write"}
  /\ buffer' = [buffer EXCEPT ![SinkOf(f)] = @ \o batch[f]]
  /\ batch' = [batch EXCEPT ![f] = <<>>]
  /\ pc' = [pc EXCEPT ![f] = Rest(f)]
  /\ UNCHANGED <<sent, stamp, files, dropped, lost, now, server, restarts>>

(* zstd, create or write fails: logged, and the popped batch is gone.  What *)
(* was created stays.                                                       *)
WriteFail(f) ==
  /\ Running
  /\ pc[f] \in {"named", "write"}
  /\ lost' = lost \cup Range(batch[f])
  /\ batch' = [batch EXCEPT ![f] = <<>>]
  /\ pc' = [pc EXCEPT ![f] = Rest(f)]
  /\ UNCHANGED <<sent, buffer, stamp, files, dropped, now, server, restarts>>

(* The millisecond a task waits for passes. *)
Tick ==
  /\ \E f \in Tasks : stamp[f] = now
  /\ now' = now + 1
  /\ UNCHANGED <<sent, buffer, pc, batch, stamp, files, dropped, lost,
                 server, restarts>>

-----------------------------------------------------------------------------
(* Ctrl+C or SIGTERM reaches the graceful-shutdown future (plain HTTP): it  *)
(* flushes its sink while requests are still served.                        *)
Signal ==
  /\ server = "up"
  /\ server' = "flushing"
  /\ pc' = [pc EXCEPT !["shutdown_hook"] = "pop"]
  /\ UNCHANGED <<sent, buffer, batch, stamp, files, dropped, lost, now,
                 restarts>>

(* The future is done: the listener closes and in-flight requests drain. *)
HookDone ==
  /\ server = "flushing"
  /\ pc["shutdown_hook"] = "idle"
  /\ server' = "draining"
  /\ UNCHANGED <<sent, buffer, pc, batch, stamp, files, dropped, lost, now,
                 restarts>>

\* Everything in the memory of the process.
InMemory ==
  {r \in Records : \/ \E s \in Sinks : r \in Range(buffer[s])
                   \/ \E f \in Flushers : r \in Range(batch[f])}

\* What the end of the process does to its memory.
Vanish ==
  /\ lost' = lost \cup InMemory
  /\ buffer' = [s \in Sinks |-> <<>>]
  /\ batch' = [f \in Flushers |-> <<>>]
  /\ pc' = [f \in Flushers |-> "idle"]
  /\ UNCHANGED <<sent, stamp, files, dropped, now, restarts>>

(* main() returns: the runtime waits for a write already started, drops the *)
(* tasks and with them what they hold.                                      *)
Exit ==
  /\ server = "draining"
  /\ \A f \in Flushers : pc[f] # "write"
  /\ server' = "exited"
  /\ Vanish

(* A crash, a kill, or any signal when TLS is on (that server has no        *)
(* graceful shutdown).                                                      *)
Crash ==
  /\ Running
  /\ server' = "down"
  /\ Vanish

(* A new process over the same directory; its tasks sleep first. *)
Restart ==
  /\ server \in {"down", "exited"}
  /\ restarts < MaxRestarts
  /\ restarts' = restarts + 1
  /\ server' = "up"
  /\ pc' = [f \in Flushers |-> IF f \in Tasks THEN "sleep" ELSE "idle"]
  /\ stamp' = [f \in Flushers |-> now]
  /\ UNCHANGED <<sent, buffer, batch, files, dropped, lost, now>>

FlushStep(f) ==
  \/ Wake(f) \/ Pop(f) \/ FlushEmpty(f) \/ NameFile(f)
  \/ OpenFile(f) \/ WriteChunk(f) \/ WriteOk(f) \/ WriteFail(f)

Next ==
  \/ Write
  \/ \E f \in Flushers : FlushStep(f)
  \/ Tick \/ Signal \/ HookDone \/ Exit \/ Crash \/ Restart

Spec == Init /\ [][Next]_vars

(* The runtime polls a flush task whose timer fired, file writes return, and *)
(* time passes.  Nothing makes a client write or a signal arrive.            *)
Fairness == WF_vars(Tick) /\ \A f \in Flushers : WF_vars(FlushStep(f))

FairSpec == Spec /\ Fairness

-----------------------------------------------------------------------------
TypeOK ==
  /\ sent \in 0..NumRecords
  /\ buffer \in [Sinks -> Seq(Records)]
  /\ \A s \in Sinks : Len(buffer[s]) <= QueueCapacity
  /\ pc \in [Flushers -> States]
  /\ batch \in [Flushers -> Seq(Records)]
  /\ \A f \in Flushers : Len(batch[f]) <= MaxBufferSize
  /\ stamp \in [Flushers -> Nat]
  /\ files \subseteq File
  /\ dropped \subseteq Records /\ lost \subseteq Records
  /\ now \in Nat
  /\ server \in {"up", "flushing", "draining", "down", "exited"}
  /\ restarts \in 0..MaxRestarts

\* Records in completely written files.
Stored == {r \in Records : \E g \in files : g.complete /\ r \in Range(g.recs)}

(* A record handed to write() never vanishes unnoticed: it is queued, in a  *)
(* flush under way, in a complete file, refused by a full queue, or lost    *)
(* with a failed write or the process.  In particular no flush overwrites   *)
(* the file of an earlier one, also across restarts.                        *)
NoSilentLoss ==
  1..sent \subseteq InMemory \cup Stored \cup dropped \cup lost

\* Sequence s is in write order, without repetition.
Ascending(s) == \A i, j \in DOMAIN s : i < j => s[i] < s[j]

\* Every member of A was written before every member of B.
Before(A, B) == \A a \in A, b \in B : a < b

(* The output keeps the order of the writes and stores no record twice:     *)
(* file names sort the records as they were written, and what is on disk is *)
(* older than what a flush holds, which is older than what is queued.       *)
WriteOrder ==
  /\ Ascending(buffer["app_sink"]) /\ Ascending(batch["app_task"])
  /\ Before(Range(batch["app_task"]), Range(buffer["app_sink"]))
  /\ \A g \in files :
       /\ Ascending(g.recs)
       /\ g.complete =>
            Before(Range(g.recs), Range(batch["app_task"]) \cup Range(buffer["app_sink"]))
  /\ \A g, h \in files :
       g.complete /\ g.name < h.name => Before(Range(g.recs), Range(h.recs))

(* A completely written file is never changed again: no later flush, and no *)
(* flush of a restarted gateway, truncates it.                              *)
FilesImmutable == [][\A g \in files : g.complete => g \in files']_vars

(* When clients stop writing, the gateway keeps nothing back: queue and     *)
(* flushes run empty, to disk (NoSilentLoss), or with a failed write or the *)
(* process.                                                                 *)
EventuallyFlushed == (InMemory # {}) ~> (InMemory = {})

(* Seen from outside the sink is a log that settles every record once: what *)
(* is stored stays and is never given up, what is refused or lost never     *)
(* turns up again, and records reach the disk oldest first, a whole batch   *)
(* at a time, whatever the tasks, the shutdown hook and a restart do.       *)
Log == INSTANCE RecordLog WITH stored <- Stored, gone <- dropped \cup lost

ImplementsRecordLog == Log!Spec

(* main.rs on shutdown: "Flush sink before exit" - a graceful exit leaves   *)
(* nothing queued behind.                                                   *)
FlushedBeforeExit ==
  [][server' = "exited" /\ server # "exited" =>
       \A s \in Sinks : buffer[s] = <<>>]_vars
=============================================================================
