---------------------------- MODULE Propagation ----------------------------
(***************************************************************************)
(* The propagation aggregator (propagation.rs) between the two tasks that  *)
(* use it: the detector task, which adds every announcement it receives    *)
(* (detector_runner.rs), and the task lib.rs starts to flush groups whose  *)
(* observation window has expired.                                         *)
(*                                                                         *)
(* Groups live in a DashMap: a fixed number of shards, each behind a lock  *)
(* that is not reentrant.  add() holds the entry it looked up, and with it *)
(* the write lock of the entry's shard, until it returns; remove() locks   *)
(* the shard of its key; iter() locks one shard after the other.           *)
(*                                                                         *)
(* A timestamp is the number of the record that brought it.  Records that  *)
(* process_record() does not pass on to the aggregator (withdrawals,       *)
(* announcements that RPKI finds valid) are stuttering steps here.         *)
(***************************************************************************)
EXTENDS Integers, FiniteSets

CONSTANTS Keys,            \* group keys: prefix, origin AS and path hash
          UnparsableKeys,  \* those whose prefix is not an IP network
          NumShards,       \* shards of the map
          ShardOf,         \* [Keys -> 1..NumShards]
          Collectors,
          WaveDetector,    \* a wave detector is attached
          NumRecords       \* bound: announcements received

Shards == 1..NumShards

ASSUME UnparsableAssumption == UnparsableKeys \subseteq Keys
ASSUME ShardAssumption == NumShards \in Nat /\ ShardOf \in [Keys -> Shards]
ASSUME WaveAssumption == WaveDetector \in BOOLEAN
ASSUME RecordsAssumption == NumRecords \in Nat

Tasks == {"detector", "flusher"}

VARIABLES
  received,   \* announcements received; record r is the r-th
  pending,    \* [Keys -> Group]: the DashMap
  lock,       \* [Shards -> holder of the write lock, or "free"]
  pc,         \* [Tasks -> where the task is]
  record,     \* the record the detector works on
  cursor,     \* shard the flusher's iterator locks next
  want,       \* [Tasks -> keys it is about to remove]
  events,     \* [Tasks -> PropagationEvents it has built and not yet scored]
  scored,     \* PropagationEvents scored so far
  superseded, \* arrivals replaced by a later one of the same collector
  discarded   \* arrivals of removed groups whose prefix does not parse

vars == <<received, pending, lock, pc, record, cursor, want, events, scored,
          superseded, discarded>>

Arrivals == [Collectors -> 0..NumRecords]    \* 0: none yet
Group == [open: BOOLEAN, expired: BOOLEAN, arrivals: Arrivals]
Event == [key: Keys, expired: BOOLEAN, arrivals: Arrivals]
Record == [key: Keys, collector: Collectors]

NoGroup == [open |-> FALSE, expired |-> FALSE, arrivals |-> [c \in Collectors |-> 0]]

\* The records behind the arrivals a.
RecordsOf(a) == {a[c] : c \in Collectors} \ {0}

Rest(t) == IF t = "detector" THEN "recv" ELSE "sleep"

Init ==
  /\ received = 0
  /\ pending = [k \in Keys |-> NoGroup]
  /\ lock = [s \in Shards |-> "free"]
  /\ pc = [t \in Tasks |-> Rest(t)]
  /\ record \in Record
  /\ cursor = 1
  /\ want = [t \in Tasks |-> {}]
  /\ events = [t \in Tasks |-> {}]
  /\ scored = {} /\ superseded = {} /\ discarded = {}

-----------------------------------------------------------------------------
(* The detector task receives the next announcement. *)
Receive(r) ==
  /\ pc["detector"] = "recv"
  /\ received < NumRecords
  /\ received' = received + 1
  /\ record' = r
  /\ pc' = [pc EXCEPT !["detector"] = "add"]
  /\ UNCHANGED <<pending, lock, cursor, want, events, scored, superseded, discarded>>

\* Mutation: the arrival is entered with the time of the next record.
WithNextArrival(k) ==
  [open |-> TRUE, expired |-> pending[k].expired,
   arrivals |-> [pending[k].arrivals EXCEPT ![record.collector] = received + 1]]

\* Group k with the arrival of the record at hand; created if it is new.
WithArrival(k) ==
  [open |-> TRUE, expired |-> pending[k].expired,
   arrivals |-> [pending[k].arrivals EXCEPT ![record.collector] = received]]

\* The arrival that the insertion replaces.
Replaced(k) == {pending[k].arrivals[record.collector]} \ {0}

\* add() up to the check of the window: look the group up, under the lock of
\* its shard, and insert the arrival.
InsertArrival ==
  /\ pc["detector"] = "add"
  /\ lock[ShardOf[record.key]] = "free"
  /\ pending' = [pending EXCEPT ![record.key] = WithArrival(record.key)]
  /\ superseded' = superseded \cup Replaced(record.key)

(* add(): the window is open; the entry is dropped and nothing is returned. *)
AddYoung ==
  /\ InsertArrival
  /\ ~pending[record.key].expired
  /\ pc' = [pc EXCEPT !["detector"] = Rest("detector")]
  /\ UNCHANGED <<received, lock, record, cursor, want, events, scored, discarded>>

\* Mutation: the entry is dropped before the group is removed.
AddExpiredUnlocks ==
  /\ InsertArrival
  /\ pending[record.key].expired
  /\ want' = [want EXCEPT !["detector"] = {record.key}]
  /\ pc' = [pc EXCEPT !["detector"] = "remove"]
  /\ UNCHANGED <<received, lock, record, cursor, events, scored, discarded>>

(* add(): the window is over; the group is to be removed, with the entry    *)
(* and so the lock of its shard still held.                                 *)
AddExpired ==
  /\ InsertArrival
  /\ pending[record.key].expired
  /\ lock' = [lock EXCEPT ![ShardOf[record.key]] = "detector"]
  /\ want' = [want EXCEPT !["detector"] = {record.key}]
  /\ pc' = [pc EXCEPT !["detector"] = "remove"]
  /\ UNCHANGED <<received, record, cursor, events, scored, discarded>>

-----------------------------------------------------------------------------
(* The interval of the flush task ticks.  Without a wave detector           *)
(* flush_propagation_events() returns at once.                              *)
FlushTick ==
  /\ WaveDetector
  /\ pc["flusher"] = "sleep"
  /\ pc' = [pc EXCEPT !["flusher"] = "collect"]
  /\ cursor' = 1
  /\ UNCHANGED <<received, pending, lock, record, want, events, scored,
                 superseded, discarded>>

\* The keys of shard s that flush_expired() picks.
ExpiredIn(s) ==
  {k \in Keys : ShardOf[k] = s /\ pending[k].open /\ pending[k].expired}

\* Mutation: the iterator stops after the first shard.
CollectFirstOnly ==
  /\ pc["flusher"] = "collect"
  /\ cursor \in Shards
  /\ lock[cursor] = "free"
  /\ want' = [want EXCEPT !["flusher"] = @ \cup ExpiredIn(cursor)]
  /\ cursor' = NumShards + 1
  /\ UNCHANGED <<received, pending, lock, pc, record, events, scored,
                 superseded, discarded>>

(* flush_expired(), first half: the keys of the expired groups of a shard.  *)
Collect ==
  /\ pc["flusher"] = "collect"
  /\ cursor \in Shards
  /\ lock[cursor] = "free"
  /\ want' = [want EXCEPT !["flusher"] = @ \cup ExpiredIn(cursor)]
  /\ cursor' = cursor + 1
  /\ UNCHANGED <<received, pending, lock, pc, record, events, scored,
                 superseded, discarded>>

(* Every shard has been visited. *)
CollectDone ==
  /\ pc["flusher"] = "collect"
  /\ cursor > NumShards
  /\ pc' = [pc EXCEPT !["flusher"] = "remove"]
  /\ UNCHANGED <<received, pending, lock, record, cursor, want, events, scored,
                 superseded, discarded>>

-----------------------------------------------------------------------------
\* The event built from group k.
EventOf(k) ==
  [key |-> k, expired |-> pending[k].expired, arrivals |-> pending[k].arrivals]

\* Mutation: remove() does not take the lock of the shard.
RemoveUnlocked(t, k) ==
  /\ pc[t] = "remove" /\ k \in want[t]
  /\ want' = [want EXCEPT ![t] = @ \ {k}]
  /\ pending' = [pending EXCEPT ![k] = NoGroup]
  /\ events' = [events EXCEPT ![t] = @ \cup {EventOf(k)}]
  /\ UNCHANGED <<received, lock, pc, record, cursor, scored, superseded, discarded>>

(* DashMap::remove, and the event built from what it returns: nothing if    *)
(* the group is gone or its prefix does not parse.  The second half of      *)
(* flush_expired() and the end of add() both call it; no window is checked. *)
Remove(t, k) ==
  /\ pc[t] = "remove" /\ k \in want[t]
  /\ lock[ShardOf[k]] = "free"
  /\ want' = [want EXCEPT ![t] = @ \ {k}]
  /\ pending' = [pending EXCEPT ![k] = NoGroup]
  /\ IF k \in UnparsableKeys
     THEN /\ discarded' = discarded \cup RecordsOf(pending[k].arrivals)
          /\ UNCHANGED events
     ELSE /\ events' = [events EXCEPT ![t] =
                          @ \cup (IF pending[k].open THEN {EventOf(k)} ELSE {})]
          /\ UNCHANGED discarded
  /\ UNCHANGED <<received, lock, pc, record, cursor, scored, superseded>>

\* Locks after task t has dropped its entry.
Released(t) == [s \in Shards |-> IF lock[s] = t THEN "free" ELSE lock[s]]

(* add() or flush_expired() returns. *)
RemovesDone(t) ==
  /\ pc[t] = "remove" /\ want[t] = {}
  /\ lock' = Released(t)
  /\ pc' = [pc EXCEPT ![t] = "score"]
  /\ UNCHANGED <<received, pending, record, cursor, want, events, scored,
                 superseded, discarded>>

\* Mutation: only the first event of a flush is scored.
ScoreFirstOnly(t, e) ==
  /\ pc[t] = "score" /\ e \in events[t]
  /\ scored' = scored \cup {e}
  /\ events' = [events EXCEPT ![t] = {}]
  /\ UNCHANGED <<received, pending, lock, pc, record, cursor, want, superseded,
                 discarded>>

(* score_propagation_event() of the next event. *)
Score(t, e) ==
  /\ pc[t] = "score" /\ e \in events[t]
  /\ scored' = scored \cup {e}
  /\ events' = [events EXCEPT ![t] = @ \ {e}]
  /\ UNCHANGED <<received, pending, lock, pc, record, cursor, want, superseded,
                 discarded>>

(* Nothing left to score: back to the channel, or to the interval. *)
ScoresDone(t) ==
  /\ pc[t] = "score" /\ events[t] = {}
  /\ pc' = [pc EXCEPT ![t] = Rest(t)]
  /\ UNCHANGED <<received, pending, lock, record, cursor, want, events, scored,
                 superseded, discarded>>

(* Ten seconds have passed since the first arrival of group k. *)
Expire(k) ==
  /\ pending[k].open /\ ~pending[k].expired
  /\ pending' = [pending EXCEPT ![k].expired = TRUE]
  /\ UNCHANGED <<received, lock, pc, record, cursor, want, events, scored,
                 superseded, discarded>>

TaskStep(t) ==
  \/ t = "detector" /\ (AddYoung \/ AddExpired)
  \/ t = "flusher" /\ (FlushTick \/ Collect \/ CollectDone)
  \/ (\E k \in Keys : Remove(t, k))
  \/ RemovesDone(t)
  \/ (\E e \in events[t] : Score(t, e))
  \/ ScoresDone(t)

Next ==
  \/ \E r \in Record : Receive(r)
  \/ \E t \in Tasks : TaskStep(t)
  \/ \E k \in Keys : Expire(k)

Spec == Init /\ [][Next]_vars

(* Both tasks are polled, and time passes.  Nothing makes a record arrive.  *)
Fairness ==
  /\ \A t \in Tasks : WF_vars(TaskStep(t))
  /\ \A k \in Keys : WF_vars(Expire(k))

FairSpec == Spec /\ Fairness

-----------------------------------------------------------------------------
TypeOK ==
  /\ received \in 0..NumRecords
  /\ pending \in [Keys -> Group]
  /\ lock \in [Shards -> Tasks \cup {"free"}]
  /\ pc \in [Tasks -> {"recv", "add", "sleep", "collect", "remove", "score"}]
  /\ record \in Record
  /\ cursor \in 1..(NumShards + 1)
  /\ want \in [Tasks -> SUBSET Keys]
  /\ events \in [Tasks -> SUBSET Event]
  /\ scored \subseteq Event
  /\ superseded \subseteq 1..NumRecords /\ discarded \subseteq 1..NumRecords

\* The events built so far.
Built == scored \cup UNION {events[t] : t \in Tasks}

\* Records whose arrival has been inserted: not the one still on its way to add().
Added == 1..(IF pc["detector"] = "add" THEN received - 1 ELSE received)

(* Every arrival is accounted for: it is in a pending group, in an event,   *)
(* replaced by a later arrival at the same collector, or discarded with an  *)
(* unparsable prefix - and in an event only if no longer pending, though    *)
(* the flush task and the detector work on the same groups.                 *)
ArrivalsAccounted ==
  LET waiting == UNION {RecordsOf(pending[k].arrivals) : k \in Keys}
      built   == UNION {RecordsOf(e.arrivals) : e \in Built}
  IN  /\ Added = waiting \cup built \cup superseded \cup discarded
      /\ waiting \cap built = {}

(* A group becomes an event only after its window has expired, although     *)
(* flush_expired() collects keys first and removes them later without       *)
(* looking at their window again.                                           *)
WindowOver == \A e \in Built : e.expired

\* The detector waits inside add() for a lock it holds itself.
SelfDeadlocked ==
  pc["detector"] = "remove" /\ lock[ShardOf[record.key]] = "detector"

(* Every group is flushed some time after its window, also when no further  *)
(* record for it arrives - unless the detector has deadlocked.              *)
GroupsFlushed ==
  WaveDetector =>
    \A k \in Keys : pending[k].open ~> (~pending[k].open \/ SelfDeadlocked)

(* Nothing the flush task does or the passing of time brings a deadlocked   *)
(* detector back: a record for a group past its window stops it for good.   *)
DeadlockIsFinal == [][SelfDeadlocked => SelfDeadlocked']_vars

(* propagation.rs on add(): "Gibt ein fertiges PropagationEvent zurueck wenn *)
(* das Zeitfenster abgelaufen ist" - a record that finds the window of its  *)
(* group expired gets through add().                                        *)
ExpiredGroupCompletes ==
  (pc["detector"] = "remove") ~> (pc["detector"] = "recv")
=============================================================================
