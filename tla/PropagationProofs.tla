------------------------- MODULE PropagationProofs -------------------------
(***************************************************************************)
(* Propagation for any number of groups, shards and collectors: type       *)
(* correctness, that only expired groups become events, and that a         *)
(* detector that finds the window of a group expired never moves again.    *)
(***************************************************************************)
EXTENDS Propagation, TLAPS

(* The assumptions on the constants. *)
LEMMA Constants ==
  /\ NumRecords \in Nat /\ NumShards \in Nat
  /\ \A k \in Keys : ShardOf[k] \in Shards
  /\ UnparsableKeys \subseteq Keys
BY RecordsAssumption, ShardAssumption, UnparsableAssumption

(* Records behind arrivals are records. *)
LEMMA RecordsOfType == \A a \in Arrivals : RecordsOf(a) \subseteq 1..NumRecords
BY Constants DEF Arrivals, RecordsOf

(* The insertion of an arrival keeps the types. *)
LEMMA InsertType ==
  ASSUME TypeOK, InsertArrival
  PROVE  /\ pending' \in [Keys -> Group]
         /\ superseded' \subseteq 1..NumRecords
<1> DEFINE k == record.key
           c == record.collector
<1>1. k \in Keys /\ c \in Collectors BY DEF TypeOK, Record
<1>2. pending[k] \in Group /\ pending[k].arrivals \in Arrivals
  BY <1>1 DEF TypeOK, Group
<1>3. WithArrival(k) \in Group
  <2>1. [pending[k].arrivals EXCEPT ![c] = received] \in Arrivals
    BY <1>1, <1>2 DEF TypeOK, Arrivals
  <2>2. WithArrival(k) = [open |-> TRUE, expired |-> pending[k].expired,
          arrivals |-> [pending[k].arrivals EXCEPT ![c] = received]]
    BY DEF WithArrival
  <2> QED BY <1>2, <2>1, <2>2 DEF Group
<1>4. Replaced(k) \subseteq 1..NumRecords
  BY <1>1, <1>2, Constants DEF Replaced, Arrivals
<1> QED BY <1>1, <1>3, <1>4 DEF InsertArrival, TypeOK

(* An event built from a group is an event. *)
LEMMA EventType == ASSUME TypeOK, NEW k \in Keys PROVE EventOf(k) \in Event
BY DEF TypeOK, Group, Event, EventOf

(* The empty slot of the map is typed like a group. *)
LEMMA NoGroupType == NoGroup \in Group
BY Constants DEF NoGroup, Group, Arrivals

(* Every step keeps the types. *)
LEMMA TypeStep == TypeOK /\ [Next]_vars => TypeOK'
<1> SUFFICES ASSUME TypeOK, [Next]_vars PROVE TypeOK'
  OBVIOUS
<1> USE Constants
<1> "detector" \in Tasks /\ "flusher" \in Tasks BY DEF Tasks
<1>1. ASSUME NEW r \in Record, Receive(r) PROVE TypeOK'
  BY <1>1 DEF Receive, TypeOK
<1>2. ASSUME NEW t \in Tasks, TaskStep(t) PROVE TypeOK'
  <2>1. CASE AddYoung
    BY <2>1, InsertType DEF AddYoung, TypeOK, Rest
  <2>2. CASE AddExpired
    <3>1. record.key \in Keys BY DEF TypeOK, Record
    <3> QED BY <2>2, <3>1, InsertType DEF AddExpired, TypeOK
  <2>3. CASE FlushTick BY <2>3 DEF FlushTick, TypeOK
  <2>4. CASE Collect
    <3>1. ExpiredIn(cursor) \subseteq Keys BY DEF ExpiredIn
    <3> QED BY <2>4, <3>1 DEF Collect, TypeOK, Shards
  <2>5. CASE CollectDone BY <2>5 DEF CollectDone, TypeOK
  <2>6. ASSUME NEW k \in Keys, Remove(t, k) PROVE TypeOK'
    <3>1. pending' \in [Keys -> Group] BY <2>6, NoGroupType DEF Remove, TypeOK
    <3>2. want' \in [Tasks -> SUBSET Keys] BY <2>6 DEF Remove, TypeOK
    <3>3. events' \in [Tasks -> SUBSET Event]
      BY <2>6, EventType DEF Remove, TypeOK
    <3>4. discarded' \subseteq 1..NumRecords
      <4>1. pending[k].arrivals \in Arrivals BY DEF TypeOK, Group
      <4> QED BY <2>6, <4>1, RecordsOfType DEF Remove, TypeOK
    <3> QED BY <2>6, <3>1, <3>2, <3>3, <3>4 DEF Remove, TypeOK
  <2>7. CASE RemovesDone(t) BY <2>7 DEF RemovesDone, Released, TypeOK
  <2>8. ASSUME NEW e \in events[t], Score(t, e) PROVE TypeOK'
    BY <2>8 DEF Score, TypeOK
  <2>9. CASE ScoresDone(t) BY <2>9 DEF ScoresDone, Rest, TypeOK
  <2> QED BY <1>2, <2>1, <2>2, <2>3, <2>4, <2>5, <2>6, <2>7, <2>8, <2>9
        DEF TaskStep
<1>3. ASSUME NEW k \in Keys, Expire(k) PROVE TypeOK'
  <2>1. pending[k] \in Group BY DEF TypeOK
  <2>2. [pending[k] EXCEPT !.expired = TRUE] \in Group BY <2>1 DEF Group
  <2> QED BY <1>3, <2>2 DEF Expire, TypeOK
<1>4. CASE UNCHANGED vars BY <1>4 DEF vars, TypeOK
<1> QED BY <1>1, <1>2, <1>3, <1>4 DEF Next

-----------------------------------------------------------------------------
(* A detector about to remove a group holds the lock it needs for that. *)
HoldsItsLock ==
  pc["detector"] = "remove" =>
    want["detector"] = {record.key} /\ lock[ShardOf[record.key]] = "detector"

(* The keys the flush task has collected are those of expired groups still  *)
(* in the map.                                                              *)
CollectedExpired ==
  \A k \in want["flusher"] : pending[k].open /\ pending[k].expired

IndInv == TypeOK /\ HoldsItsLock /\ CollectedExpired /\ WindowOver

(* The initial states satisfy the inductive invariant. *)
LEMMA InitIndInv == Init => IndInv
<1> SUFFICES ASSUME Init PROVE IndInv
  OBVIOUS
<1>1. TypeOK BY Constants, NoGroupType DEF Init, TypeOK, Rest, Tasks
<1>2. HoldsItsLock BY DEF Init, HoldsItsLock, Rest, Tasks
<1>3. CollectedExpired BY DEF Init, CollectedExpired, Tasks
<1>4. WindowOver BY DEF Init, WindowOver, Built, Tasks
<1> QED BY <1>1, <1>2, <1>3, <1>4 DEF IndInv

(* The detector's wait for its own lock is kept by every step. *)
LEMMA LockStep == IndInv /\ [Next]_vars => HoldsItsLock'
<1> SUFFICES ASSUME IndInv, [Next]_vars PROVE HoldsItsLock'
  OBVIOUS
<1> USE Constants DEF IndInv, HoldsItsLock
<1>0. "detector" \in Tasks /\ "flusher" \in Tasks /\ record.key \in Keys
  BY DEF Tasks, TypeOK, Record
<1>1. ASSUME NEW r \in Record, Receive(r) PROVE HoldsItsLock'
  BY <1>0, <1>1 DEF Receive, TypeOK
<1>2. ASSUME NEW t \in Tasks, TaskStep(t) PROVE HoldsItsLock'
  <2>1. CASE AddYoung BY <1>0, <2>1 DEF AddYoung, TypeOK, Rest
  <2>2. CASE AddExpired BY <1>0, <2>2 DEF AddExpired, InsertArrival, TypeOK
  <2>3. CASE FlushTick BY <1>0, <2>3 DEF FlushTick, TypeOK
  <2>4. CASE Collect BY <1>0, <2>4 DEF Collect, TypeOK
  <2>5. CASE CollectDone BY <1>0, <2>5 DEF CollectDone, TypeOK
  <2>6. ASSUME NEW k \in Keys, Remove(t, k) PROVE HoldsItsLock'
    <3>1. t # "detector" BY <1>0, <2>6 DEF Remove
    <3> QED BY <1>0, <2>6, <3>1 DEF Remove, TypeOK
  <2>7. CASE RemovesDone(t)
    <3>1. t # "detector" BY <1>0, <2>7 DEF RemovesDone
    <3> QED BY <1>0, <2>7, <3>1 DEF RemovesDone, Released, TypeOK
  <2>8. ASSUME NEW e \in events[t], Score(t, e) PROVE HoldsItsLock'
    BY <2>8 DEF Score
  <2>9. CASE ScoresDone(t) BY <1>0, <2>9 DEF ScoresDone, Rest, TypeOK
  <2> QED BY <1>2, <2>1, <2>2, <2>3, <2>4, <2>5, <2>6, <2>7, <2>8, <2>9
        DEF TaskStep
<1>3. ASSUME NEW k \in Keys, Expire(k) PROVE HoldsItsLock'
  BY <1>3 DEF Expire
<1>4. CASE UNCHANGED vars BY <1>4 DEF vars
<1> QED BY <1>1, <1>2, <1>3, <1>4 DEF Next

(* What the flush task has collected stays expired: only its own remove()   *)
(* takes a group away, and no group is created under a key that is there.   *)
LEMMA CollectedStep == IndInv /\ [Next]_vars => CollectedExpired'
<1> SUFFICES ASSUME IndInv, [Next]_vars PROVE CollectedExpired'
  OBVIOUS
<1> USE Constants DEF IndInv, CollectedExpired
<1>0. /\ "detector" \in Tasks /\ "flusher" \in Tasks /\ record.key \in Keys
      /\ want["flusher"] \subseteq Keys
      /\ \A k \in Keys : pending[k] \in Group
  BY DEF Tasks, TypeOK, Record
<1>1. ASSUME NEW r \in Record, Receive(r) PROVE CollectedExpired'
  BY <1>1 DEF Receive
<1>2. ASSUME NEW t \in Tasks, TaskStep(t) PROVE CollectedExpired'
  <2>0. ASSUME InsertArrival, want'["flusher"] = want["flusher"]
        PROVE  CollectedExpired'
    <3>1. /\ WithArrival(record.key).open
          /\ WithArrival(record.key).expired = pending[record.key].expired
      BY <1>0 DEF WithArrival, Group
    <3> QED BY <1>0, <2>0, <3>1 DEF InsertArrival, TypeOK
  <2>1. CASE AddYoung BY <2>0, <2>1 DEF AddYoung
  <2>2. CASE AddExpired BY <1>0, <2>0, <2>2 DEF AddExpired, TypeOK
  <2>3. CASE FlushTick BY <2>3 DEF FlushTick
  <2>4. CASE Collect BY <1>0, <2>4 DEF Collect, ExpiredIn, TypeOK
  <2>5. CASE CollectDone BY <2>5 DEF CollectDone
  <2>6. ASSUME NEW k \in Keys, Remove(t, k) PROVE CollectedExpired'
    <3>1. t = "flusher" BY <1>0, <2>6 DEF Remove, HoldsItsLock, Tasks
    <3> QED BY <1>0, <2>6, <3>1 DEF Remove, TypeOK
  <2>7. CASE RemovesDone(t) BY <2>7 DEF RemovesDone
  <2>8. ASSUME NEW e \in events[t], Score(t, e) PROVE CollectedExpired'
    BY <2>8 DEF Score
  <2>9. CASE ScoresDone(t) BY <2>9 DEF ScoresDone
  <2> QED BY <1>2, <2>1, <2>2, <2>3, <2>4, <2>5, <2>6, <2>7, <2>8, <2>9
        DEF TaskStep
<1>3. ASSUME NEW k \in Keys, Expire(k) PROVE CollectedExpired'
  <2>1. [pending[k] EXCEPT !.expired = TRUE].open = pending[k].open
        /\ [pending[k] EXCEPT !.expired = TRUE].expired
    BY <1>0 DEF Group
  <2> QED BY <1>0, <1>3, <2>1 DEF Expire, TypeOK
<1>4. CASE UNCHANGED vars BY <1>4 DEF vars
<1> QED BY <1>1, <1>2, <1>3, <1>4 DEF Next

(* Only expired groups become events. *)
LEMMA WindowStep == IndInv /\ [Next]_vars => WindowOver'
<1> SUFFICES ASSUME IndInv, [Next]_vars PROVE WindowOver'
  OBVIOUS
<1> USE DEF IndInv, WindowOver, Built
<1>0. "detector" \in Tasks /\ "flusher" \in Tasks /\ record.key \in Keys
  BY DEF Tasks, TypeOK, Record
<1>1. CASE UNCHANGED <<events, scored>> BY <1>1
<1>2. ASSUME NEW t \in Tasks, NEW k \in Keys, Remove(t, k) PROVE WindowOver'
  <2>1. t = "flusher" BY <1>0, <1>2 DEF Remove, HoldsItsLock, Tasks
  <2>2. EventOf(k).expired
    BY <1>2, <2>1 DEF Remove, EventOf, CollectedExpired
  <2> QED BY <1>2, <2>2 DEF Remove, TypeOK
<1>3. ASSUME NEW t \in Tasks, NEW e \in events[t], Score(t, e) PROVE WindowOver'
  BY <1>3 DEF Score, TypeOK
<1>4. QED
  BY <1>1, <1>2, <1>3 DEF Next, TaskStep, Receive, AddYoung, AddExpired,
     FlushTick, Collect, CollectDone, RemovesDone, ScoresDone, Expire, vars

(* IndInv is an invariant. *)
LEMMA Invariance == Spec => []IndInv
<1>1. IndInv /\ [Next]_vars => IndInv'
  BY TypeStep, LockStep, CollectedStep, WindowStep DEF IndInv
<1> QED BY InitIndInv, <1>1, PTL DEF Spec

(* A detector about to remove a group is deadlocked, and takes no step. *)
LEMMA BlockedStep == IndInv /\ [Next]_vars => (SelfDeadlocked => SelfDeadlocked')
<1> SUFFICES ASSUME IndInv, [Next]_vars, SelfDeadlocked PROVE SelfDeadlocked'
  OBVIOUS
<1>0. "detector" \in Tasks /\ record.key \in Keys
  BY DEF Tasks, IndInv, TypeOK, Record
<1>1. pc["detector"] = "remove" /\ want["detector"] = {record.key}
      /\ lock[ShardOf[record.key]] = "detector"
  BY DEF SelfDeadlocked, IndInv, HoldsItsLock
<1>2. HoldsItsLock' BY LockStep
<1>3. pc'["detector"] = "remove"
  <2> USE <1>0, <1>1 DEF IndInv, TypeOK
  <2>1. ASSUME NEW r \in Record, Receive(r) PROVE pc'["detector"] = "remove"
    BY <2>1 DEF Receive
  <2>2. ASSUME NEW t \in Tasks, TaskStep(t) PROVE pc'["detector"] = "remove"
    BY <2>2 DEF TaskStep, AddYoung, AddExpired, InsertArrival, FlushTick, Collect,
       CollectDone, Remove, RemovesDone, Score, ScoresDone
  <2>3. ASSUME NEW k \in Keys, Expire(k) PROVE pc'["detector"] = "remove"
    BY <2>3 DEF Expire
  <2>4. CASE UNCHANGED vars BY <2>4 DEF vars
  <2> QED BY <2>1, <2>2, <2>3, <2>4 DEF Next
<1> QED BY <1>2, <1>3 DEF HoldsItsLock, SelfDeadlocked

-----------------------------------------------------------------------------
(* The accounting of arrivals, record by record. *)
Waiting(r) == \E k \in Keys, c \in Collectors : pending[k].arrivals[c] = r
InBuilt(e) == e \in scored \/ \E t \in Tasks : e \in events[t]
InEvent(r) == \E e \in Event, c \in Collectors : InBuilt(e) /\ e.arrivals[c] = r
Count == IF pc["detector"] = "add" THEN received - 1 ELSE received

Balanced(r) ==
  /\ r \in 1..Count <=>
       Waiting(r) \/ InEvent(r) \/ r \in superseded \/ r \in discarded
  /\ ~(Waiting(r) /\ InEvent(r))

Account == \A r \in 1..NumRecords : Balanced(r)

(* No record is the arrival of two collectors or in two groups. *)
Unique ==
  \A k, l \in Keys, c, d \in Collectors :
    pending[k].arrivals[c] = pending[l].arrivals[d] /\ pending[k].arrivals[c] # 0
      => k = l /\ c = d

AccInv == IndInv /\ Account /\ Unique /\ Count \in 0..NumRecords

(* Steps that leave groups, events and the count of records alone. *)
LEMMA AccountUnchanged ==
  ASSUME AccInv, UNCHANGED <<pending, events, scored, superseded, discarded, Count>>
  PROVE  (Account /\ Unique /\ Count \in 0..NumRecords)'
BY DEF AccInv, Account, Balanced, Waiting, InEvent, InBuilt, Unique

(* add() accounts for the record at hand and for the one it replaces. *)
LEMMA AccountInsert ==
  ASSUME AccInv, InsertArrival, pc'["detector"] # "add",
         UNCHANGED <<received, events, scored, discarded>>
  PROVE  (Account /\ Unique /\ Count \in 0..NumRecords)'
<1> DEFINE k0 == record.key
           c0 == record.collector
           old == pending[k0].arrivals[c0]
<1>1. /\ k0 \in Keys /\ c0 \in Collectors /\ received \in 0..NumRecords
      /\ \A k \in Keys : pending[k].arrivals \in Arrivals
  BY DEF AccInv, IndInv, TypeOK, Record, Group
<1>2. \A k \in Keys, c \in Collectors :
        pending'[k].arrivals[c] =
          IF k = k0 /\ c = c0 THEN received ELSE pending[k].arrivals[c]
  BY <1>1 DEF InsertArrival, WithArrival, AccInv, IndInv, TypeOK, Arrivals
<1>3. Count = received - 1 /\ Count' = received /\ received \in 1..NumRecords
  BY <1>1, Constants DEF InsertArrival, Count, AccInv
<1>4. superseded' = superseded \cup ({old} \ {0})
  BY DEF InsertArrival, Replaced
<1>5. old \in 0..NumRecords BY <1>1 DEF Arrivals
<1>6. \A r \in 1..NumRecords : InEvent(r)' <=> InEvent(r)
  BY DEF InEvent, InBuilt
<1>7. ~Waiting(received) /\ ~InEvent(received) /\ received \notin superseded
      /\ received \notin discarded
  BY <1>3 DEF AccInv, Account, Balanced
<1>8. Waiting(received)' BY <1>1, <1>2 DEF Waiting
<1>9. ASSUME NEW r \in 1..NumRecords, r # received
      PROVE  /\ Waiting(r)' => Waiting(r)
             /\ Waiting(r) => Waiting(r)' \/ r = old
  BY <1>1, <1>2, <1>9 DEF Waiting
<1>10. old # 0 => Waiting(old) BY <1>1 DEF Waiting
<1>11. Account'
  <2> SUFFICES ASSUME NEW r \in 1..NumRecords PROVE Balanced(r)'
    BY DEF Account
  <2>1. CASE r = received
    BY <2>1, <1>3, <1>6, <1>7, <1>8 DEF Balanced
  <2>2. CASE r # received
    <3>1. Balanced(r) BY DEF AccInv, Account
    <3>2. r \in 1..Count <=> r \in 1..received BY <1>3, <2>2
    <3>3. r \in superseded' <=> r \in superseded \/ r = old BY <1>4
    <3>4. r = old => Waiting(r) BY <1>10
    <3> HIDE DEF old
    <3> QED BY <1>3, <1>6, <1>9, <2>2, <3>1, <3>2, <3>3, <3>4 DEF Balanced
  <2> QED BY <2>1, <2>2
<1>12. Unique'
  <2>1. \A k \in Keys, c \in Collectors : pending[k].arrivals[c] # received
    BY <1>7 DEF Waiting
  <2> QED BY <1>1, <1>2, <2>1 DEF AccInv, Unique
<1> QED BY <1>3, <1>11, <1>12

(* remove() moves the arrivals of a group to an event, or discards them. *)
LEMMA AccountRemove ==
  ASSUME AccInv, NEW t \in Tasks, NEW k0 \in Keys, Remove(t, k0)
  PROVE  (Account /\ Unique /\ Count \in 0..NumRecords)'
<1> DEFINE In(r) == \E c \in Collectors : pending[k0].arrivals[c] = r
<1>0. "detector" \in Tasks BY DEF Tasks
<1>1. t = "flusher" /\ pending[k0].open
  BY DEF AccInv, IndInv, Remove, HoldsItsLock, CollectedExpired, Tasks
<1>2. \A k \in Keys, c \in Collectors :
        pending'[k].arrivals[c] = IF k = k0 THEN 0 ELSE pending[k].arrivals[c]
  BY DEF Remove, NoGroup, AccInv, IndInv, TypeOK
<1>3. Count' = Count BY DEF Remove, Count
<1>4. \A r \in 1..NumRecords : Waiting(r) <=> Waiting(r)' \/ In(r)
  BY <1>2 DEF Waiting
<1>5. \A r \in 1..NumRecords : In(r) => ~Waiting(r)'
  BY <1>2 DEF Waiting, AccInv, Unique
<1>6. Unique' BY <1>2 DEF AccInv, Unique
<1>7. Account'
  <2> SUFFICES ASSUME NEW r \in 1..NumRecords PROVE Balanced(r)'
    BY DEF Account
  <2>1. Balanced(r) BY DEF AccInv, Account
  <2>2. superseded' = superseded BY DEF Remove
  <2>3. (Waiting(r) <=> Waiting(r)' \/ In(r)) /\ (In(r) => ~Waiting(r)')
    BY <1>4, <1>5
  <2>4. CASE k0 \in UnparsableKeys
    <3>1. r \in discarded' <=> r \in discarded \/ In(r)
      BY <2>4 DEF Remove, RecordsOf
    <3>2. InEvent(r)' <=> InEvent(r) BY <2>4 DEF Remove, InEvent, InBuilt
    <3> HIDE DEF In
    <3> QED BY <1>3, <2>1, <2>2, <2>3, <3>1, <3>2 DEF Balanced
  <2>5. CASE k0 \notin UnparsableKeys
    <3>1. discarded' = discarded BY <2>5 DEF Remove
    <3>2. \A e : InBuilt(e)' <=> InBuilt(e) \/ e = EventOf(k0)
      BY <1>1, <2>5 DEF Remove, InBuilt, AccInv, IndInv, TypeOK
    <3>3. EventOf(k0) \in Event /\ EventOf(k0).arrivals = pending[k0].arrivals
      BY EventType DEF EventOf, AccInv, IndInv
    <3>4. InEvent(r)' <=> InEvent(r) \/ In(r) BY <3>2, <3>3 DEF InEvent
    <3> HIDE DEF In
    <3> QED BY <1>3, <2>1, <2>2, <2>3, <3>1, <3>4 DEF Balanced
  <2> QED BY <2>4, <2>5
<1> QED BY <1>3, <1>6, <1>7 DEF AccInv

(* Every step keeps the account of the arrivals. *)
LEMMA AccountStep ==
  AccInv /\ [Next]_vars => (Account /\ Unique /\ Count \in 0..NumRecords)'
<1> SUFFICES ASSUME AccInv, [Next]_vars
             PROVE  (Account /\ Unique /\ Count \in 0..NumRecords)'
  OBVIOUS
<1> DEFINE Goal == (Account /\ Unique /\ Count \in 0..NumRecords)'
<1>0. "detector" \in Tasks /\ pc \in [Tasks -> {"recv", "add", "sleep", "collect", "remove", "score"}]
  BY DEF Tasks, AccInv, IndInv, TypeOK
<1>1. ASSUME NEW r \in Record, Receive(r) PROVE Goal
  <2>1. Count' = Count
    BY <1>0, <1>1, Constants DEF Receive, Count, AccInv, IndInv, TypeOK
  <2> QED BY <1>1, <2>1, AccountUnchanged DEF Receive
<1>2. ASSUME NEW t \in Tasks, TaskStep(t) PROVE Goal
  <2>1. CASE AddYoung
    BY <1>0, <2>1, AccountInsert DEF AddYoung, Rest
  <2>2. CASE AddExpired
    BY <1>0, <2>2, AccountInsert DEF AddExpired
  <2>3. CASE FlushTick \/ Collect \/ CollectDone
    <3>1. Count' = Count
      BY <1>0, <2>3 DEF FlushTick, Collect, CollectDone, Count
    <3> QED BY <2>3, <3>1, AccountUnchanged DEF FlushTick, Collect, CollectDone
  <2>4. ASSUME NEW k \in Keys, Remove(t, k) PROVE Goal
    BY <2>4, AccountRemove
  <2>5. CASE RemovesDone(t) \/ ScoresDone(t)
    <3>1. Count' = Count
      BY <1>0, <2>5 DEF RemovesDone, ScoresDone, Rest, Count
    <3> QED BY <2>5, <3>1, AccountUnchanged DEF RemovesDone, ScoresDone
  <2>6. ASSUME NEW e \in events[t], Score(t, e) PROVE Goal
    <3>1. \A x : InBuilt(x)' <=> InBuilt(x)
      BY <2>6 DEF Score, InBuilt, AccInv, IndInv, TypeOK
    <3>2. Count' = Count BY <2>6 DEF Score, Count
    <3> QED BY <2>6, <3>1, <3>2
          DEF Score, AccInv, Account, Balanced, Waiting, InEvent, Unique
  <2> QED BY <1>2, <2>1, <2>2, <2>3, <2>4, <2>5, <2>6 DEF TaskStep
<1>3. ASSUME NEW k \in Keys, Expire(k) PROVE Goal
  <2>1. \A l \in Keys : pending'[l].arrivals = pending[l].arrivals
    BY <1>3 DEF Expire, AccInv, IndInv, TypeOK, Group
  <2>2. Count' = Count BY <1>3 DEF Expire, Count
  <2> QED BY <1>3, <2>1, <2>2
        DEF Expire, AccInv, Account, Balanced, Waiting, InEvent, InBuilt, Unique
<1>4. CASE UNCHANGED vars
  BY <1>4, AccountUnchanged DEF vars, Count
<1> QED BY <1>1, <1>2, <1>3, <1>4 DEF Next

(* The account, record by record, is the one Propagation states. *)
LEMMA AccountedFor == AccInv => ArrivalsAccounted
<1> SUFFICES ASSUME AccInv PROVE ArrivalsAccounted
  OBVIOUS
<1> DEFINE waiting == UNION {RecordsOf(pending[k].arrivals) : k \in Keys}
           built   == UNION {RecordsOf(e.arrivals) : e \in Built}
<1>1. /\ \A k \in Keys : pending[k].arrivals \in Arrivals
      /\ Built \subseteq Event /\ \A e \in Event : e \in Built <=> InBuilt(e)
      /\ superseded \subseteq 1..NumRecords /\ discarded \subseteq 1..NumRecords
  BY DEF AccInv, IndInv, TypeOK, Group, Built, InBuilt
<1>2. waiting \subseteq 1..NumRecords /\ built \subseteq 1..NumRecords
  BY <1>1, RecordsOfType DEF Event
<1>3. \A r \in 1..NumRecords : r \in waiting <=> Waiting(r)
  BY DEF Waiting, RecordsOf
<1>4. \A r \in 1..NumRecords : r \in built <=> InEvent(r)
  BY <1>1 DEF InEvent, RecordsOf
<1>5. Added = 1..Count /\ 1..Count \subseteq 1..NumRecords
  BY Constants DEF Added, Count, AccInv
<1> HIDE DEF waiting, built
<1>6. \A r \in 1..NumRecords :
        /\ r \in Added <=> r \in waiting \cup built \cup superseded \cup discarded
        /\ ~(r \in waiting /\ r \in built)
  BY <1>3, <1>4, <1>5 DEF AccInv, Account, Balanced
<1>7. Added = waiting \cup built \cup superseded \cup discarded
  BY <1>1, <1>2, <1>5, <1>6
<1>8. waiting \cap built = {} BY <1>2, <1>6
<1> QED BY <1>7, <1>8 DEF ArrivalsAccounted, waiting, built

-----------------------------------------------------------------------------
(* Type correctness of the aggregator and its two tasks. *)
THEOREM TypeCorrect == Spec => []TypeOK
<1>1. IndInv => TypeOK BY DEF IndInv
<1> QED BY Invariance, <1>1, PTL

(* Only groups whose window has expired become PropagationEvents, although  *)
(* flush_expired() removes keys it collected earlier.                       *)
THEOREM OnlyExpiredReported == Spec => []WindowOver
<1>1. IndInv => WindowOver BY DEF IndInv
<1> QED BY Invariance, <1>1, PTL

(* A record for a group past its window stops the detector for good: it     *)
(* waits in add() for the shard lock that it holds itself.                  *)
THEOREM ExpiredGroupBlocksDetector ==
  Spec => [](pc["detector"] = "remove" => SelfDeadlocked) /\ DeadlockIsFinal
<1>1. IndInv => (pc["detector"] = "remove" => SelfDeadlocked)
  BY DEF IndInv, HoldsItsLock, SelfDeadlocked
<1>2. IndInv /\ [Next]_vars => [SelfDeadlocked => SelfDeadlocked']_vars
  BY BlockedStep
<1> QED BY Invariance, <1>1, <1>2, PTL DEF Spec, DeadlockIsFinal

(* Every arrival is in a pending group, in an event, replaced or discarded, *)
(* and never both pending and in an event.                                  *)
THEOREM EveryArrivalAccounted == Spec => []ArrivalsAccounted
<1>1. Init => AccInv
  <2> SUFFICES ASSUME Init PROVE AccInv
    OBVIOUS
  <2>1. IndInv BY InitIndInv
  <2>2. \A k \in Keys, c \in Collectors : pending[k].arrivals[c] = 0
    BY DEF Init, NoGroup
  <2>3. Count = 0 BY DEF Init, Count, Rest, Tasks
  <2>4. \A e : ~InBuilt(e) BY DEF Init, InBuilt
  <2>5. Account
    BY <2>2, <2>3, <2>4 DEF Init, Account, Balanced, Waiting, InEvent
  <2> QED BY <2>1, <2>2, <2>3, <2>5, Constants DEF AccInv, Unique
<1>2. AccInv /\ [Next]_vars => AccInv'
  <2>1. IndInv /\ [Next]_vars => IndInv'
    BY TypeStep, LockStep, CollectedStep, WindowStep DEF IndInv
  <2> QED BY <2>1, AccountStep DEF AccInv
<1> QED BY <1>1, <1>2, AccountedFor, PTL DEF Spec
=============================================================================
