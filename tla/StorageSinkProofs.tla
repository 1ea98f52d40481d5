------------------------- MODULE StorageSinkProofs -------------------------
(***************************************************************************)
(* Proofs about StorageSink and S3Export for every number of records,      *)
(* flush size, non-zero flush interval and number of restarts: no silent   *)
(* loss, write order, immutable files, the refinement of RecordLog, and    *)
(* that the two exporters lose nothing but what they race for.             *)
(*                                                                         *)
(* The argument: only app_task ever holds records, because nobody writes   *)
(* to the sink that main_task and the shutdown hook drain (MainUnused), so *)
(* every file is named by app_task; it sleeps past the millisecond of its  *)
(* last name before it pops again, so each name is new (FileNames).        *)
(***************************************************************************)
EXTENDS S3Export, SequenceFacts, TLAPS

\* Nobody writes to the sink of main(): its flushers find nothing.
MainUnused ==
  /\ buffer["main_sink"] = <<>>
  /\ \A f \in Flushers \ {"app_task"} :
       batch[f] = <<>> /\ pc[f] \in {"idle", "sleep", "pop"}

\* Names grow: a file is named later than every file there is.
FileNames ==
  /\ stamp["app_task"] <= now
  /\ \A g \in files : g.name <= stamp["app_task"]
  /\ ~Running => pc["app_task"] = "idle"
  /\ pc["app_task"] \in {"idle", "sleep"} => batch["app_task"] = <<>>
  /\ pc["app_task"] = "pop" => stamp["app_task"] < now
  /\ pc["app_task"] = "named" => \A g \in files : g.name < stamp["app_task"]
  /\ pc["app_task"] = "write" =>
       \A g \in files : g.name = stamp["app_task"] =>
         ~g.complete /\ Range(g.recs) \subseteq Range(batch["app_task"])

\* The file being written is in the directory, unless it was deleted.
FileThere == pc["app_task"] = "write" => \E g \in files : g.name = stamp["app_task"]

\* Nothing queued, held or stored is yet to be written.
Past ==
  /\ \A r \in Range(buffer["app_sink"]) : r <= sent
  /\ \A r \in Range(batch["app_task"]) : r <= sent
  /\ \A g \in files : \A r \in Range(g.recs) : r <= sent

IndInv == TypeOK /\ MainUnused /\ FileNames /\ FileThere /\ Past /\ WriteOrder /\ NoSilentLoss

-----------------------------------------------------------------------------
\* The empty sequence.
LEMMA EmptyQueue == <<>> \in Seq(Records) /\ Len(<<>>) = 0
  OBVIOUS

-----------------------------------------------------------------------------
(* What an action does to the queue and to the batch, type included. *)

\* What the assumptions say of the bounds and of the queue capacity.
LEMMA Constants ==
  /\ MaxBufferSize \in Nat /\ MaxBufferSize >= 1
  /\ QueueCapacity \in Nat /\ QueueCapacity = 2 * MaxBufferSize
  /\ NumRecords \in Nat
  BY MaxBufferSizeAssumption, NumRecordsAssumption DEF QueueCapacity

\* The files created by a flush are files.
LEMMA CreatedType ==
  ASSUME files \subseteq File, NEW n \in Nat, NEW s \in Seq(Records),
         NEW c \in BOOLEAN
  PROVE  Created(n, s, c) \subseteq File /\ Filled(n, s, c) \subseteq File
  BY DEF Created, Filled, File

\* The directory after a file was created: the others, and the new one.
CreatedFacts(n, s, c) ==
  /\ \E g \in Created(n, s, c) : g.name = n /\ g.recs = s /\ g.complete = c
  /\ \A g \in Created(n, s, c) :
       \/ g \in files /\ g.name # n
       \/ g.name = n /\ g.recs = s /\ g.complete = c
  /\ \A g \in files : g.name # n => g \in Created(n, s, c)

\* The members of the directory after a file has been created or truncated.
LEMMA CreatedMembers ==
  ASSUME NEW n, NEW s, NEW c
  PROVE  CreatedFacts(n, s, c)
<1> DEFINE new == [name |-> n, recs |-> s, complete |-> c]
<1>1. new.name = n /\ new.recs = s /\ new.complete = c
  OBVIOUS
<1>2. Created(n, s, c) = {g \in files : g.name # n} \cup {new}
  BY DEF Created
<1> HIDE DEF new
<1> QED BY <1>1, <1>2 DEF CreatedFacts

\* A pop keeps queue and batch within their bounds.
LEMMA PopType ==
  ASSUME TypeOK, NEW f \in Flushers, Pop(f)
  PROVE  TypeOK'
<1> DEFINE s == SinkOf(f)
<1>1. s \in Sinks
  BY DEF SinkOf, Sinks
<1>2. buffer[s] \in Seq(Records) /\ buffer[s] # <<>> /\ Len(buffer[s]) <= QueueCapacity
  BY <1>1 DEF Pop, TypeOK
<1>3. /\ Head(buffer[s]) \in Records /\ Tail(buffer[s]) \in Seq(Records)
      /\ Len(Tail(buffer[s])) = Len(buffer[s]) - 1
  BY <1>2, HeadAndTail
<1>4. batch[f] \in Seq(Records) /\ Len(batch[f]) < MaxBufferSize
  BY DEF Pop, TypeOK
<1>5. /\ Append(batch[f], Head(buffer[s])) \in Seq(Records)
      /\ Len(Append(batch[f], Head(buffer[s]))) = Len(batch[f]) + 1
  BY <1>3, <1>4
<1>6. buffer' \in [Sinks -> Seq(Records)] /\ \A t \in Sinks : Len(buffer'[t]) <= QueueCapacity
  <2>1. buffer' = [buffer EXCEPT ![s] = Tail(buffer[s])]
    BY DEF Pop
  <2>2. Len(Tail(buffer[s])) <= QueueCapacity
    BY <1>2, <1>3, Constants
  <2> QED BY <2>1, <2>2, <1>1, <1>3 DEF TypeOK
<1>7. batch' \in [Flushers -> Seq(Records)] /\ \A g \in Flushers : Len(batch'[g]) <= MaxBufferSize
  <2>1. batch' = [batch EXCEPT ![f] = Append(batch[f], Head(buffer[s]))]
    BY DEF Pop
  <2>2. Len(batch[f]) + 1 <= MaxBufferSize
    BY <1>4, Constants
  <2> QED BY <2>1, <2>2, <1>5 DEF TypeOK
<1> QED BY <1>6, <1>7 DEF TypeOK, Pop

\* The initial state is well typed.
LEMMA TypeStart == Init => TypeOK
  BY Constants, MaxRestartsAssumption
  DEF Init, TypeOK, Sinks, Flushers, Tasks, States

\* Every step keeps the state well typed.
LEMMA TypeStep == TypeOK /\ [Next]_vars => TypeOK'
<1> SUFFICES ASSUME TypeOK, [Next]_vars PROVE TypeOK'
  OBVIOUS
<1> USE Constants
<1>1. CASE Write
  <2>1. sent + 1 \in Records /\ sent' \in 0..NumRecords
    BY <1>1 DEF Write, TypeOK, Records
  <2>2. CASE Len(buffer[HandlerSink]) < QueueCapacity
    <3>1. HandlerSink \in Sinks /\ buffer[HandlerSink] \in Seq(Records)
      BY DEF HandlerSink, Sinks, TypeOK
    <3>2. /\ Append(buffer[HandlerSink], sent + 1) \in Seq(Records)
          /\ Len(Append(buffer[HandlerSink], sent + 1)) <= QueueCapacity
      BY <2>1, <2>2, <3>1
    <3>3. buffer' = [buffer EXCEPT ![HandlerSink] = Append(buffer[HandlerSink], sent + 1)]
      BY <1>1, <2>2 DEF Write
    <3>4. /\ buffer' \in [Sinks -> Seq(Records)]
          /\ \A s \in Sinks : Len(buffer'[s]) <= QueueCapacity
      BY <3>1, <3>2, <3>3 DEF TypeOK
    <3> QED BY <1>1, <2>1, <2>2, <3>4 DEF Write, TypeOK
  <2>3. CASE ~(Len(buffer[HandlerSink]) < QueueCapacity)
    BY <1>1, <2>1, <2>3 DEF Write, TypeOK
  <2> QED BY <2>2, <2>3
<1>2. ASSUME NEW f \in Flushers, FlushStep(f) PROVE TypeOK'
  <2>1. CASE Wake(f)
    BY <2>1 DEF Wake, TypeOK, States
  <2>2. CASE Pop(f)
    BY <2>2, PopType
  <2>3. CASE FlushEmpty(f)
    BY <2>3 DEF FlushEmpty, Rest, TypeOK, States
  <2>4. CASE NameFile(f)
    BY <2>4 DEF NameFile, TypeOK, States
  <2>5. CASE OpenFile(f)
    <3>1. files' \subseteq File
      <4>1. stamp[f] \in Nat /\ <<>> \in Seq(Records) /\ files \subseteq File
        BY DEF TypeOK
      <4>2. Created(stamp[f], <<>>, FALSE) \subseteq File
        BY <4>1, CreatedType
      <4> QED BY <2>5, <4>2 DEF OpenFile
    <3> QED BY <2>5, <3>1 DEF OpenFile, TypeOK, States
  <2>6. CASE WriteChunk(f)
    <3>1. PICK g \in files : \E k \in (Len(g.recs) + 1)..(Len(batch[f]) - 1) :
            files' = Created(stamp[f], SubSeq(batch[f], 1, k), FALSE)
      BY <2>6 DEF WriteChunk
    <3>2. Len(g.recs) \in Nat /\ batch[f] \in Seq(Records) /\ Len(batch[f]) \in Nat
      BY DEF TypeOK, File
    <3>3. PICK k \in (Len(g.recs) + 1)..(Len(batch[f]) - 1) :
            files' = Created(stamp[f], SubSeq(batch[f], 1, k), FALSE)
      BY <3>1
    <3>4. k \in 1..Len(batch[f])
      BY <3>2
    <3>5. SubSeq(batch[f], 1, k) \in Seq(Records)
      BY <3>2, <3>4, PrefixOf
    <3>6. files' \subseteq File
      BY <3>3, <3>5, CreatedType DEF TypeOK
    <3> QED BY <2>6, <3>6 DEF WriteChunk, TypeOK
  <2>7. CASE WriteOk(f)
    <3>1. files' \subseteq File
      BY <2>7, CreatedType DEF WriteOk, TypeOK
    <3>2. /\ batch' \in [Flushers -> Seq(Records)]
          /\ \A g \in Flushers : Len(batch'[g]) <= MaxBufferSize
      BY <2>7, EmptyQueue DEF WriteOk, TypeOK
    <3>3. pc' \in [Flushers -> States]
      BY <2>7 DEF WriteOk, Rest, TypeOK, States
    <3> QED BY <2>7, <3>1, <3>2, <3>3 DEF WriteOk, TypeOK
  <2>8. CASE WriteFail(f)
    <3>1. lost' \subseteq Records
      BY <2>8 DEF WriteFail, TypeOK, Range
    <3> QED BY <2>8, <3>1 DEF WriteFail, Rest, TypeOK, States
  <2> QED BY <1>2, <2>1, <2>2, <2>3, <2>4, <2>5, <2>6, <2>7, <2>8 DEF FlushStep
<1>3. CASE Tick
  BY <1>3 DEF Tick, TypeOK
<1>4. CASE Signal
  BY <1>4 DEF Signal, TypeOK, States
<1>5. CASE HookDone
  BY <1>5 DEF HookDone, TypeOK
<1>6. ASSUME Vanish, server' \in {"down", "exited"} PROVE TypeOK'
  <2>1. InMemory \subseteq Records
    BY DEF InMemory
  <2> QED BY <1>6, <2>1 DEF Vanish, TypeOK, States
<1>7. CASE Exit
  BY <1>6, <1>7 DEF Exit
<1>8. CASE Crash
  BY <1>6, <1>8 DEF Crash
<1>9. CASE Restart
  BY <1>9, MaxRestartsAssumption DEF Restart, TypeOK, States
<1>10. CASE UNCHANGED vars
  BY <1>10 DEF vars, TypeOK
<1> QED BY <1>1, <1>2, <1>3, <1>4, <1>5, <1>7, <1>8, <1>9, <1>10 DEF Next

(* Every reachable state is well typed: the queues stay within twice and a  *)
(* flush's batch within once max_buffer_size, whatever is interleaved.      *)
THEOREM TypeCorrect == Spec => []TypeOK
  BY TypeStart, TypeStep, PTL DEF Spec

-----------------------------------------------------------------------------
(* main()'s sink stays empty, so only app_task's flushes touch anything. *)

\* The flushers of main()'s sink only move their own program counter.
LEMMA OtherFlushers ==
  ASSUME TypeOK, MainUnused, NEW f \in Flushers, f # "app_task", FlushStep(f)
  PROVE  /\ UNCHANGED <<sent, buffer, batch, stamp, files, dropped, lost, now, server>>
         /\ pc'["app_task"] = pc["app_task"]
         /\ pc'[f] \in {"idle", "sleep", "pop"}
         /\ \A e \in Flushers \ {f} : pc'[e] = pc[e]
<1>1. /\ SinkOf(f) = "main_sink" /\ buffer["main_sink"] = <<>>
      /\ batch[f] = <<>> /\ pc[f] \in {"idle", "sleep", "pop"}
  BY DEF SinkOf, MainUnused
<1>2. Wake(f) \/ FlushEmpty(f)
  BY <1>1 DEF FlushStep, Pop, NameFile, OpenFile, WriteChunk, WriteOk, WriteFail
<1>3. "app_task" \in Flushers
  BY DEF Flushers
<1> QED BY <1>2, <1>3 DEF Wake, FlushEmpty, Rest, TypeOK

\* Nothing ever enters main's sink: handlers push to the other one.
LEMMA MainUnusedStep ==
  ASSUME TypeOK, MainUnused, [Next]_vars
  PROVE  MainUnused'
<1>0. "main_sink" \in Sinks /\ "app_sink" \in Sinks /\ "main_sink" # "app_sink"
  BY DEF Sinks
<1>1. CASE Write
  BY <1>0, <1>1 DEF Write, MainUnused, HandlerSink, TypeOK
<1>2. ASSUME NEW f \in Flushers, FlushStep(f), f # "app_task" PROVE MainUnused'
  BY <1>2, OtherFlushers DEF MainUnused
<1>3. ASSUME FlushStep("app_task") PROVE MainUnused'
  <2>1. SinkOf("app_task") = "app_sink" /\ "app_task" \in Flushers
    BY DEF SinkOf, Flushers
  <2>2. /\ buffer'["main_sink"] = buffer["main_sink"]
        /\ \A f \in Flushers \ {"app_task"} : batch'[f] = batch[f] /\ pc'[f] = pc[f]
    BY <1>0, <1>3, <2>1
    DEF FlushStep, Wake, Pop, FlushEmpty, NameFile, OpenFile, WriteChunk,
        WriteOk, WriteFail, TypeOK
  <2> QED BY <2>2 DEF MainUnused
<1>4. CASE Tick \/ HookDone
  BY <1>4 DEF Tick, HookDone, MainUnused
<1>5. CASE Signal
  BY <1>5 DEF Signal, MainUnused, TypeOK
<1>6. CASE Exit \/ Crash
  BY <1>6 DEF Exit, Crash, Vanish, MainUnused, Sinks
<1>7. CASE Restart
  BY <1>7 DEF Restart, MainUnused
<1>8. CASE UNCHANGED vars
  BY <1>8 DEF vars, MainUnused
<1> QED BY <1>1, <1>2, <1>3, <1>4, <1>5, <1>6, <1>7, <1>8 DEF Next

-----------------------------------------------------------------------------
(* A file is named later than every file there is. *)

\* Every step keeps file names growing.
LEMMA FileNamesStep ==
  ASSUME FlushIntervalSecs # 0, TypeOK, MainUnused, FileNames, [Next]_vars
  PROVE  FileNames'
<1> DEFINE a == "app_task"
<1>0. /\ a \in Flushers /\ a \in Tasks /\ stamp[a] \in Nat /\ now \in Nat
      /\ \A g \in files : g.name \in Nat
      /\ batch[a] \in Seq(Records) /\ SinkOf(a) = "app_sink"
  BY DEF Flushers, Tasks, TypeOK, File, SinkOf
<1>1. CASE Write \/ HookDone
  BY <1>1 DEF Write, HookDone, FileNames, Running
<1>2. ASSUME NEW f \in Flushers, FlushStep(f), f # a PROVE FileNames'
  BY <1>2, OtherFlushers DEF FileNames, Running
<1>3. ASSUME FlushStep(a) PROVE FileNames'
  <2>1. CASE Wake(a)
    BY <2>1, <1>0 DEF Wake, FileNames, Running, TypeOK
  <2>2. CASE Pop(a)
    BY <2>2, <1>0 DEF Pop, FileNames, Running, TypeOK
  <2>3. CASE FlushEmpty(a)
    BY <2>3, <1>0 DEF FlushEmpty, Rest, FileNames, Running, TypeOK
  <2>4. CASE NameFile(a)
    BY <2>4, <1>0 DEF NameFile, FileNames, Running, TypeOK
  <2>5. CASE OpenFile(a)
    <3>1. files' = Created(stamp[a], <<>>, FALSE)
      BY <2>5 DEF OpenFile
    <3>2. \A g \in files' : \/ g \in files /\ g.name # stamp[a]
                            \/ g.name = stamp[a] /\ g.recs = <<>> /\ g.complete = FALSE
      <4>1. CreatedFacts(stamp[a], <<>>, FALSE)
        BY CreatedMembers
      <4> QED BY <3>1, <4>1 DEF CreatedFacts
    <3>3. \A g \in files' : g.name <= stamp[a]
      BY <3>2, <1>0 DEF FileNames
    <3>4. \A g \in files' : g.name = stamp[a] => ~g.complete /\ Range(g.recs) = {}
      BY <3>2, EmptyRange
    <3> QED BY <2>5, <1>0, <3>2, <3>3, <3>4 DEF OpenFile, FileNames, TypeOK, Running
  <2>6. CASE WriteChunk(a)
    <3>0. PICK g \in files : \E k \in (Len(g.recs) + 1)..(Len(batch[a]) - 1) :
            files' = Created(stamp[a], SubSeq(batch[a], 1, k), FALSE)
      BY <2>6 DEF WriteChunk
    <3>1. PICK k \in 1..Len(batch[a]) :
            files' = Created(stamp[a], SubSeq(batch[a], 1, k), FALSE)
      <4>1. Len(g.recs) \in Nat /\ Len(batch[a]) \in Nat
        BY <1>0 DEF TypeOK, File
      <4>2. PICK k \in (Len(g.recs) + 1)..(Len(batch[a]) - 1) :
              files' = Created(stamp[a], SubSeq(batch[a], 1, k), FALSE)
        BY <3>0
      <4>3. k \in 1..Len(batch[a])
        BY <4>1
      <4> QED BY <4>2, <4>3
    <3>2. Range(SubSeq(batch[a], 1, k)) \subseteq Range(batch[a])
      BY <1>0, PrefixOf
    <3>3. \A h \in files' :
            \/ h \in files /\ h.name # stamp[a]
            \/ h.name = stamp[a] /\ h.recs = SubSeq(batch[a], 1, k) /\ h.complete = FALSE
      <4>1. CreatedFacts(stamp[a], SubSeq(batch[a], 1, k), FALSE)
        BY CreatedMembers
      <4> QED BY <3>1, <4>1 DEF CreatedFacts
    <3>4. \A h \in files' : h.name <= stamp[a]
      BY <3>3, <1>0 DEF FileNames
    <3>5. \A h \in files' : h.name = stamp[a] =>
            ~h.complete /\ Range(h.recs) \subseteq Range(batch[a])
      BY <3>2, <3>3
    <3> QED BY <2>6, <1>0, <3>3, <3>4, <3>5 DEF WriteChunk, FileNames, Running
  <2>7. CASE WriteOk(a)
    BY <2>7, <1>0 DEF WriteOk, Filled, Created, Rest, FileNames, Running, TypeOK
  <2>8. CASE WriteFail(a)
    BY <2>8, <1>0 DEF WriteFail, Rest, FileNames, Running, TypeOK
  <2> QED BY <1>3, <2>1, <2>2, <2>3, <2>4, <2>5, <2>6, <2>7, <2>8 DEF FlushStep
<1>4. CASE Tick
  BY <1>4, <1>0 DEF Tick, FileNames, Running
<1>5. CASE Signal
  BY <1>5, <1>0 DEF Signal, FileNames, Running, TypeOK
<1>6. CASE Exit \/ Crash
  BY <1>6, <1>0 DEF Exit, Crash, Vanish, FileNames, Running
<1>7. CASE Restart
  <2>1. batch[a] = <<>>
    BY <1>7, <1>0 DEF Restart, FileNames, Running
  <2> QED BY <1>7, <2>1, <1>0 DEF Restart, FileNames, Running
<1>8. CASE UNCHANGED vars
  BY <1>8 DEF vars, FileNames, Running
<1> QED BY <1>1, <1>2, <1>3, <1>4, <1>5, <1>6, <1>7, <1>8 DEF Next

\* No flush removes the file of another.
LEMMA FileThereStep ==
  ASSUME TypeOK, MainUnused, FileThere, [Next]_vars
  PROVE  FileThere'
<1> DEFINE a == "app_task"
<1>0. a \in Flushers /\ a \in Tasks
  BY DEF Flushers, Tasks
<1>1. ASSUME NEW n, NEW s, NEW c, files' = Created(n, s, c), stamp'[a] = n PROVE FileThere'
  <2>1. CreatedFacts(n, s, c)
    BY CreatedMembers
  <2> QED BY <1>1, <2>1 DEF CreatedFacts, FileThere
<1>2. CASE OpenFile(a) \/ WriteChunk(a)
  BY <1>1, <1>2 DEF OpenFile, WriteChunk
<1>3. CASE Wake(a) \/ Pop(a) \/ FlushEmpty(a) \/ NameFile(a) \/ WriteOk(a) \/ WriteFail(a)
  BY <1>0, <1>3
  DEF Wake, Pop, FlushEmpty, NameFile, WriteOk, WriteFail, Rest, FileThere, TypeOK
<1>4. CASE FlushStep(a)
  BY <1>2, <1>3, <1>4 DEF FlushStep
<1>5. ASSUME NEW f \in Flushers, FlushStep(f), f # a PROVE FileThere'
  BY <1>5, OtherFlushers DEF FileThere
<1>6. CASE Write \/ Tick \/ Signal \/ HookDone \/ Exit \/ Crash \/ Restart \/ UNCHANGED vars
  BY <1>0, <1>6
  DEF Write, Tick, Signal, HookDone, Exit, Crash, Vanish, Restart, vars, FileThere, TypeOK
<1> QED BY <1>4, <1>5, <1>6 DEF Next

-----------------------------------------------------------------------------
(* Records keep their write order. *)

\* Appending a newer element keeps a sequence ascending.
LEMMA AscendingAppend ==
  ASSUME NEW s \in Seq(Records), NEW e \in Records, Ascending(s),
         \A x \in Range(s) : x < e
  PROVE  Ascending(Append(s, e))
<1>1. /\ DOMAIN s = 1..Len(s) /\ Len(s) \in Nat
      /\ DOMAIN Append(s, e) = 1..(Len(s) + 1)
      /\ Append(s, e)[Len(s) + 1] = e
      /\ \A i \in 1..Len(s) : Append(s, e)[i] = s[i]
  OBVIOUS
<1>2. \A i \in 1..Len(s) : s[i] < e
  BY <1>1 DEF Range
<1> SUFFICES ASSUME NEW i \in 1..(Len(s) + 1), NEW j \in 1..(Len(s) + 1), i < j
             PROVE  Append(s, e)[i] < Append(s, e)[j]
  BY <1>1 DEF Ascending
<1>3. i \in 1..Len(s)
  BY <1>1
<1>4. CASE j = Len(s) + 1
  BY <1>1, <1>2, <1>3, <1>4
<1>5. CASE j # Len(s) + 1
  <2>1. j \in 1..Len(s)
    BY <1>1, <1>5
  <2> QED BY <1>1, <1>3, <2>1 DEF Ascending
<1> QED BY <1>4, <1>5

\* The head of an ascending sequence is older than its ascending tail.
LEMMA AscendingTail ==
  ASSUME NEW s \in Seq(Records), s # <<>>, Ascending(s)
  PROVE  Ascending(Tail(s)) /\ \A x \in Range(Tail(s)) : Head(s) < x
<1>1. /\ DOMAIN s = 1..Len(s) /\ Len(s) \in Nat /\ Len(s) >= 1
      /\ DOMAIN Tail(s) = 1..(Len(s) - 1) /\ Head(s) = s[1]
      /\ \A i \in 1..(Len(s) - 1) : Tail(s)[i] = s[i + 1]
  OBVIOUS
<1>2. \A i \in 1..(Len(s) - 1) : s[1] < s[i + 1]
  BY <1>1 DEF Ascending
<1>3. \A i, j \in 1..(Len(s) - 1) : i < j => s[i + 1] < s[j + 1]
  BY <1>1 DEF Ascending
<1> QED BY <1>1, <1>2, <1>3 DEF Ascending, Range

\* A prefix of an ascending sequence is ascending.
LEMMA AscendingPrefix ==
  ASSUME NEW s \in Seq(Records), NEW k \in 1..Len(s), Ascending(s)
  PROVE  Ascending(SubSeq(s, 1, k))
<1>1. /\ DOMAIN SubSeq(s, 1, k) = 1..k
      /\ \A i \in 1..k : SubSeq(s, 1, k)[i] = s[i]
  BY PrefixOf
<1>2. DOMAIN s = 1..Len(s) /\ Len(s) \in Nat
  OBVIOUS
<1> QED BY <1>1, <1>2 DEF Ascending

\* The empty sequence is ascending.
LEMMA AscendingEmpty == Ascending(<<>>)
<1>1. DOMAIN <<>> = {}
  OBVIOUS
<1> QED BY <1>1, Zenon DEF Ascending

\* The elements of a sequence of records are records.
LEMMA RangeType ==
  ASSUME NEW s \in Seq(Records)
  PROVE  Range(s) \subseteq Records
  BY DEF Range

\* A write: the new record is newer than all there is.
LEMMA WriteKeepsOrder ==
  ASSUME TypeOK, Past, WriteOrder, Write
  PROVE  Past' /\ WriteOrder'
<1> DEFINE q == buffer["app_sink"]
           b == batch["app_task"]
<1>1. /\ q \in Seq(Records) /\ b \in Seq(Records) /\ sent \in Nat
      /\ sent + 1 \in Records /\ "app_sink" \in Sinks
      /\ UNCHANGED <<batch, files>> /\ sent' = sent + 1
  BY NumRecordsAssumption DEF Write, TypeOK, Sinks, Flushers, Records
<1>2. /\ \A r \in Range(q) : r < sent + 1 /\ r <= sent + 1
      /\ \A r \in Range(b) : r < sent + 1 /\ r <= sent + 1
      /\ \A g \in files : \A r \in Range(g.recs) : r < sent + 1 /\ r <= sent + 1
  <2>1. /\ \A r \in Range(q) : r \in Nat
        /\ \A r \in Range(b) : r \in Nat
        /\ \A g \in files : \A r \in Range(g.recs) : r \in Nat
    BY <1>1, RangeType DEF Records, TypeOK, File
  <2>2. \A r \in Nat : r <= sent => r < sent + 1 /\ r <= sent + 1
    BY <1>1
  <2>3. /\ \A r \in Range(q) : r <= sent
        /\ \A r \in Range(b) : r <= sent
        /\ \A g \in files : \A r \in Range(g.recs) : r <= sent
    BY DEF Past
  <2> HIDE DEF q, b
  <2> QED BY <2>1, <2>2, <2>3
<1>3. CASE buffer' = buffer
  <2>1. Past'
    BY <1>1, <1>2, <1>3 DEF Past
  <2> QED BY <2>1, <1>1, <1>3 DEF WriteOrder
<1>4. CASE buffer' = [buffer EXCEPT !["app_sink"] = Append(q, sent + 1)]
  <2>1. buffer'["app_sink"] = Append(q, sent + 1)
    BY <1>1, <1>4 DEF TypeOK
  <2>2. Range(buffer'["app_sink"]) = Range(q) \cup {sent + 1}
    BY <2>1, <1>1, RangeAppend
  <2>3. Ascending(buffer'["app_sink"])
    BY <2>1, <1>2, <1>1, AscendingAppend DEF WriteOrder
  <2>4. Past'
    <3>1. \A r \in Range(buffer'["app_sink"]) : r <= sent + 1
      BY <2>2, <1>1, <1>2
    <3> QED BY <3>1, <1>1, <1>2 DEF Past
  <2>5. Before(Range(b), Range(buffer'["app_sink"]))
    BY <2>2, <1>2 DEF WriteOrder, Before
  <2>6. ASSUME NEW g \in files, g.complete
        PROVE  Before(Range(g.recs), Range(b) \cup Range(buffer'["app_sink"]))
    <3>1. Before(Range(g.recs), Range(b) \cup Range(q))
      BY <2>6 DEF WriteOrder
    <3> QED BY <3>1, <2>2, <1>2 DEF Before
  <2> QED BY <2>3, <2>4, <2>5, <2>6, <1>1 DEF WriteOrder
<1> QED BY <1>3, <1>4 DEF Write, HandlerSink

\* A pop moves the oldest queued record behind what the flush holds.
LEMMA PopKeepsOrder ==
  ASSUME TypeOK, Past, WriteOrder, Pop("app_task")
  PROVE  Past' /\ WriteOrder'
<1> DEFINE q == buffer["app_sink"]
           b == batch["app_task"]
<1>1. /\ q \in Seq(Records) /\ b \in Seq(Records) /\ q # <<>>
      /\ "app_sink" \in Sinks /\ "app_task" \in Flushers
      /\ UNCHANGED <<sent, files>>
      /\ batch' = [batch EXCEPT !["app_task"] = Append(b, Head(q))]
      /\ buffer' = [buffer EXCEPT !["app_sink"] = Tail(q)]
  BY DEF Pop, TypeOK, Sinks, Flushers, SinkOf
<1>2. /\ buffer'["app_sink"] = Tail(q)
      /\ batch'["app_task"] = Append(b, Head(q))
  BY <1>1 DEF TypeOK
<1>3. Head(q) \in Records /\ Range(q) = Range(Tail(q)) \cup {Head(q)}
  BY <1>1, HeadAndTail
<1>4. Range(Append(b, Head(q))) = Range(b) \cup {Head(q)}
  BY <1>1, <1>3, RangeAppend
<1>5. Ascending(Tail(q)) /\ \A x \in Range(Tail(q)) : Head(q) < x
  BY <1>1, AscendingTail DEF WriteOrder
<1>6. Ascending(Append(b, Head(q)))
  <2>1. \A x \in Range(b) : x < Head(q)
    BY <1>3 DEF WriteOrder, Before
  <2> QED BY <2>1, <1>1, <1>3, AscendingAppend DEF WriteOrder
<1>7. Before(Range(b) \cup {Head(q)}, Range(Tail(q)))
  BY <1>3, <1>5 DEF WriteOrder, Before
<1>8. (Range(b) \cup {Head(q)}) \cup Range(Tail(q)) = Range(b) \cup Range(q)
  BY <1>3
<1>9. Past'
  BY <1>1, <1>2, <1>3, <1>4 DEF Past
<1>10. WriteOrder'
  BY <1>1, <1>2, <1>4, <1>5, <1>6, <1>7, <1>8 DEF WriteOrder
<1> QED BY <1>9, <1>10

\* A file of the flush under way, partial or complete, fits in the order: all
\* other files are older (FileNames), and hold older records.
LEMMA FileKeepsOrder ==
  ASSUME TypeOK, FileNames, Past, WriteOrder, pc["app_task"] \in {"named", "write"},
         NEW s \in Seq(Records), Ascending(s),
         Range(s) \subseteq Range(batch["app_task"]),
         NEW c \in BOOLEAN,
         files' = Created(stamp["app_task"], s, c),
         buffer'["app_sink"] = buffer["app_sink"], sent' = sent,
         \/ batch'["app_task"] = batch["app_task"] /\ c = FALSE
         \/ batch'["app_task"] = <<>>
  PROVE  Past' /\ WriteOrder'
<1> DEFINE n == stamp["app_task"]
           b == batch["app_task"]
           q == buffer["app_sink"]
<1>1. /\ \E g \in files' : g.name = n /\ g.recs = s /\ g.complete = c
      /\ \A g \in files' : \/ g \in files /\ g.name # n
                           \/ g.name = n /\ g.recs = s /\ g.complete = c
  <2>1. CreatedFacts(n, s, c)
    BY CreatedMembers
  <2> QED BY <2>1 DEF CreatedFacts
<1>2. /\ Range(batch'["app_task"]) \subseteq Range(b)
      /\ Ascending(batch'["app_task"])
      /\ c => Range(batch'["app_task"]) = {}
  BY EmptyRange, AscendingEmpty DEF WriteOrder
<1>3. Past'
  BY <1>1, <1>2 DEF Past
<1>4. /\ Before(Range(b), Range(q))
      /\ \A g \in files : Ascending(g.recs)
      /\ \A g \in files : g.complete => Before(Range(g.recs), Range(b) \cup Range(q))
      /\ \A g, h \in files : g.complete /\ g.name < h.name => Before(Range(g.recs), Range(h.recs))
  BY DEF WriteOrder
<1>5. n \in Nat /\ \A g \in files : g.name <= n /\ g.name \in Nat
  BY DEF FileNames, TypeOK, File, Flushers
<1>6. Before(Range(batch'["app_task"]), Range(q))
  BY <1>2, <1>4 DEF Before
<1>7. \A g \in files' : Ascending(g.recs)
  BY <1>1, <1>4
<1>8. ASSUME NEW g \in files', g.complete
      PROVE  Before(Range(g.recs), Range(batch'["app_task"]) \cup Range(q))
  <2>1. CASE g \in files
    BY <2>1, <1>8, <1>2, <1>4 DEF Before
  <2>2. CASE g.recs = s /\ g.complete = c
    BY <2>2, <1>8, <1>2, <1>4 DEF Before
  <2> QED BY <2>1, <2>2, <1>1
<1>9. ASSUME NEW g \in files', NEW h \in files', g.complete, g.name < h.name
      PROVE  Before(Range(g.recs), Range(h.recs))
  <2>1. g \in files
    BY <1>1, <1>5, <1>9
  <2>2. CASE h \in files
    BY <2>1, <2>2, <1>4, <1>9
  <2>3. CASE h.recs = s
    BY <2>1, <2>3, <1>4, <1>9 DEF Before
  <2> QED BY <2>2, <2>3, <1>1
<1> QED BY <1>2, <1>3, <1>6, <1>7, <1>8, <1>9 DEF WriteOrder

\* Every step keeps the records in write order.
LEMMA OrderStep ==
  ASSUME TypeOK, MainUnused, FileNames, FileThere, Past, WriteOrder, [Next]_vars
  PROVE  Past' /\ WriteOrder'
<1> DEFINE a == "app_task"
<1>0. /\ a \in Flushers /\ "app_sink" \in Sinks /\ batch[a] \in Seq(Records)
      /\ Ascending(batch[a])
  BY DEF Flushers, Sinks, TypeOK, WriteOrder
\* Steps that leave records and files where they are.
<1>1. ASSUME UNCHANGED <<sent, buffer, batch, files>> PROVE Past' /\ WriteOrder'
  BY <1>1 DEF Past, WriteOrder
<1>2. ASSUME NEW f \in Flushers, FlushStep(f), f # a PROVE Past' /\ WriteOrder'
  BY <1>2, OtherFlushers DEF Past, WriteOrder
<1>3. CASE Wake(a) \/ FlushEmpty(a) \/ NameFile(a)
  BY <1>1, <1>3 DEF Wake, FlushEmpty, NameFile
<1>4. CASE OpenFile(a)
  <2>1. /\ <<>> \in Seq(Records) /\ Ascending(<<>>)
        /\ Range(<<>>) \subseteq Range(batch[a]) /\ FALSE \in BOOLEAN
    BY EmptyQueue, EmptyRange, AscendingEmpty
  <2>2. /\ files' = Created(stamp[a], <<>>, FALSE) /\ pc[a] \in {"named", "write"}
        /\ buffer'["app_sink"] = buffer["app_sink"] /\ sent' = sent
        /\ batch'[a] = batch[a]
    BY <1>4 DEF OpenFile
  <2> QED BY <2>1, <2>2, FileKeepsOrder
<1>5. CASE WriteChunk(a)
  <2>1. PICK g \in files : \E k \in (Len(g.recs) + 1)..(Len(batch[a]) - 1) :
          files' = Created(stamp[a], SubSeq(batch[a], 1, k), FALSE)
    BY <1>5 DEF WriteChunk
  <2>2. PICK k \in (Len(g.recs) + 1)..(Len(batch[a]) - 1) :
          files' = Created(stamp[a], SubSeq(batch[a], 1, k), FALSE)
    BY <2>1
  <2>3. k \in 1..Len(batch[a])
    <3>1. Len(g.recs) \in Nat /\ Len(batch[a]) \in Nat
      BY <1>0 DEF TypeOK, File
    <3> QED BY <3>1
  <2>4. /\ SubSeq(batch[a], 1, k) \in Seq(Records)
        /\ Ascending(SubSeq(batch[a], 1, k))
        /\ Range(SubSeq(batch[a], 1, k)) \subseteq Range(batch[a])
    BY <1>0, <2>3, PrefixOf, AscendingPrefix
  <2>5. /\ pc[a] \in {"named", "write"} /\ sent' = sent
        /\ buffer'["app_sink"] = buffer["app_sink"] /\ batch'[a] = batch[a]
    BY <1>5 DEF WriteChunk
  <2> QED BY <2>2, <2>4, <2>5, FileKeepsOrder
<1>6. CASE WriteOk(a)
  <2>1. /\ pc[a] \in {"named", "write"} /\ sent' = sent
        /\ buffer'["app_sink"] = buffer["app_sink"] /\ batch'[a] = <<>>
    BY <1>6, <1>0 DEF WriteOk, TypeOK
  <2>2. files' = Created(stamp[a], batch[a], TRUE)
    BY <1>6 DEF WriteOk, Filled, FileThere
  <2> QED BY <1>0, <2>1, <2>2, FileKeepsOrder
<1>7. ASSUME /\ sent' = sent /\ files' = files /\ batch'[a] = <<>>
             /\ \/ buffer'["app_sink"] = buffer["app_sink"]
                \/ buffer'["app_sink"] = <<>>
      PROVE  Past' /\ WriteOrder'
  <2>1. /\ Range(batch'[a]) = {} /\ Ascending(batch'[a])
        /\ Range(buffer'["app_sink"]) \subseteq Range(buffer["app_sink"])
        /\ Ascending(buffer'["app_sink"])
    BY <1>7, EmptyRange, AscendingEmpty DEF WriteOrder
  <2>2. Past'
    BY <1>7, <2>1 DEF Past
  <2> QED BY <1>7, <2>1, <2>2 DEF WriteOrder, Before
<1>8. CASE WriteFail(a)
  BY <1>0, <1>7, <1>8 DEF WriteFail, TypeOK
<1>9. CASE Exit \/ Crash
  BY <1>0, <1>7, <1>9 DEF Exit, Crash, Vanish
<1>10. CASE Tick \/ Signal \/ HookDone \/ Restart
  BY <1>1, <1>10 DEF Tick, Signal, HookDone, Restart
<1>11. CASE UNCHANGED vars
  BY <1>1, <1>11 DEF vars
<1>12. CASE FlushStep(a)
  BY <1>3, <1>4, <1>5, <1>6, <1>8, <1>12, PopKeepsOrder DEF FlushStep
<1> QED BY <1>2, <1>9, <1>10, <1>11, <1>12, WriteKeepsOrder DEF Next

-----------------------------------------------------------------------------
(* No record vanishes. *)

Gone == dropped \cup lost
Queued == Range(buffer["app_sink"])
Held == Range(batch["app_task"])

\* The records in memory are those of the application's sink.
LEMMA MemoryIs ==
  ASSUME TypeOK, MainUnused
  PROVE  InMemory = Queued \cup Held
<1>1. /\ "app_task" \in Flushers /\ "app_sink" \in Sinks
      /\ batch["app_task"] \in Seq(Records) /\ buffer["app_sink"] \in Seq(Records)
  BY DEF Flushers, Sinks, TypeOK
<1>2. Queued \subseteq Records /\ Held \subseteq Records
  BY <1>1, RangeType DEF Queued, Held
<1>3. \A s \in Sinks : s = "app_sink" \/ Range(buffer[s]) = {}
  BY EmptyRange DEF Sinks, MainUnused
<1>4. \A f \in Flushers : f = "app_task" \/ Range(batch[f]) = {}
  BY EmptyRange DEF MainUnused
<1> QED BY <1>1, <1>2, <1>3, <1>4 DEF InMemory, Queued, Held

\* The same after a step.
LEMMA MemoryIsThen == (TypeOK /\ MainUnused)' => (InMemory = Queued \cup Held)'
<1>1. TypeOK /\ MainUnused => InMemory = Queued \cup Held
  BY MemoryIs
<1> QED BY <1>1, PTL

\* What a file that replaces no complete one adds to the records stored.
LEMMA StoredAfter ==
  ASSUME NEW n, NEW s \in Seq(Records), NEW c \in BOOLEAN, files' = Created(n, s, c),
         \A g \in files : g.complete => g.name # n
  PROVE  Stored' = IF c THEN Stored \cup Range(s) ELSE Stored
<1>1. CreatedFacts(n, s, c)
  BY CreatedMembers
<1>2. Range(s) \subseteq Records
  BY RangeType
<1>3. Stored \subseteq Stored'
  BY <1>1 DEF CreatedFacts, Stored
<1>4. CASE c
  <2>1. Range(s) \subseteq Stored'
    BY <1>1, <1>2, <1>4 DEF CreatedFacts, Stored
  <2>2. Stored' \subseteq Stored \cup Range(s)
    BY <1>1 DEF CreatedFacts, Stored
  <2> QED BY <1>3, <1>4, <2>1, <2>2
<1>5. CASE ~c
  <2>1. Stored' \subseteq Stored
    BY <1>1, <1>5 DEF CreatedFacts, Stored
  <2> QED BY <1>3, <1>5, <2>1
<1> QED BY <1>4, <1>5

\* All that a step can do to the records, seen from outside.
Quiet == UNCHANGED <<sent, InMemory, Stored, Gone>>
Taken == /\ sent' = sent + 1 /\ UNCHANGED Stored
         /\ \/ InMemory' = InMemory \cup {sent + 1} /\ UNCHANGED Gone
            \/ InMemory' = InMemory /\ Gone' = Gone \cup {sent + 1}
Written == UNCHANGED <<sent, Gone>> /\ Stored' = Stored \cup Held /\ InMemory' = Queued
Orphaned == /\ UNCHANGED <<sent, Stored, Gone>> /\ InMemory' = Queued
            /\ pc["app_task"] = "write" /\ \A g \in files : g.name # stamp["app_task"]
Failed == UNCHANGED <<sent, Stored>> /\ Gone' = Gone \cup Held /\ InMemory' = Queued
Ended == UNCHANGED <<sent, Stored>> /\ Gone' = Gone \cup InMemory /\ InMemory' = {}

LEMMA Effects ==
  ASSUME TypeOK, MainUnused, FileNames, (TypeOK /\ MainUnused)', [Next]_vars
  PROVE  Quiet \/ Taken \/ Written \/ Orphaned \/ Failed \/ Ended
<1> DEFINE a == "app_task"
           q == "app_sink"
<1>0. /\ a \in Flushers /\ q \in Sinks /\ batch[a] \in Seq(Records)
      /\ buffer[q] \in Seq(Records) /\ sent \in Nat /\ SinkOf(a) = q
  BY DEF Flushers, Sinks, TypeOK, SinkOf
<1>1. InMemory = Queued \cup Held /\ (InMemory = Queued \cup Held)'
  BY MemoryIs, MemoryIsThen
<1>2. ASSUME UNCHANGED <<sent, buffer, batch, files, dropped, lost>> PROVE Quiet
  BY <1>2 DEF Quiet, InMemory, Stored, Gone
<1>3. CASE Write
  <2>1. /\ sent' = sent + 1 /\ sent + 1 \in Records
        /\ UNCHANGED <<batch, files, lost>> /\ Stored' = Stored
    BY <1>0, <1>3, NumRecordsAssumption DEF Write, Records, Stored
  <2>2. CASE buffer' = [buffer EXCEPT ![q] = Append(buffer[q], sent + 1)] /\ dropped' = dropped
    <3>1. Queued' = Queued \cup {sent + 1} /\ Held' = Held
      BY <1>0, <2>1, <2>2, RangeAppend DEF Queued, Held, TypeOK
    <3> QED BY <1>1, <2>1, <2>2, <3>1 DEF Taken, Gone
  <2>3. CASE buffer' = buffer /\ dropped' = dropped \cup {sent + 1}
    BY <2>1, <2>3 DEF Taken, Gone, InMemory
  <2> QED BY <1>3, <2>2, <2>3 DEF Write, HandlerSink
<1>4. CASE Pop(a)
  <2>1. /\ batch'[a] = Append(batch[a], Head(buffer[q])) /\ buffer'[q] = Tail(buffer[q])
        /\ buffer[q] # <<>> /\ UNCHANGED <<sent, files, dropped, lost>>
    BY <1>4, <1>0 DEF Pop, TypeOK
  <2>2. Queued = Queued' \cup {Head(buffer[q])} /\ Head(buffer[q]) \in Records
    BY <2>1, <1>0, HeadAndTail DEF Queued
  <2>3. Held' = Held \cup {Head(buffer[q])}
    BY <2>1, <2>2, <1>0, RangeAppend DEF Held
  <2> QED BY <1>1, <2>1, <2>2, <2>3 DEF Quiet, Stored, Gone
<1>5. CASE OpenFile(a)
  <2>1. /\ files' = Created(stamp[a], <<>>, FALSE) /\ stamp[a] \in Nat
        /\ UNCHANGED <<sent, buffer, batch, dropped, lost>>
    BY <1>5, <1>0 DEF OpenFile, TypeOK
  <2>2. \A g \in files : g.name # stamp[a]
    BY <1>5 DEF OpenFile, FileNames, TypeOK, File
  <2>3. Stored' = Stored
    BY <2>1, <2>2, EmptyQueue, StoredAfter
  <2> QED BY <2>1, <2>3 DEF Quiet, InMemory, Gone
<1>6. CASE WriteChunk(a)
  <2>1. /\ UNCHANGED <<sent, buffer, batch, dropped, lost>>
        /\ \A g \in files : g.complete => g.name # stamp[a]
    BY <1>6, <1>0 DEF WriteChunk, TypeOK, FileNames
  <2>2. PICK g \in files : \E k \in (Len(g.recs) + 1)..(Len(batch[a]) - 1) :
          files' = Created(stamp[a], SubSeq(batch[a], 1, k), FALSE)
    BY <1>6 DEF WriteChunk
  <2>3. PICK k \in (Len(g.recs) + 1)..(Len(batch[a]) - 1) :
          files' = Created(stamp[a], SubSeq(batch[a], 1, k), FALSE)
    BY <2>2
  <2>4. k \in 1..Len(batch[a])
    <3>1. Len(g.recs) \in Nat /\ Len(batch[a]) \in Nat
      BY <1>0 DEF TypeOK, File
    <3> QED BY <3>1
  <2>5. SubSeq(batch[a], 1, k) \in Seq(Records)
    BY <1>0, <2>4, PrefixOf
  <2>6. Stored' = Stored
    BY <2>1, <2>3, <2>5, StoredAfter
  <2> QED BY <2>1, <2>6 DEF Quiet, InMemory, Gone
<1>7. CASE WriteOk(a)
  <2>1. /\ pc[a] = "write" /\ \A g \in files : g.complete => g.name # stamp[a]
    BY <1>7 DEF WriteOk, FileNames
  <2>2. /\ UNCHANGED <<sent, buffer, dropped, lost>> /\ batch'[a] = <<>>
    BY <1>7, <1>0 DEF WriteOk, TypeOK
  <2>3. Held' = {} /\ Queued' = Queued
    BY <2>2, EmptyRange DEF Held, Queued
  <2>4. CASE \E g \in files : g.name = stamp[a]
    <3>1. files' = Created(stamp[a], batch[a], TRUE)
      BY <1>7, <2>4 DEF WriteOk, Filled
    <3>2. Stored' = Stored \cup Held
      BY <1>0, <2>1, <3>1, StoredAfter DEF Held
    <3> QED BY <1>1, <2>2, <2>3, <3>2 DEF Written, Gone
  <2>5. CASE ~\E g \in files : g.name = stamp[a]
    <3>1. files' = files
      BY <1>7, <2>5 DEF WriteOk, Filled
    <3> QED BY <1>1, <2>1, <2>2, <2>3, <2>5, <3>1 DEF Orphaned, Gone, Stored
  <2> QED BY <2>4, <2>5
<1>8. CASE WriteFail(a)
  <2>1. /\ lost' = lost \cup Held /\ UNCHANGED <<sent, buffer, files, dropped>>
        /\ batch'[a] = <<>>
    BY <1>8, <1>0 DEF WriteFail, Held, TypeOK
  <2>2. Held' = {} /\ Queued' = Queued
    BY <2>1, EmptyRange DEF Held, Queued
  <2> QED BY <1>1, <2>1, <2>2 DEF Failed, Gone, Stored
<1>9. CASE Exit \/ Crash
  <2>1. /\ lost' = lost \cup InMemory /\ UNCHANGED <<sent, files, dropped>>
        /\ buffer'[q] = <<>> /\ batch'[a] = <<>>
    BY <1>9, <1>0 DEF Exit, Crash, Vanish
  <2>2. Held' = {} /\ Queued' = {}
    BY <2>1, EmptyRange DEF Held, Queued
  <2> QED BY <1>1, <2>1, <2>2 DEF Ended, Gone, Stored
<1>10. ASSUME NEW f \in Flushers, FlushStep(f), f # a PROVE Quiet
  BY <1>2, <1>10, OtherFlushers
<1>11. CASE Wake(a) \/ FlushEmpty(a) \/ NameFile(a)
  BY <1>2, <1>11 DEF Wake, FlushEmpty, NameFile
<1>12. CASE Tick \/ Signal \/ HookDone \/ Restart \/ UNCHANGED vars
  BY <1>2, <1>12 DEF Tick, Signal, HookDone, Restart, vars
<1>13. CASE FlushStep(a)
  BY <1>4, <1>5, <1>6, <1>7, <1>8, <1>11, <1>13 DEF FlushStep
<1> QED BY <1>3, <1>9, <1>10, <1>12, <1>13 DEF Next

\* Every step accounts for every record written.
LEMMA LossStep ==
  ASSUME TypeOK, MainUnused, FileNames, FileThere, NoSilentLoss, (TypeOK /\ MainUnused)',
         [Next]_vars
  PROVE  NoSilentLoss'
<1>1. InMemory = Queued \cup Held /\ sent \in Nat
  BY MemoryIs DEF TypeOK
<1>2. 1..(sent + 1) = 1..sent \cup {sent + 1}
  BY <1>1
<1>3. ~Orphaned
  BY DEF Orphaned, FileThere
<1>4. 1..sent \subseteq InMemory \cup Stored \cup Gone
  BY DEF NoSilentLoss, Gone
<1>5. 1..sent' \subseteq InMemory' \cup Stored' \cup Gone'
  BY <1>1, <1>2, <1>3, <1>4, Effects DEF Quiet, Taken, Written, Failed, Ended
<1> QED BY <1>5 DEF NoSilentLoss, Gone

-----------------------------------------------------------------------------
(* The theorems. *)

\* The inductive invariant holds initially.
LEMMA InitIndInv ==
  ASSUME Init PROVE MainUnused /\ FileNames /\ FileThere /\ Past /\ WriteOrder /\ NoSilentLoss
<1>1. /\ buffer["main_sink"] = <<>> /\ buffer["app_sink"] = <<>>
      /\ \A f \in Flushers : batch[f] = <<>> /\ stamp[f] = 0
      /\ files = {} /\ sent = 0 /\ now = 0 /\ server = "up"
      /\ pc["app_task"] = "sleep" /\ \A f \in Flushers : pc[f] \in {"idle", "sleep"}
      /\ "app_task" \in Flushers
  BY DEF Init, Sinks, Flushers, Tasks
<1>2. MainUnused /\ FileNames /\ FileThere
  BY <1>1 DEF MainUnused, FileNames, FileThere, Running
<1>3. Past /\ WriteOrder
  BY <1>1, EmptyRange, AscendingEmpty DEF Past, WriteOrder, Before
<1>4. NoSilentLoss
  BY <1>1 DEF NoSilentLoss
<1> QED BY <1>2, <1>3, <1>4

\* The inductive invariant, when the flush interval is not zero.
LEMMA Invariance ==
  ASSUME FlushIntervalSecs # 0
  PROVE  Spec => []IndInv
<1>1. Init /\ TypeOK => IndInv
  BY InitIndInv DEF IndInv
<1>2. IndInv /\ TypeOK' /\ [Next]_vars => IndInv'
  BY MainUnusedStep, FileNamesStep, FileThereStep, OrderStep, LossStep DEF IndInv
<1> QED BY <1>1, <1>2, TypeCorrect, PTL DEF Spec

(* No record handed to write() vanishes unnoticed, for any number of        *)
(* records, flush size, restarts and any non-zero flush interval.           *)
THEOREM NothingLostSilently ==
  ASSUME FlushIntervalSecs # 0
  PROVE  Spec => []NoSilentLoss
<1>1. IndInv => NoSilentLoss
  BY DEF IndInv
<1> QED BY <1>1, Invariance, PTL

(* The files hold the records in the order of the writes, each once. *)
THEOREM OrderKept ==
  ASSUME FlushIntervalSecs # 0
  PROVE  Spec => []WriteOrder
<1>1. IndInv => WriteOrder
  BY DEF IndInv
<1> QED BY <1>1, Invariance, PTL

(* No flush, before or after a restart, touches a completely written file. *)
THEOREM CompleteFilesStay ==
  ASSUME FlushIntervalSecs # 0
  PROVE  Spec => FilesImmutable
<1>1. IndInv /\ [Next]_vars => [\A g \in files : g.complete => g \in files']_vars
  <2> SUFFICES ASSUME IndInv, Next, NEW g \in files, g.complete
               PROVE  g \in files'
    BY DEF vars
  <2> USE DEF IndInv
  <2>1. ASSUME NEW n, NEW s, NEW c, files' = Created(n, s, c), g.name # n
        PROVE  g \in files'
    <3>1. CreatedFacts(n, s, c)
      BY CreatedMembers
    <3> QED BY <2>1, <3>1 DEF CreatedFacts
  <2>2. ASSUME NEW f \in Flushers, FlushStep(f), f # "app_task" PROVE g \in files'
    BY <2>2, OtherFlushers
  <2>3. CASE OpenFile("app_task")
    <3>1. g.name < stamp["app_task"] /\ g.name \in Nat /\ stamp["app_task"] \in Nat
      BY <2>3 DEF OpenFile, FileNames, TypeOK, File, Flushers
    <3>2. files' = Created(stamp["app_task"], <<>>, FALSE) /\ g.name # stamp["app_task"]
      BY <2>3, <3>1 DEF OpenFile
    <3> QED BY <2>1, <3>2
  <2>4. CASE WriteChunk("app_task") \/ WriteOk("app_task")
    <3>1. g.name # stamp["app_task"]
      BY <2>4 DEF WriteChunk, WriteOk, FileNames
    <3>2. \E s, c : files' = Created(stamp["app_task"], s, c)
      BY <2>4 DEF WriteChunk, WriteOk, Filled, FileThere
    <3> QED BY <2>1, <3>1, <3>2
  <2>5. CASE \/ Wake("app_task") \/ Pop("app_task") \/ FlushEmpty("app_task")
             \/ NameFile("app_task") \/ WriteFail("app_task")
    BY <2>5 DEF Wake, Pop, FlushEmpty, NameFile, WriteFail
  <2>6. CASE Write \/ Tick \/ Signal \/ HookDone \/ Exit \/ Crash \/ Restart
    BY <2>6 DEF Write, Tick, Signal, HookDone, Exit, Crash, Vanish, Restart
  <2> QED BY <2>2, <2>3, <2>4, <2>5, <2>6 DEF Next, FlushStep
<1> QED BY <1>1, Invariance, PTL DEF FilesImmutable, Spec

-----------------------------------------------------------------------------
(* The sink implements the log of RecordLog. *)

\* What is given up was written, and is not in memory any more.
Settled == Gone \subseteq 1..sent /\ InMemory \cap Gone = {}

\* Order and past, said of the records in memory and on disk.
LEMMA MemoryOrder ==
  ASSUME IndInv
  PROVE  /\ InMemory = Queued \cup Held /\ sent \in Nat
         /\ InMemory \subseteq 1..sent /\ Stored \subseteq 1..sent
         /\ \A r \in Stored, m \in InMemory : r < m
         /\ \A h \in Held, q \in Queued : h < q
         /\ 1..sent \subseteq InMemory \cup Stored \cup Gone
<1>1. InMemory = Queued \cup Held /\ sent \in Nat
  BY MemoryIs DEF IndInv, TypeOK
<1>2. InMemory \subseteq Records /\ Stored \subseteq Records
  BY DEF InMemory, Stored
<1>3. \A r \in Records : r <= sent => r \in 1..sent
  BY <1>1, NumRecordsAssumption DEF Records
<1>4. (\A m \in InMemory : m <= sent) /\ (\A r \in Stored : r <= sent)
  BY <1>1 DEF IndInv, Past, Stored, Queued, Held
<1>5. \A r \in Stored, m \in InMemory : r < m
  BY <1>1 DEF IndInv, WriteOrder, Before, Stored, Queued, Held
<1>6. \A h \in Held, q \in Queued : h < q
  BY DEF IndInv, WriteOrder, Before, Queued, Held
<1> QED BY <1>1, <1>2, <1>3, <1>4, <1>5, <1>6 DEF IndInv, NoSilentLoss, Gone

\* What is given up stays out of memory.
LEMMA SettledStep ==
  ASSUME IndInv, IndInv', Settled, [Next]_vars
  PROVE  Settled'
<1>1. /\ InMemory = Queued \cup Held /\ sent \in Nat /\ InMemory \subseteq 1..sent
      /\ \A h \in Held, q \in Queued : h < q
  BY MemoryOrder
<1>2. Held \cap Queued = {}
  <2>1. \A h \in Held : h \in Nat /\ ~(h < h)
    BY <1>1
  <2> QED BY <1>1, <2>1
<1>3. 1..sent \subseteq 1..(sent + 1) /\ sent + 1 \notin 1..sent /\ sent + 1 \in 1..(sent + 1)
  BY <1>1
<1>4. Quiet \/ Taken \/ Written \/ Failed \/ Ended
  BY Effects DEF IndInv, Orphaned, FileThere
<1> QED BY <1>1, <1>2, <1>3, <1>4
        DEF Settled, Quiet, Taken, Written, Failed, Ended

(* The sink, seen through the records stored and given up, is the log of    *)
(* RecordLog: a record is settled once and for good, and records are stored *)
(* oldest first.                                                            *)
THEOREM SinkImplementsLog ==
  ASSUME FlushIntervalSecs # 0
  PROVE  Spec => ImplementsRecordLog
<1>1. Init => Log!Init /\ Settled
  BY DEF Init, Log!Init, Settled, Stored, Gone
<1>2. IndInv /\ IndInv' /\ Settled /\ [Next]_vars => [Log!Next]_(Log!vars)
  <2> SUFFICES ASSUME IndInv, IndInv', Settled, [Next]_vars
               PROVE  [Log!Next]_(Log!vars)
    OBVIOUS
  <2> DEFINE pending == 1..sent \ (Stored \cup Gone)
  <2>1. /\ InMemory = Queued \cup Held /\ sent \in Nat
        /\ InMemory \subseteq 1..sent /\ \A r \in Stored, m \in InMemory : r < m
        /\ \A h \in Held, q \in Queued : h < q
        /\ 1..sent \subseteq InMemory \cup Stored \cup Gone
    BY MemoryOrder
  <2>2. InMemory \subseteq pending /\ pending \subseteq InMemory
    <3>1. \A m \in InMemory : m \in Nat /\ ~(m < m)
      BY <2>1
    <3> QED BY <2>1, <3>1 DEF Settled
  <2>3. Log!Pending = pending
    BY DEF Log!Pending, Gone
  <2> HIDE DEF pending
  <2>4. CASE Quiet
    BY <2>4 DEF Quiet, Log!vars, Gone
  <2>5. CASE Taken
    BY <2>5 DEF Taken, Log!Next, Log!Accept, Gone
  <2>6. CASE Written /\ Held # {}
    <3>1. Held \in SUBSET pending /\ \A r \in Held, p \in pending \ Held : r < p
      BY <2>1, <2>2
    <3>2. Log!Store
      BY <2>3, <2>6, <3>1 DEF Written, Log!Store, Gone
    <3> QED BY <3>2 DEF Log!Next
  <2>7. CASE Written /\ Held = {}
    BY <2>7 DEF Written, Log!vars, Gone
  <2>8. CASE Failed \/ Ended
    <3>1. Held \in SUBSET pending /\ InMemory \in SUBSET pending
      BY <2>1, <2>2
    <3>2. Log!GiveUp
      BY <2>3, <2>8, <3>1 DEF Failed, Ended, Log!GiveUp, Gone
    <3> QED BY <3>2 DEF Log!Next
  <2>9. ~Orphaned
    BY DEF IndInv, Orphaned, FileThere
  <2> QED BY <2>4, <2>5, <2>6, <2>7, <2>8, <2>9, Effects DEF IndInv
<1>3. IndInv /\ IndInv' /\ Settled /\ [Next]_vars => Settled'
  BY SettledStep
<1> QED BY <1>1, <1>2, <1>3, Invariance, PTL DEF Spec, ImplementsRecordLog, Log!Spec
-----------------------------------------------------------------------------
(* Exporting loses nothing.  A name stands for one content: whatever is     *)
(* complete under it, on disk, in the bucket or on the way there, holds the *)
(* same records.  What was read while it was written is incomplete, and its *)
(* records are among the raced ones.                                        *)

\* The bucket, and the objects on their way into it.
Uploads == objects \cup {body[x] : x \in {y \in Exporters : xpc[y] \in {"put", "delete"}}}
Versions == files \cup Uploads

ExportTypes ==
  /\ xpc \in [Exporters -> {"idle", "visit", "open", "put", "delete"}]
  /\ body \in [Exporters -> Object] /\ objects \subseteq Object /\ day \in Nat

\* What is uploaded has the name of a file that was there before.
UploadNames ==
  \A u \in Uploads : /\ u.name <= stamp["app_task"]
                     /\ pc["app_task"] = "named" => u.name < stamp["app_task"]

\* Complete versions of a file agree; where one is incomplete, it was raced.
SameContents ==
  \A v, w \in Versions : v.name = w.name /\ v.complete =>
    IF w.complete THEN w.recs = v.recs ELSE Range(v.recs) \subseteq raced

\* A file read or deleted while it is written holds raced records.
Raced ==
  pc["app_task"] = "write" =>
    /\ \A v \in Versions : v.name = stamp["app_task"] => ~v.complete
    /\ \/ Held \subseteq raced
       \/ /\ \A u \in Uploads : u.name # stamp["app_task"]
          /\ \E g \in files : g.name = stamp["app_task"]

\* A file is deleted after an object of its name was put.
PutBeforeDelete ==
  \A x \in Exporters : xpc[x] = "delete" => \E o \in objects : o.name = body[x].name

SinkInd == TypeOK /\ MainUnused /\ FileNames
UploadInd == ExportTypes /\ UploadNames /\ SameContents /\ Raced /\ PutBeforeDelete
ExportInd == SinkInd /\ UploadInd /\ NoExportLoss

\* What a step of the sink does to the file of its flush.
NamesGrow ==
  /\ stamp'["app_task"] \in Nat /\ stamp["app_task"] \in Nat
  /\ stamp["app_task"] <= stamp'["app_task"]
  /\ pc'["app_task"] = "named" =>
       \/ pc["app_task"] = "named" /\ stamp'["app_task"] = stamp["app_task"]
       \/ stamp["app_task"] < stamp'["app_task"]
  /\ pc'["app_task"] = "write" =>
       batch'["app_task"] = batch["app_task"] /\ stamp'["app_task"] = stamp["app_task"]
Elsewhere == files' = files /\ (pc'["app_task"] = "write" => pc["app_task"] = "write")
Opened == pc["app_task"] = "named" /\ files' = Created(stamp["app_task"], <<>>, FALSE)
Partly == pc["app_task"] = "write" /\ \E s : files' = Created(stamp["app_task"], s, FALSE)
Finished == /\ pc["app_task"] = "write" /\ pc'["app_task"] # "write"
            /\ files' = Created(stamp["app_task"], batch["app_task"], TRUE)

LEMMA FlushFile ==
  ASSUME FlushIntervalSecs # 0, SinkInd, [Next]_vars
  PROVE  NamesGrow /\ (Elsewhere \/ Opened \/ Partly \/ Finished)
<1> USE DEF SinkInd
<1> DEFINE a == "app_task"
<1>0. a \in Flushers /\ a \in Tasks /\ stamp[a] \in Nat /\ now \in Nat /\ stamp[a] <= now
  BY DEF Flushers, Tasks, TypeOK, FileNames
<1>1. ASSUME UNCHANGED <<files, stamp, batch>>, pc'[a] = pc[a] \/ pc'[a] \in {"idle", "sleep", "pop"}
      PROVE  NamesGrow /\ Elsewhere
  BY <1>0, <1>1 DEF NamesGrow, Elsewhere
<1>2. ASSUME NEW f \in Flushers, FlushStep(f), f # a PROVE NamesGrow /\ Elsewhere
  BY <1>1, <1>2, OtherFlushers
<1>3. CASE Wake(a) \/ FlushEmpty(a)
  BY <1>0, <1>1, <1>3 DEF Wake, FlushEmpty, Rest, TypeOK
<1>4. CASE Pop(a) \/ WriteFail(a)
  <2>1. UNCHANGED <<files, stamp>> /\ pc'[a] \in {"idle", "sleep", "pop"}
    BY <1>0, <1>4 DEF Pop, WriteFail, Rest, TypeOK
  <2> QED BY <1>0, <2>1 DEF NamesGrow, Elsewhere
<1>5. CASE NameFile(a)
  <2>1. UNCHANGED files /\ stamp'[a] = now /\ pc'[a] = "named" /\ stamp[a] < now
    BY <1>0, <1>5 DEF NameFile, FileNames, TypeOK
  <2> QED BY <1>0, <2>1 DEF NamesGrow, Elsewhere
<1>6. CASE OpenFile(a)
  <2>1. UNCHANGED <<stamp, batch>> /\ pc'[a] = "write"
    BY <1>0, <1>6 DEF OpenFile, TypeOK
  <2> QED BY <1>0, <1>6, <2>1 DEF NamesGrow, Opened, OpenFile
<1>7. CASE WriteChunk(a)
  <2>1. UNCHANGED <<stamp, batch, pc>> /\ pc[a] = "write"
    BY <1>7 DEF WriteChunk
  <2>2. NamesGrow
    BY <1>0, <2>1 DEF NamesGrow
  <2>3. \E s : files' = Created(stamp[a], s, FALSE)
    BY <1>7 DEF WriteChunk
  <2> QED BY <2>1, <2>2, <2>3 DEF Partly
<1>8. CASE WriteOk(a)
  <2>1. UNCHANGED stamp /\ pc'[a] \in {"idle", "sleep"} /\ pc[a] = "write"
    BY <1>0, <1>8 DEF WriteOk, Rest, TypeOK
  <2>2. files' = files \/ files' = Created(stamp[a], batch[a], TRUE)
    BY <1>8 DEF WriteOk, Filled
  <2>3. NamesGrow
    BY <1>0, <2>1 DEF NamesGrow
  <2> QED BY <2>1, <2>2, <2>3 DEF Elsewhere, Finished
<1>9. CASE FlushStep(a)
  BY <1>3, <1>4, <1>5, <1>6, <1>7, <1>8, <1>9 DEF FlushStep
<1>10. CASE Write \/ Tick \/ Signal \/ HookDone \/ UNCHANGED vars
  BY <1>0, <1>1, <1>10 DEF Write, Tick, Signal, HookDone, vars, TypeOK
<1>11. CASE Exit \/ Crash \/ Restart
  <2>1. UNCHANGED files /\ stamp'[a] \in {stamp[a], now} /\ pc'[a] \in {"idle", "sleep"}
    BY <1>0, <1>11 DEF Exit, Crash, Vanish, Restart, TypeOK
  <2> QED BY <1>0, <2>1 DEF NamesGrow, Elsewhere
<1> QED BY <1>2, <1>9, <1>10, <1>11 DEF Next

\* The sink's own invariant, also when an exporter deletes a file.
LEMMA SinkIndStep ==
  ASSUME FlushIntervalSecs # 0, SinkInd,
         [Next]_vars \/ \E x \in Exporters : DeleteFile(x)
  PROVE  SinkInd'
<1> USE DEF SinkInd
<1>1. CASE [Next]_vars
  BY <1>1, TypeStep, MainUnusedStep, FileNamesStep
<1>2. ASSUME NEW x \in Exporters, DeleteFile(x) PROVE SinkInd'
  <2>1. /\ files' \subseteq files
        /\ UNCHANGED <<sent, buffer, pc, batch, stamp, dropped, lost, now, server, restarts>>
    BY <1>2 DEF DeleteFile
  <2> QED BY <2>1 DEF TypeOK, MainUnused, FileNames, Running
<1> QED BY <1>1, <1>2

\* The versions of files after a step of the sink.
LEMMA UploadSinkStep ==
  ASSUME FlushIntervalSecs # 0, SinkInd, UploadInd, [Next]_vars,
         UNCHANGED <<objects, day, raced>>, ExportTypes', Uploads' \subseteq Uploads,
         \A x \in Exporters : xpc'[x] = "delete" => xpc[x] = "delete" /\ body'[x] = body[x]
  PROVE  UploadInd'
<1> USE DEF UploadInd
<1> DEFINE a == "app_task"
           n == stamp[a]
<1>1. NamesGrow
  BY FlushFile
<1>2. Elsewhere \/ Opened \/ Partly \/ Finished
  BY FlushFile
<1>3. UploadNames' /\ PutBeforeDelete'
  <2>1. \A u \in Uploads' : u \in Uploads /\ u.name \in Nat
    BY DEF ExportTypes, Uploads, Object
  <2>2. UploadNames'
    BY <1>1, <2>1 DEF UploadNames, NamesGrow
  <2> QED BY <2>2 DEF PutBeforeDelete
<1>4. CASE Elsewhere
  <2>1. Versions' \subseteq Versions
    BY <1>4 DEF Versions, Elsewhere
  <2>2. SameContents'
    BY <2>1 DEF SameContents
  <2>3. Raced'
    BY <1>1, <1>4, <2>1 DEF Raced, Held, NamesGrow, Elsewhere
  <2> QED BY <1>3, <2>2, <2>3
\* The file of the flush is created, and was not complete before.
<1>5. ASSUME NEW s, NEW c, files' = Created(n, s, c), c \in BOOLEAN,
             c => s = batch[a] /\ pc'[a] # "write",
             \A u \in Uploads : u.name = n => ~u.complete /\ Held \subseteq raced,
             pc'[a] = "write" => Held \subseteq raced \/ \A u \in Uploads : u.name # n
      PROVE  UploadInd'
  <2>1. /\ \E g \in files' : g.name = n
        /\ \A g \in files' : \/ g \in files /\ g.name # n
                             \/ g.name = n /\ g.recs = s /\ g.complete = c
    <3>1. CreatedFacts(n, s, c)
      BY CreatedMembers
    <3> QED BY <1>5, <3>1 DEF CreatedFacts
  <2>2. \A v \in Versions' : \/ v \in Versions /\ v.name # n
                             \/ v \in Uploads /\ v.name = n /\ ~v.complete /\ Held \subseteq raced
                             \/ v.name = n /\ v.recs = s /\ v.complete = c
    BY <1>5, <2>1 DEF Versions
  <2>3. SameContents'
    <3> SUFFICES ASSUME NEW v \in Versions', NEW w \in Versions', v.name = w.name, v.complete
                 PROVE  IF w.complete THEN w.recs = v.recs ELSE Range(v.recs) \subseteq raced
      BY DEF SameContents
    <3>1. CASE v \in Versions /\ v.name # n
      <4>1. w \in Versions
        BY <2>2, <3>1
      <4> QED BY <3>1, <4>1 DEF SameContents
    <3>2. CASE v.name = n
      <4>1. v.recs = s /\ c /\ Range(v.recs) = Held
        BY <1>5, <2>2, <3>2 DEF Held
      <4> QED BY <2>2, <3>2, <4>1
    <3> QED BY <2>2, <3>1, <3>2
  <2>4. Raced'
    <3> SUFFICES ASSUME pc'[a] = "write"
                 PROVE  /\ \A v \in Versions' : v.name = n => ~v.complete
                        /\ \/ Held \subseteq raced
                           \/ /\ \A u \in Uploads' : u.name # n
                              /\ \E g \in files' : g.name = n
      BY <1>1 DEF Raced, Held, NamesGrow
    <3> QED BY <1>5, <2>1, <2>2
  <2> QED BY <1>3, <2>3, <2>4
<1>6. CASE Opened
  <2>1. \A u \in Uploads : u.name # n
    <3>1. \A u \in Uploads : u.name < n /\ u.name \in Nat
      BY <1>6 DEF Opened, UploadNames, ExportTypes, Uploads, Object
    <3> QED BY <1>1, <3>1 DEF NamesGrow
  <2> QED BY <1>5, <1>6, <2>1 DEF Opened
<1>7. CASE Partly \/ Finished
  <2>1. /\ \A u \in Uploads : u.name = n => ~u.complete /\ Held \subseteq raced
        /\ Held \subseteq raced \/ \A u \in Uploads : u.name # n
    BY <1>7 DEF Raced, Versions, Partly, Finished
  <2> QED BY <1>5, <1>7, <2>1 DEF Partly, Finished
<1> QED BY <1>2, <1>4, <1>6, <1>7

\* A step of the sink accounts for the records as before.
LEMMA ExportSinkStep ==
  ASSUME FlushIntervalSecs # 0, ExportInd, SinkNext
  PROVE  ExportInd'
<1> USE DEF ExportInd
<1>1. /\ Next /\ UNCHANGED <<objects, day, raced>>
      /\ \/ UNCHANGED <<xpc, body>>
         \/ /\ xpc' = [x \in Exporters |-> "idle"]
            /\ body' = [x \in Exporters |-> NoBody]
  BY DEF SinkNext, Next, exportVars
<1>2. SinkInd'
  BY <1>1, SinkIndStep
<1>3. /\ ExportTypes' /\ Uploads' \subseteq Uploads
      /\ \A x \in Exporters : xpc'[x] = "delete" => xpc[x] = "delete" /\ body'[x] = body[x]
  <2>1. NoBody \in Object
    BY DEF NoBody, Object
  <2>2. CASE UNCHANGED <<xpc, body>>
    BY <1>1, <2>2 DEF UploadInd, ExportTypes, Uploads
  <2>3. CASE xpc' = [x \in Exporters |-> "idle"] /\ body' = [x \in Exporters |-> NoBody]
    <3>1. ExportTypes'
      BY <1>1, <2>1, <2>3 DEF UploadInd, ExportTypes
    <3>2. \A x \in Exporters : xpc'[x] = "idle"
      BY <2>3
    <3>3. Uploads' \subseteq Uploads
      BY <1>1, <3>2 DEF Uploads
    <3> QED BY <3>1, <3>2, <3>3
  <2> QED BY <1>1, <2>2, <2>3
<1>4. UploadInd'
  BY <1>1, <1>3, UploadSinkStep
<1>5. NoExportLoss'
  <2>1. InMemory = Queued \cup Held /\ sent \in Nat
    BY MemoryIs DEF SinkInd, TypeOK
  <2>2. 1..(sent + 1) = 1..sent \cup {sent + 1}
    BY <2>1
  <2>3. Exported' = Exported
    BY <1>1 DEF Exported
  <2>4. Orphaned => Held \subseteq raced
    BY DEF Orphaned, UploadInd, Raced
  <2>5. 1..sent \subseteq InMemory \cup Stored \cup Exported \cup Gone \cup raced
    BY DEF NoExportLoss, Gone
  <2>6. Quiet \/ Taken \/ Written \/ Orphaned \/ Failed \/ Ended
    BY <1>1, <1>2, Effects DEF SinkInd
  <2>7. (1..sent \subseteq InMemory \cup Stored \cup Exported \cup Gone \cup raced)'
    BY <1>1, <2>1, <2>2, <2>3, <2>4, <2>5, <2>6
    DEF Quiet, Taken, Written, Orphaned, Failed, Ended
  <2> QED BY <2>7 DEF NoExportLoss, Gone
<1> QED BY <1>2, <1>4, <1>5

\* An exporter's step that puts nothing and deletes nothing.
LEMMA ExportIdleStep ==
  ASSUME ExportInd, NEW x \in Exporters, UNCHANGED <<vars, objects, day, raced>>,
         xpc' = [xpc EXCEPT ![x] = xpc'[x]] /\ xpc'[x] \in {"idle", "visit", "open"},
         body' = [body EXCEPT ![x] = body'[x]] /\ body'[x] \in Object
  PROVE  ExportInd'
<1> USE DEF ExportInd, UploadInd
<1>1. ExportTypes' /\ \A y \in Exporters \ {x} : xpc'[y] = xpc[y] /\ body'[y] = body[y]
  BY DEF ExportTypes
<1>2. Uploads' \subseteq Uploads /\ PutBeforeDelete'
  BY <1>1 DEF Uploads, PutBeforeDelete
<1>3. Versions' \subseteq Versions
  BY <1>2 DEF Versions, vars
<1>4. UploadNames' /\ SameContents' /\ Raced'
  <2>1. UNCHANGED <<pc, stamp, batch, files, raced>> /\ Held' = Held
    BY DEF vars, Held
  <2>2. UploadNames' /\ SameContents'
    BY <1>2, <1>3, <2>1 DEF UploadNames, SameContents
  <2> QED BY <1>2, <1>3, <2>1, <2>2 DEF Raced
<1>5. SinkInd' /\ NoExportLoss'
  BY DEF vars, SinkInd, TypeOK, MainUnused, FileNames, Running, NoExportLoss, InMemory, Stored,
         Exported
<1> QED BY <1>1, <1>2, <1>4, <1>5

\* An exporter reads a file: what it uploads is another version of it.
LEMMA ReadStep ==
  ASSUME ExportInd, NEW x \in Exporters, ReadFile(x)
  PROVE  ExportInd'
<1> USE DEF ExportInd, UploadInd
<1>1. CASE body[x].name \notin Names /\ Done(x) /\ UNCHANGED raced
  <2>1. /\ xpc' = [xpc EXCEPT ![x] = "visit"] /\ body' = [body EXCEPT ![x] = NoBody]
        /\ UNCHANGED <<vars, objects, day>> /\ NoBody \in Object
    BY <1>1 DEF ReadFile, Done, NoBody, Object
  <2>2. xpc'[x] = "visit" /\ body'[x] = NoBody
    BY <2>1 DEF ExportTypes
  <2> QED BY <1>1, <2>1, <2>2, ExportIdleStep
<1>2. CASE \E g \in files :
             /\ g.name = body[x].name
             /\ xpc' = [xpc EXCEPT ![x] = "put"]
             /\ body' = [body EXCEPT ![x].recs = g.recs, ![x].complete = g.complete]
             /\ raced' = raced \cup UnderWay(g)
  <2>1. PICK g \in files :
             /\ g.name = body[x].name
             /\ xpc' = [xpc EXCEPT ![x] = "put"]
             /\ body' = [body EXCEPT ![x].recs = g.recs, ![x].complete = g.complete]
             /\ raced' = raced \cup UnderWay(g)
    BY <1>2
  <2>2. UNCHANGED <<vars, objects, day>>
    BY DEF ReadFile
  <2> DEFINE b == [[body[x] EXCEPT !.recs = g.recs] EXCEPT !.complete = g.complete]
  <2>3. b \in Object /\ b.name = g.name /\ b.recs = g.recs /\ b.complete = g.complete
    <3>1. g \in File /\ body[x] \in Object
      BY DEF SinkInd, TypeOK, ExportTypes
    <3> QED BY <2>1, <3>1 DEF Object, File
  <2>4. body'[x] = b /\ \A y \in Exporters \ {x} : body'[y] = body[y]
    BY <2>1 DEF ExportTypes
  <2> HIDE DEF b
  <2>5. body' = [body EXCEPT ![x] = b]
    BY <2>1, <2>4 DEF ExportTypes
  <2>6. ExportTypes'
    BY <2>1, <2>2, <2>3, <2>5 DEF ExportTypes
  <2>7. xpc'[x] = "put" /\ \A y \in Exporters \ {x} : xpc'[y] = xpc[y]
    BY <2>1 DEF ExportTypes
  <2>8. Uploads' \subseteq Uploads \cup {b} /\ PutBeforeDelete'
    BY <2>2, <2>4, <2>7 DEF Uploads, PutBeforeDelete
  <2>9. UNCHANGED <<pc, stamp, batch, files, buffer, sent, dropped, lost>> /\ Held' = Held
    BY <2>2 DEF vars, Held
  <2>10. raced \subseteq raced'
    BY <2>1
  <2>11. UploadNames'
    <3>1. /\ g.name <= stamp["app_task"]
          /\ pc["app_task"] = "named" => g.name < stamp["app_task"]
      BY DEF SinkInd, FileNames
    <3> QED BY <2>3, <2>8, <2>9, <3>1 DEF UploadNames
  <2>12. \A v \in Versions' : \E w \in Versions : /\ w.name = v.name /\ w.recs = v.recs
                                                  /\ w.complete = v.complete
    BY <2>3, <2>8, <2>9 DEF Versions
  <2>13. SameContents'
    <3> SUFFICES ASSUME NEW v \in Versions', NEW w \in Versions', v.name = w.name, v.complete
                 PROVE  IF w.complete THEN w.recs = v.recs ELSE Range(v.recs) \subseteq raced'
      BY DEF SameContents
    <3>1. PICK v1 \in Versions : v1.name = v.name /\ v1.recs = v.recs /\ v1.complete = v.complete
      BY <2>12
    <3>2. PICK w1 \in Versions : w1.name = w.name /\ w1.recs = w.recs /\ w1.complete = w.complete
      BY <2>12
    <3>3. IF w1.complete THEN w1.recs = v1.recs ELSE Range(v1.recs) \subseteq raced
      BY <3>1, <3>2 DEF SameContents
    <3> QED BY <2>10, <3>1, <3>2, <3>3
  <2>14. Raced'
    <3> SUFFICES ASSUME pc["app_task"] = "write"
                 PROVE  /\ \A v \in Versions' : v.name = stamp["app_task"] => ~v.complete
                        /\ \/ Held \subseteq raced'
                           \/ /\ \A u \in Uploads' : u.name # stamp["app_task"]
                              /\ \E h \in files : h.name = stamp["app_task"]
      BY <2>9 DEF Raced
    <3>1. \A v \in Versions' : v.name = stamp["app_task"] => ~v.complete
      BY <2>12 DEF Raced
    <3>2. CASE g.name = stamp["app_task"]
      <4>1. "app_task" \in Flushers /\ Held \subseteq Records
        BY RangeType DEF Flushers, SinkInd, TypeOK, Held
      <4>2. Held \subseteq UnderWay(g)
        BY <3>2, <4>1 DEF UnderWay, Held
      <4> QED BY <2>1, <3>1, <4>2
    <3>3. CASE g.name # stamp["app_task"]
      BY <2>3, <2>8, <2>10, <3>1, <3>3 DEF Raced
    <3> QED BY <3>2, <3>3
  <2>15. SinkInd'
    BY <2>2 DEF vars, SinkInd, TypeOK, MainUnused, FileNames, Running
  <2>16. NoExportLoss'
    BY <2>2, <2>9, <2>10 DEF NoExportLoss, InMemory, Stored, Exported
  <2> QED BY <2>6, <2>8, <2>11, <2>13, <2>14, <2>15, <2>16
<1> QED BY <1>1, <1>2 DEF ReadFile

\* A put replaces the object of its key by another version of the same file.
LEMMA PutStep ==
  ASSUME ExportInd, NEW x \in Exporters, PutOk(x)
  PROVE  ExportInd'
<1> USE DEF ExportInd, UploadInd
<1> DEFINE b == body[x]
<1>1. /\ xpc[x] = "put" /\ objects' = WithObject(b) /\ UNCHANGED <<vars, day, raced>>
      /\ \/ xpc' = [xpc EXCEPT ![x] = "delete"] /\ UNCHANGED body
         \/ xpc' = [xpc EXCEPT ![x] = "visit"] /\ body' = [body EXCEPT ![x] = NoBody]
  BY DEF PutOk, Done
<1>2. b \in Object /\ NoBody \in Object /\ b \in Uploads
  BY <1>1 DEF ExportTypes, Uploads, NoBody, Object
<1>3. /\ b \in objects' /\ objects' \subseteq objects \cup {b}
      /\ \A o \in objects : o \in objects' \/ o.name = b.name
  BY <1>1 DEF WithObject
<1>4. ExportTypes'
  BY <1>1, <1>2, <1>3 DEF ExportTypes
<1>5. /\ xpc'[x] = "delete" => body'[x] = b
      /\ xpc'[x] \in {"delete", "visit"}
      /\ \A y \in Exporters \ {x} : xpc'[y] = xpc[y] /\ body'[y] = body[y]
  BY <1>1 DEF ExportTypes
<1>6. Uploads' \subseteq Uploads
  BY <1>2, <1>3, <1>5 DEF Uploads
<1>7. PutBeforeDelete'
  BY <1>3, <1>5 DEF PutBeforeDelete
<1>8. UNCHANGED <<pc, stamp, batch, files, raced, buffer, sent, dropped, lost>> /\ Held' = Held
  BY <1>1 DEF vars, Held
<1>9. Versions' \subseteq Versions
  BY <1>6, <1>8 DEF Versions
<1>10. UploadNames' /\ SameContents'
  BY <1>6, <1>8, <1>9 DEF UploadNames, SameContents
<1>11. Raced'
  BY <1>6, <1>8, <1>9 DEF Raced
<1>12. SinkInd'
  BY <1>1 DEF vars, SinkInd, TypeOK, MainUnused, FileNames, Running
<1>13. Exported \subseteq Exported' \cup raced
  <2> SUFFICES ASSUME NEW r \in Records, NEW o \in objects, o.complete, r \in Range(o.recs)
               PROVE  r \in Exported' \cup raced
    BY DEF Exported
  <2>1. CASE o \in objects'
    BY <2>1 DEF Exported
  <2>2. CASE o.name = b.name
    <3>1. IF b.complete THEN b.recs = o.recs ELSE Range(o.recs) \subseteq raced
      BY <1>2, <2>2 DEF SameContents, Versions, Uploads
    <3> QED BY <1>3, <3>1 DEF Exported
  <2> QED BY <1>3, <2>1, <2>2
<1>14. NoExportLoss'
  <2>1. InMemory' = InMemory /\ Stored' = Stored
    BY <1>8 DEF InMemory, Stored
  <2> QED BY <1>8, <1>13, <2>1 DEF NoExportLoss
<1> QED BY <1>4, <1>7, <1>10, <1>11, <1>12, <1>14

\* The file that is deleted is in the bucket, or raced.
LEMMA DeleteStep ==
  ASSUME FlushIntervalSecs # 0, ExportInd, NEW x \in Exporters, DeleteFile(x)
  PROVE  ExportInd'
<1> USE DEF ExportInd, UploadInd
<1> DEFINE b == body[x]
<1>1. /\ xpc[x] = "delete" /\ files' \subseteq files
      /\ \A g \in files : g.name # b.name => g \in files'
      /\ xpc' = [xpc EXCEPT ![x] = "visit"] /\ body' = [body EXCEPT ![x] = NoBody]
      /\ UNCHANGED <<sent, buffer, pc, batch, stamp, dropped, lost, objects, day, raced>>
  BY DEF DeleteFile, Done
<1>2. b \in Uploads /\ NoBody \in Object
  BY <1>1 DEF Uploads, NoBody, Object
<1>3. ExportTypes' /\ xpc'[x] = "visit"
        /\ \A y \in Exporters \ {x} : xpc'[y] = xpc[y] /\ body'[y] = body[y]
  BY <1>1, <1>2 DEF ExportTypes
<1>4. Uploads' \subseteq Uploads /\ PutBeforeDelete'
  BY <1>1, <1>3 DEF Uploads, PutBeforeDelete
<1>5. Versions' \subseteq Versions /\ Held' = Held
  BY <1>1, <1>4 DEF Versions, Held
<1>6. UploadNames' /\ SameContents'
  BY <1>1, <1>4, <1>5 DEF UploadNames, SameContents
<1>7. Raced'
  <2> SUFFICES ASSUME pc["app_task"] = "write"
               PROVE  /\ \A v \in Versions' : v.name = stamp["app_task"] => ~v.complete
                      /\ \/ Held \subseteq raced
                         \/ /\ \A u \in Uploads' : u.name # stamp["app_task"]
                            /\ \E g \in files' : g.name = stamp["app_task"]
    BY <1>1, <1>5 DEF Raced
  <2>1. \A v \in Versions' : v.name = stamp["app_task"] => ~v.complete
    BY <1>5 DEF Raced
  <2>2. CASE b.name = stamp["app_task"]
    BY <1>2, <2>1, <2>2 DEF Raced
  <2>3. CASE b.name # stamp["app_task"]
    <3>1. \A g \in files : g.name = stamp["app_task"] => g \in files'
      BY <1>1, <2>3
    <3> QED BY <1>4, <2>1, <3>1 DEF Raced
  <2> QED BY <2>2, <2>3
<1>8. SinkInd'
  BY SinkIndStep
<1>9. Stored \subseteq Stored' \cup Exported \cup raced
  <2> SUFFICES ASSUME NEW r \in Records, NEW g \in files, g.complete, r \in Range(g.recs)
               PROVE  r \in Stored' \cup Exported \cup raced
    BY DEF Stored
  <2>1. CASE g.name # b.name
    BY <1>1, <2>1 DEF Stored
  <2>2. CASE g.name = b.name
    <3>1. PICK o \in objects : o.name = g.name
      BY <1>1, <2>2 DEF PutBeforeDelete
    <3>2. IF o.complete THEN o.recs = g.recs ELSE Range(g.recs) \subseteq raced
      BY <3>1 DEF SameContents, Versions, Uploads
    <3> QED BY <3>1, <3>2 DEF Exported
  <2> QED BY <2>1, <2>2
<1>10. NoExportLoss'
  <2>1. InMemory' = InMemory /\ Exported' = Exported
    BY <1>1 DEF InMemory, Exported
  <2> QED BY <1>1, <1>9, <2>1 DEF NoExportLoss
<1> QED BY <1>3, <1>4, <1>6, <1>7, <1>8, <1>10

(* Two exporters that upload and delete the files lose no stored record but *)
(* those of a file read while it was written: for any number of records,    *)
(* flush size, restarts and days, with deletion or without, and any flush   *)
(* interval but zero.                                                       *)
THEOREM ExportLosesNothing ==
  ASSUME FlushIntervalSecs # 0
  PROVE  ExportSpec => []NoExportLoss
<1>1. ExportInit => ExportInd
  <2> SUFFICES ASSUME ExportInit PROVE ExportInd
    OBVIOUS
  <2>1. Init /\ TypeOK /\ MainUnused /\ FileNames
    BY TypeStart, InitIndInv DEF ExportInit
  <2>2. NoBody \in Object
    BY DEF NoBody, Object
  <2>3. ExportTypes /\ PutBeforeDelete /\ Uploads = {} /\ files = {}
    BY <2>1, <2>2 DEF ExportInit, ExportTypes, PutBeforeDelete, Uploads, Init
  <2>4. UploadNames /\ SameContents
    BY <2>3 DEF UploadNames, SameContents, Versions
  <2>5. Raced /\ NoExportLoss
    BY <2>1 DEF Raced, NoExportLoss, Init, Flushers, Tasks
  <2> QED BY <2>1, <2>3, <2>4, <2>5 DEF ExportInd, UploadInd, SinkInd
<1>2. ExportInd /\ [ExportNext]_allVars => ExportInd'
  <2> SUFFICES ASSUME ExportInd, [ExportNext]_allVars PROVE ExportInd'
    OBVIOUS
  <2>1. ASSUME NEW x \in Exporters, UNCHANGED <<vars, objects, day, raced>>,
               UNCHANGED xpc \/ xpc' = [xpc EXCEPT ![x] = "idle"]
                 \/ xpc' = [xpc EXCEPT ![x] = "visit"] \/ xpc' = [xpc EXCEPT ![x] = "open"],
               xpc[x] \notin {"put", "delete"} \/ xpc'[x] = "visit",
               UNCHANGED body
                 \/ \E c \in Object : body' = [body EXCEPT ![x] = c]
        PROVE  ExportInd'
    <3>1. /\ xpc' = [xpc EXCEPT ![x] = xpc'[x]] /\ xpc'[x] \in {"idle", "visit", "open"}
          /\ body' = [body EXCEPT ![x] = body'[x]] /\ body'[x] \in Object
      BY <2>1 DEF ExportInd, UploadInd, ExportTypes
    <3> QED BY <2>1, <3>1, ExportIdleStep
  <2>2. ASSUME NEW x \in Exporters, StartExport(x) \/ EndExport(x) PROVE ExportInd'
    BY <2>1, <2>2 DEF StartExport, EndExport
  <2>3. ASSUME NEW x \in Exporters, NEW n \in todo[x], Visit(x, n) PROVE ExportInd'
    <3>1. CASE n \notin Names
      BY <2>1, <2>3, <3>1 DEF Visit, Names
    <3>2. CASE n \in Names
      <4>1. n \in Nat /\ day \in Nat
        BY <3>2 DEF Names, ExportInd, SinkInd, UploadInd, TypeOK, ExportTypes, File
      <4>2. [NoBody EXCEPT !.day = day, !.name = n] \in Object
        <5>1. NoBody \in Object
          BY DEF NoBody, Object
        <5> QED BY <4>1, <5>1 DEF Object
      <4>3. xpc[x] = "visit" /\ UNCHANGED <<vars, objects, day, raced>>
        BY <2>3 DEF Visit
      <4>4. \/ UNCHANGED <<xpc, body>>
            \/ /\ xpc' = [xpc EXCEPT ![x] = "open"]
               /\ body' = [body EXCEPT ![x] = [NoBody EXCEPT !.day = day, !.name = n]]
        BY <2>3, <3>2 DEF Visit
      <4> QED BY <2>1, <4>2, <4>3, <4>4
    <3> QED BY <3>1, <3>2
  <2>4. ASSUME NEW x \in Exporters, PutFail(x) PROVE ExportInd'
    <3>1. NoBody \in Object
      BY DEF NoBody, Object
    <3>2. xpc'[x] = "visit"
      BY <2>4 DEF PutFail, Done, ExportInd, UploadInd, ExportTypes
    <3> QED BY <2>1, <2>4, <3>1, <3>2 DEF PutFail, Done
  <2>5. ASSUME NEW x \in Exporters, ExportStep(x) PROVE ExportInd'
    BY <2>2, <2>3, <2>4, <2>5, ReadStep, PutStep, DeleteStep DEF ExportStep
  <2>6. CASE Midnight \/ UNCHANGED allVars
    <3>1. UNCHANGED <<vars, xpc, body, objects, raced>> /\ day' \in {day, day + 1}
      BY <2>6 DEF Midnight, allVars, exportVars
    <3>2. UploadInd'
      <4>1. ExportTypes'
        BY <3>1 DEF ExportInd, UploadInd, ExportTypes
      <4>2. UNCHANGED <<Uploads, files, Held, pc, stamp>>
        BY <3>1 DEF vars, Uploads, Held
      <4>3. UNCHANGED Versions
        BY <4>2 DEF Versions
      <4>4. UploadNames' /\ SameContents' /\ PutBeforeDelete'
        BY <3>1, <4>2, <4>3
        DEF ExportInd, UploadInd, UploadNames, SameContents, PutBeforeDelete
      <4>5. Raced'
        BY <3>1, <4>2, <4>3 DEF ExportInd, UploadInd, Raced
      <4> QED BY <4>1, <4>4, <4>5 DEF UploadInd
    <3>3. SinkInd' /\ NoExportLoss'
      BY <3>1 DEF ExportInd, vars, SinkInd, TypeOK, MainUnused, FileNames, Running, NoExportLoss,
                  InMemory, Stored, Exported
    <3> QED BY <3>2, <3>3 DEF ExportInd
  <2> QED BY <2>5, <2>6, ExportSinkStep DEF ExportNext
<1>3. ExportInd => NoExportLoss
  BY DEF ExportInd
<1> QED BY <1>1, <1>2, <1>3, PTL DEF ExportSpec
=============================================================================
