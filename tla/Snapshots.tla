----------------------------- MODULE Snapshots -----------------------------
(***************************************************************************)
(* Snapshots of the baseline (model_trainer.rs): a background task loads   *)
(* the newest one at the start while records already update the baseline   *)
(* (baseline_model.rs), another saves one every midnight - or in the last  *)
(* second before it, since the time to sleep is cut to whole seconds - and *)
(* deletes old ones.  The gateway may crash at any point.                  *)
(*                                                                         *)
(* Of a baseline the number of its samples is modelled, of an AS the days  *)
(* on which it was seen.                                                   *)
(***************************************************************************)
EXTENDS Integers

CONSTANTS SnapPrefixes, SnapAsns,
          RetentionDays,
          MaxDay,       \* bound: the last day
          MaxSamples,   \* bound: samples of a prefix
          MaxSaves,     \* bound: snapshots begun
          MaxCrashes    \* bound: crashes

ASSUME SnapBounds == {MaxDay, MaxSamples, MaxSaves, MaxCrashes} \subseteq Nat
ASSUME RetentionAssumption == RetentionDays \in Nat

Days == 0..MaxDay
Snapshot == [samples: [SnapPrefixes -> 0..MaxSamples], days: [SnapAsns -> SUBSET Days]]
NoFile == [none |-> TRUE]
Truncated == [partial |-> TRUE]   \* being written

EmptyModel == [samples |-> [p \in SnapPrefixes |-> 0], days |-> [a \in SnapAsns |-> {}]]

VARIABLES
  day, lastSecond,  \* the time: the day, and whether its last second has begun
  model,    \* the BaselineModel
  files,    \* [Days -> NoFile, Truncated or the snapshot baseline_<day>.json]
  mtime,    \* [Days -> when it was written]
  tmp,      \* the temporary file
  loader,   \* "find", "read", "insert", "done"
  found,    \* the day of the newest file
  snapshot, \* what was read
  toInsert, \* prefixes to insert yet
  saver,    \* "sleep", "collect", "create", "write", "rename", "cleanup"
  slept,    \* the day on which the task went to sleep
  content,  \* what is to be saved
  name,     \* the day in the file's name
  saves, crashes,
  lastSaved \* history: the last snapshot put in place

loadVars == <<loader, found, snapshot, toInsert>>
saveVars == <<saver, slept, content, name, saves>>
snapVars == <<day, lastSecond, model, files, mtime, tmp, loadVars, saveVars, crashes, lastSaved>>

\* At the first start there is a snapshot from an earlier version, or none.
SnapInit ==
  /\ day = 0 /\ lastSecond = FALSE
  /\ model = EmptyModel
  /\ \E s \in {NoFile, [samples |-> [p \in SnapPrefixes |-> 1],
                        days |-> [a \in SnapAsns |-> {0}]]} :
       files = [d \in Days |-> IF d = 0 THEN s ELSE NoFile] /\ lastSaved = s
  /\ mtime = [d \in Days |-> 0]
  /\ tmp = NoFile
  /\ loader = "find" /\ found = 0 /\ snapshot = EmptyModel /\ toInsert = {}
  /\ saver = "sleep" /\ slept = 0 /\ content = EmptyModel /\ name = 0 /\ saves = 0
  /\ crashes = 0

Files == {d \in Days : files[d] # NoFile}

(* BaselineModel::update() of a record received over HTTP. *)
UpdateBaseline(p) ==
  /\ model.samples[p] < MaxSamples
  /\ model' = [model EXCEPT !.samples[p] = @ + 1]
  /\ UNCHANGED <<day, lastSecond, files, mtime, tmp, loadVars, saveVars, crashes, lastSaved>>

-----------------------------------------------------------------------------
(* load_snapshot_on_startup(): the newest file by time of modification. *)
FindNewest ==
  /\ loader = "find"
  /\ IF Files = {} THEN loader' = "done" /\ UNCHANGED found
     ELSE /\ found' \in {d \in Files : \A e \in Files : mtime[e] <= mtime[d]}
          /\ loader' = "read"
  /\ UNCHANGED <<day, lastSecond, model, files, mtime, tmp, snapshot, toInsert, saveVars, crashes,
                 lastSaved>>

(* It is read and parsed; if it is gone or incomplete, nothing is loaded.   *)
ReadSnapshot ==
  /\ loader = "read"
  /\ IF files[found] \in {NoFile, Truncated}
     THEN loader' = "done" /\ UNCHANGED <<snapshot, toInsert>>
     ELSE /\ loader' = "insert" /\ snapshot' = files[found]
          /\ toInsert' = {p \in SnapPrefixes : files[found].samples[p] > 0}
  /\ UNCHANGED <<day, lastSecond, model, files, mtime, tmp, found, saveVars, crashes, lastSaved>>

(* baselines().insert(): over whatever was learnt since the start.          *)
InsertPrefix(p) ==
  /\ loader = "insert" /\ p \in toInsert
  /\ model' = [model EXCEPT !.samples[p] = snapshot.samples[p]]
  /\ toInsert' = toInsert \ {p}
  /\ UNCHANGED <<day, lastSecond, files, mtime, tmp, loader, found, snapshot, saveVars, crashes,
                 lastSaved>>

(* record_as_seen() of the days of every AS. *)
InsertDays ==
  /\ loader = "insert" /\ toInsert = {}
  /\ model' = [model EXCEPT !.days = [a \in SnapAsns |-> @[a] \cup snapshot.days[a]]]
  /\ loader' = "done"
  /\ UNCHANGED <<day, lastSecond, files, mtime, tmp, found, snapshot, toInsert, saveVars, crashes,
                 lastSaved>>

-----------------------------------------------------------------------------
(* run_daily(): wakes in the last second of the day, again and again, or    *)
(* after midnight.                                                          *)
WakeDaily ==
  /\ saver = "sleep" /\ saves < MaxSaves
  /\ lastSecond \/ day > slept
  /\ saver' = "collect" /\ saves' = saves + 1
  /\ UNCHANGED <<day, lastSecond, model, files, mtime, tmp, loadVars, slept, content, name, crashes,
                 lastSaved>>

(* save_snapshot() collects the states and names the file.                  *)
Collect ==
  /\ saver = "collect"
  /\ content' = model /\ name' = day
  /\ saver' = "create"
  /\ UNCHANGED <<day, lastSecond, model, files, mtime, tmp, loadVars, slept, saves, crashes,
                 lastSaved>>

\* Mutation: the snapshot is written under its own name.
CreateInPlace ==
  /\ saver = "create"
  /\ tmp' = Truncated /\ files' = [files EXCEPT ![name] = Truncated]
  /\ saver' = "write"
  /\ UNCHANGED <<day, lastSecond, model, mtime, loadVars, slept, content, name, saves,
                 crashes, lastSaved>>

(* fs::write() of the temporary file truncates it ... *)
CreateTmp ==
  /\ saver = "create"
  /\ tmp' = Truncated
  /\ saver' = "write"
  /\ UNCHANGED <<day, lastSecond, model, files, mtime, loadVars, slept, content, name, saves,
                 crashes, lastSaved>>

(* ... and fills it. *)
WriteTmp ==
  /\ saver = "write"
  /\ tmp' = content
  /\ saver' = "rename"
  /\ UNCHANGED <<day, lastSecond, model, files, mtime, loadVars, slept, content, name, saves,
                 crashes, lastSaved>>

(* fs::rename() puts it in the place of the day's file, if there is one.    *)
RenameTmp ==
  /\ saver = "rename"
  /\ files' = [files EXCEPT ![name] = tmp] /\ tmp' = NoFile
  /\ mtime' = [mtime EXCEPT ![name] = saves]
  /\ lastSaved' = content
  /\ saver' = "cleanup"
  /\ UNCHANGED <<day, lastSecond, model, loadVars, slept, content, name, saves, crashes>>

(* A step of save_snapshot() fails: there is the next midnight. *)
SaveFails ==
  /\ saver \in {"create", "write", "rename"}
  /\ saver' = "sleep" /\ slept' = day
  /\ UNCHANGED <<day, lastSecond, model, files, mtime, tmp, loadVars, content, name, saves, crashes,
                 lastSaved>>

\* The files older than RetentionDays, reckoned from the midnight they are named for.
Outdated == {d \in Files : d <= day - RetentionDays}

(* cleanup_old_snapshots(); what cannot be deleted stays. *)
Cleanup ==
  /\ saver = "cleanup"
  /\ \E gone \in SUBSET Outdated :
       files' = [d \in Days |-> IF d \in gone THEN NoFile ELSE files[d]]
  /\ saver' = "sleep" /\ slept' = day
  /\ UNCHANGED <<day, lastSecond, model, mtime, tmp, loadVars, content, name, saves, crashes,
                 lastSaved>>

-----------------------------------------------------------------------------
(* Saving takes less than a day. *)
PassTime ==
  /\ IF lastSecond THEN day < MaxDay /\ day' = day + 1 ELSE UNCHANGED day
  /\ lastSecond /\ saver \notin {"sleep", "collect"} => name = day
  /\ lastSecond' = ~lastSecond
  /\ UNCHANGED <<model, files, mtime, tmp, loadVars, saveVars, crashes, lastSaved>>

(* The gateway crashes and starts again. *)
CrashTrainer ==
  /\ crashes < MaxCrashes
  /\ crashes' = crashes + 1
  /\ model' = EmptyModel
  /\ loader' = "find" /\ found' = 0 /\ snapshot' = EmptyModel /\ toInsert' = {}
  /\ saver' = "sleep" /\ slept' = day /\ content' = EmptyModel /\ name' = 0
  /\ UNCHANGED <<day, lastSecond, files, mtime, tmp, saves, lastSaved>>

SnapNext ==
  \/ \E p \in SnapPrefixes : UpdateBaseline(p) \/ InsertPrefix(p)
  \/ FindNewest \/ ReadSnapshot \/ InsertDays
  \/ WakeDaily \/ Collect \/ CreateTmp \/ WriteTmp \/ RenameTmp \/ SaveFails \/ Cleanup
  \/ PassTime \/ CrashTrainer

SnapSpec == SnapInit /\ [][SnapNext]_snapVars

-----------------------------------------------------------------------------
(* Once there is a snapshot, there always is one to start from, if they are *)
(* kept for two days or more: whatever failed or crashed since, the newest  *)
(* file is complete and is the one that was put in place last.  (With 0,    *)
(* cleanup_old_snapshots() deletes what was just saved, with 1 what was     *)
(* named before midnight and saved after it; the configuration takes both.) *)
(* And nothing that a start has loaded is forgotten by the records that     *)
(* update the baseline meanwhile.                                           *)
SnapshotSafe ==
  /\ RetentionDays > 1 /\ lastSaved # NoFile =>
       /\ Files # {}
       /\ \A d \in Files : (\A e \in Files : mtime[e] <= mtime[d]) => files[d] = lastSaved
  /\ \A p \in SnapPrefixes \ toInsert :
       loader \in {"insert", "done"} => model.samples[p] >= snapshot.samples[p]
  /\ loader = "done" => \A a \in SnapAsns : snapshot.days[a] \subseteq model.days[a]
=============================================================================
