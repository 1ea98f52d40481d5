------------------------------ MODULE S3Export ------------------------------
(***************************************************************************)
(* The S3 exporter (s3_exporter.rs) on the directory the storage sink      *)
(* writes.  Two exporters run: the background task main.rs starts, every   *)
(* 60 seconds, and the one the /export/s3 handler calls.  Nothing orders   *)
(* them with each other or with a flush that is writing a file.            *)
(***************************************************************************)
EXTENDS StorageSink

CONSTANTS DeleteAfterUpload,  \* config.s3.delete_after_upload
          MaxDay              \* bound: midnights that pass

ASSUME DeleteAssumption == DeleteAfterUpload \in BOOLEAN
ASSUME MaxDayAssumption == MaxDay \in Nat

Exporters == {"background", "handler"}

VARIABLES
  xpc,      \* [Exporters -> where the exporter is]
  todo,     \* [Exporters -> names of its directory listing still to visit]
  body,     \* [Exporters -> the object it is putting, its key included]
  objects,  \* the bucket: at most one object per key (day, file name)
  day,      \* the date in the object key
  raced     \* history: records of files read for upload while being written

exportVars == <<xpc, todo, body, objects, day, raced>>
allVars == <<vars, exportVars>>

Object == [day: Nat, name: Nat, recs: Seq(Records), complete: BOOLEAN]
Names == {g.name : g \in files}
NoBody == [day |-> 0, name |-> 0, recs |-> <<>>, complete |-> FALSE]

ExportInit ==
  /\ Init
  /\ xpc = [x \in Exporters |-> "idle"]
  /\ todo = [x \in Exporters |-> {}]
  /\ body = [x \in Exporters |-> NoBody]
  /\ objects = {}
  /\ day = 0
  /\ raced = {}

-----------------------------------------------------------------------------
(* export_pending_files: the directory is listed. *)
StartExport(x) ==
  /\ Running
  /\ xpc[x] = "idle"
  /\ xpc' = [xpc EXCEPT ![x] = "visit"]
  /\ todo' = [todo EXCEPT ![x] = Names]
  /\ UNCHANGED <<vars, body, objects, day, raced>>

(* No entry left: the export returns. *)
EndExport(x) ==
  /\ Running
  /\ xpc[x] = "visit" /\ todo[x] = {}
  /\ xpc' = [xpc EXCEPT ![x] = "idle"]
  /\ UNCHANGED <<vars, todo, body, objects, day, raced>>

\* Mutation: an error of metadata() ends the export task, not just the export.
VisitFatal(x, n) ==
  /\ Running
  /\ xpc[x] = "visit" /\ n \in todo[x]
  /\ \/ /\ n \notin Names
        /\ xpc' = [xpc EXCEPT ![x] = "ended"]
        /\ UNCHANGED <<todo, body>>
     \/ /\ n \in Names
        /\ todo' = [todo EXCEPT ![x] = @ \ {n}]
        /\ xpc' = [xpc EXCEPT ![x] = "open"]
        /\ body' = [body EXCEPT ![x] = [NoBody EXCEPT !.day = day, !.name = n]]
  /\ UNCHANGED <<vars, objects, day, raced>>

(* metadata() of the next entry: an error aborts the whole export, an empty *)
(* file is skipped, any other is uploaded under today's key.                *)
Visit(x, n) ==
  /\ Running
  /\ xpc[x] = "visit" /\ n \in todo[x]
  /\ \/ /\ n \notin Names
        /\ xpc' = [xpc EXCEPT ![x] = "idle"]
        /\ todo' = [todo EXCEPT ![x] = {}]
        /\ UNCHANGED body
     \/ /\ \E g \in files : g.name = n /\ g.recs = <<>>
        /\ todo' = [todo EXCEPT ![x] = @ \ {n}]
        /\ UNCHANGED <<xpc, body>>
     \/ /\ \E g \in files : g.name = n /\ g.recs # <<>>
        /\ todo' = [todo EXCEPT ![x] = @ \ {n}]
        /\ xpc' = [xpc EXCEPT ![x] = "open"]
        /\ body' = [body EXCEPT ![x] = [NoBody EXCEPT !.day = day, !.name = n]]
  /\ UNCHANGED <<vars, objects, day, raced>>

\* upload_file has returned; the export goes on with the next entry.
Done(x) ==
  /\ xpc' = [xpc EXCEPT ![x] = "visit"]
  /\ body' = [body EXCEPT ![x] = NoBody]

\* The records of flushes still writing file g.
UnderWay(g) ==
  {r \in Records : \E f \in Flushers :
     pc[f] = "write" /\ stamp[f] = g.name /\ r \in Range(batch[f])}

(* ByteStream::from_path: what the file holds now is what will be uploaded; *)
(* if it is gone the upload fails and the export goes on.                   *)
ReadFile(x) ==
  /\ Running
  /\ xpc[x] = "open"
  /\ \/ /\ body[x].name \notin Names
        /\ Done(x)
        /\ UNCHANGED raced
     \/ \E g \in files :
          /\ g.name = body[x].name
          /\ xpc' = [xpc EXCEPT ![x] = "put"]
          /\ body' = [body EXCEPT ![x].recs = g.recs, ![x].complete = g.complete]
          /\ raced' = raced \cup UnderWay(g)
  /\ UNCHANGED <<vars, todo, objects, day>>

\* The bucket after putting b under its key.
WithObject(b) ==
  {o \in objects : <<o.day, o.name>> # <<b.day, b.name>>} \cup {b}

(* put_object succeeds. *)
PutOk(x) ==
  /\ Running
  /\ xpc[x] = "put"
  /\ objects' = WithObject(body[x])
  /\ IF DeleteAfterUpload
     THEN xpc' = [xpc EXCEPT ![x] = "delete"] /\ UNCHANGED body
     ELSE Done(x)
  /\ UNCHANGED <<vars, todo, day, raced>>

\* Mutation: the local file is removed whether or not the put succeeded.
PutFailDeletes(x) ==
  /\ Running
  /\ xpc[x] = "put"
  /\ xpc' = [xpc EXCEPT ![x] = IF DeleteAfterUpload THEN "delete" ELSE "visit"]
  /\ UNCHANGED <<vars, todo, body, objects, day, raced>>

(* put_object fails: logged, the file stays for the next export. *)
PutFail(x) ==
  /\ Running
  /\ xpc[x] = "put"
  /\ Done(x)
  /\ UNCHANGED <<vars, todo, objects, day, raced>>

(* delete_after_upload: remove_file fails if the file is gone, and may fail *)
(* with the file still there, which the next export then uploads again.     *)
DeleteFile(x) ==
  /\ Running
  /\ xpc[x] = "delete"
  /\ \/ files' = {g \in files : g.name # body[x].name}
     \/ UNCHANGED files
  /\ Done(x)
  /\ UNCHANGED <<sent, buffer, pc, batch, stamp, dropped, lost, now, server,
                 restarts, todo, objects, day, raced>>

Midnight ==
  /\ day < MaxDay
  /\ day' = day + 1
  /\ UNCHANGED <<vars, xpc, todo, body, objects, raced>>

\* The steps of the sink and the process; its end also ends the exporters.
SinkNext ==
  \/ /\ Write \/ (\E f \in Flushers : FlushStep(f)) \/ Tick \/ Signal
        \/ HookDone \/ Restart
     /\ UNCHANGED exportVars
  \/ /\ Exit \/ Crash
     /\ xpc' = [x \in Exporters |-> "idle"]
     /\ todo' = [x \in Exporters |-> {}]
     /\ body' = [x \in Exporters |-> NoBody]
     /\ UNCHANGED <<objects, day, raced>>

ExportStep(x) ==
  \/ StartExport(x) \/ EndExport(x) \/ (\E n \in todo[x] : Visit(x, n))
  \/ ReadFile(x) \/ PutOk(x) \/ PutFail(x) \/ DeleteFile(x)

ExportNext == SinkNext \/ (\E x \in Exporters : ExportStep(x)) \/ Midnight

(* The background loop keeps running, and the bucket does not refuse its    *)
(* puts of a file for ever.                                                 *)
ExportFairness ==
  /\ WF_allVars(ExportStep("background"))
  /\ \A r \in Records :
       SF_allVars(PutOk("background") /\ r \in Range(body["background"].recs))

ExportSpec == ExportInit /\ [][ExportNext]_allVars /\ ExportFairness

-----------------------------------------------------------------------------
\* Records in objects uploaded from completely written files.
Exported == {r \in Records : \E o \in objects : o.complete /\ r \in Range(o.recs)}

(* Exporting and deleting local files loses no stored record: it is on disk *)
(* or in the bucket, whatever the two exporters and the flush tasks do -    *)
(* except for a file an exporter opened while it was still being written,   *)
(* whose partial upload is followed by its deletion.                        *)
NoExportLoss ==
  1..sent \subseteq InMemory \cup Stored \cup Exported \cup dropped \cup lost \cup raced

(* A stored record reaches the bucket while the gateway runs, though an     *)
(* export is aborted whenever the other exporter deletes a listed file.     *)
EventuallyExported ==
  \A r \in Records : (r \in Stored) ~> (r \in Exported \cup raced \/ ~Running)
=============================================================================
