# log_gateway in TLA+

Modules, model-checking runs and machine-checked proofs about `log_gateway`, a
Rust gateway (axum, tokio) that ingests BGP and log records over HTTP and NATS,
stores them, looks for routing anomalies and sends alerts. Everything here is
translated from the code under `src/`; `PROJECT.json` maps each definition to
its lines.

## 1. The system

`bgp_stream` reads the RIPE RIS feed and publishes events to a JetStream work
queue. Gateways compete for that queue; each also takes records over HTTP. A
record goes to two stores (NDJSON files, ClickHouse) and to the detectors, whose
anomalies go through one alert router to webhooks and to a history in ClickHouse.

```
RIS feed -> bgp_stream -> JetStream -> nats_subscriber -> detector_runner --+
                                                             |  |           |
HTTP -> handlers --+-> storage sink -> files -> S3 export    |  propagation |
                   +-> ClickHouse exporter -> table          |  aggregator  |
                   +-> anomaly channel -> alert logger       v  v           v
                                               \--> escalation router -> dedup,
                                                    history, silences, webhooks
                                                        ^ auto-escalation
```

| component | state | operations | what is hard | what makes it correct |
|---|---|---|---|---|
| storage sink (`sink.rs`, wired in `main.rs`, `lib.rs`) | bounded lock-free queue; files named by the millisecond | `write`, `flush`, background task, shutdown hook | two sinks over one directory; names that could collide; failed writes; a crash inside a flush | every record accounted for; files in write order, never overwritten; the queue drains |
| S3 export (`s3_exporter.rs`) | directory listing, bucket | `export_to_s3`, from a 60 s task and from a handler | two exporters and a flush on one directory; partial failure; change of date | deletion never loses a stored record; stored records reach the bucket |
| ClickHouse exporter (`clickhouse_exporter.rs`) | bounded queue, batch, requests under way | `write`, `flush` with one retry, background task | a timeout that does not stop the request; late answers; restart | nothing uncounted; reported means stored; bounded duplication |
| BGP feed (`tools/bgp_stream`) | bounded channel, worker batches | read, batch, publish | full channel, unconfirmed publishes | no event vanishes unaccounted |
| NATS subscriber (`nats_subscriber.rs`) | connection, message in hand | connect, deliver, `try_send`, ack | redelivery, lost and late acks, competing gateways, a full channel | a delivery is disposed of once; stored events are settled |
| propagation aggregator (`propagation.rs`) | DashMap of groups behind shard locks | `add`, `flush_expired` | locks held across calls, keys collected before they are removed | each arrival ends in one place; groups are flushed |
| alert router (`escalation.rs`, `alert_dedup.rs`, `webhook.rs`) | dedup cache, history, silences | `route`, `run_auto_escalation` | four tasks share a cache asked and filled in two steps; awaits in between | duplicates only from races; suppression only by a sent alert |
| alert manager, API (`alert_manager.rs`, `alert_api.rs`) | rules, silences, history | CRUD over ClickHouse, SIGHUP reload | read-modify-write over a table that keeps the newest row; inserts that arrive after their timeout; a signal during a load | an update changes only what it was given; answers are true; the logger has the enabled rules after a reload |
| tenants (`tenant_manager.rs`, `tenant_api.rs`) | tenant rows | create, update, delete | the same, with stamps of the gateway's clock | the same |
| quota, rate limits (`quota_manager.rs`, `rate_limiter.rs`) | a counter per tenant and window; cells | `check_and_increment`, middleware | expiry between look-up and increment; several limits on one counter | no counter admits more than its limit |
| ingest handlers, middleware, redaction, cost, metrics (`handlers/mod.rs`, `middleware.rs`, `redactor.rs`, `cache.rs`, `cost_tracker.rs`, `metrics.rs`) | redaction cache, bills, counters | both ingest routes, step by step | a cache filled by another request's message; one step of several failing; batches in part malformed | accepted entries are stored once, redacted as a message of the same key; statistics, bills, metrics and records never drift apart |
| detectors (`anomaly_detector.rs`, `baseline_model.rs`, `detector_runner.rs`) | known origins, flap windows, baselines | `check` over HTTP, enrichment, runner | handlers, enrichment and runner share what they know, under several locks; learning before judging; a full alert channel; answers of the registry used for a day | a new origin makes one anomaly; inconsistency only where the registry said so; a path boost only after an overlap |
| RPKI and IRR caches (`rpki_cache.rs`, `irr_cache.rs`) | index of VRPs; cached answers | refresh, `validate`, look-up | validation while the table is replaced or empty; failed look-ups cached | statuses follow from the last dump loaded |
| ROA poller (`roa_poller.rs`) | known ROAs, history | poll, deltas, alerts, write | knowledge replaced before it is written; restart | removals reported once; the history agrees with what is known |
| model trainer (`model_trainer.rs`) | baseline, daily snapshots | load, update, save, clean up | load against updates; crash between write and rename; midnight | there is always a complete snapshot (kept two days or more); nothing loaded is forgotten |
| wave anomaly detector (`wave_anomaly_detector.rs`) | a baseline entry | score, classify | weights and clamps of five signals | whether a fast event scores as high as a slow one |
| BGP queries, offline tools | – | | read-only or sequential | not modelled |

The components share objects as follows. `main()` and `create_app()` each build
a `StorageSink`, and only the second one gets records. The aggregator is shared
by the detector task and the flush task, and the router by the alert logger, the
detector task, the flush task and auto-escalation. A detector that blocks (see
`Propagation`) is what fills the channel of its subscriber (see `EventDelivery`).
The hazards, each at its line and with the properties that watch it, are in
`PROJECT.json`.

## 2. The modules

**`StorageSink`.** `buffer`, `batch`, `stamp` and `pc` are the queue and the
locals of each `flush`; `files` is the directory, shared by all flushers and kept
across a restart. `Write` is `write()`; `Wake`, `Pop`, `FlushEmpty`, `NameFile`,
`OpenFile`, `WriteChunk`, `WriteOk` and `WriteFail` are `flush()` step by step;
`Signal`, `HookDone` and `Exit` are the graceful shutdown in `main.rs`; `Crash`
and `Restart` surround it. Serialisation and compression are left out, their
failures are not. The clock is quotiented: it only matters which flushes name
their file in the same millisecond, so `Tick` fires only while a task waits for
the current millisecond to pass. A flush that finds nothing names no file and
does not restart its sleep.

**`S3Export`** extends `StorageSink` with the two exporters, which list, read,
put and delete on the same directory. A deletion may fail with the file still there, which
is then exported again. Object keys contain the date, so `Midnight` changes the key of
a file that is exported again.

**`ClickHouseExporter`.** A request is a member of `requests` from `Post` until
ClickHouse carries it out (`Apply`) or refuses it (`Reject`), whether or not
`flush()` still waits for it. `Fail` is an error or the 3 s timeout;
`MaxAttempts` is 2. `flush_on_shutdown()` exists but nothing calls it, so `Stop`
simply ends the process.

**`EventDelivery`** composes `bgp_stream`, JetStream, any number of subscribers
and their detectors' receive loops. JetStream is external, modelled from how
`src/` configures and uses it: work queue, explicit ack, ack wait, one durable
consumer, discard of old messages. Messages that a gateway has prefetched but not
looked at count as still in the stream. The branch for a closed detector channel
is unreachable: the receiver is dropped only with the process. `publish()` is
awaited once, which sends; its confirmation is not, so `Publish` may lose the
event unnoticed (`vanished`). `Hang` is the deadlock `Propagation` shows.

**`Propagation`.** The DashMap is `pending` with one lock per shard. `AddYoung` is
an `add()` that returns without an event; `AddExpired` is one that goes on to
`remove()` with the entry's lock still held. `Collect` walks the shards as
`iter()` does; `Remove` and `Score` are shared by both tasks. `Expire` is the end
of a window, `Receive` the detector's next announcement. Records that never reach
the aggregator are stuttering steps, and timestamps are record numbers.

**`AlertPipeline`.** `step`, `work` and `left` are the progress of each task through
`route()`: silence check, threshold, cache look-up, cache insert, history insert,
webhooks. `ListActive`, `EscalateNext` and `PassDone` are `run_auto_escalation()`.
`Silence`, `Unsilence`, `Resolve` are the API, `Forget` the cache's TTL, `Overdue`
the escalation timeout. Several silences of a fingerprint count as one;
`expire_silence` inserts a row of equal version, of which the last wins; a resolve
is an asynchronous mutation, and its action is the moment it takes effect.
`AnswersAsAsked` says whether ClickHouse answers the client's queries: `is_silenced()`
and the rules' queries put `FINAL` behind `WHERE`, which ClickHouse rejects, and
`list_active_alerts()` reads dates without an offset as `DateTime<Utc>`, which fails for
every row. With the server of `docker-compose.prod.yml` no silence is ever seen and no
overdue alert ever listed (an empty list is). The properties are checked with a server
that may answer and may fail, which includes all behaviours of one that cannot; they are
proved for both. Hence nothing is claimed about overdue alerts going out again.

**`RecordLog`** is the abstract specification of the sink: records are accepted,
stored a batch at a time and oldest first, or given up; each is settled once.
`StorageSink` implements it with `stored` mapped to the records of complete files
and `gone` to those refused or lost; `Write` maps to `Accept`, a completed file to
`Store`, a failed write, an exit or a crash to `GiveUp`, all else to stuttering.

**`ConfigStore`.** `rows` is what `FINAL` shows of the two tables; `adminReq` is the
progress of each API request: validation, `GetTenant`/`GetRule`, `BuildTenant`/
`BuildRule` of the new row, `Apply` by ClickHouse and the status answered. `Fail` is an
error or a timeout, after which the insert may still happen (`ApplyLate`). Reading a
rule back may fail as well (`ReadsBack`; with `AnswersAsAsked` false it always does).
Tenants' rows are stamped by the gateway as they are built, rules' rows by ClickHouse as
they are inserted, so that a late update of a rule undoes the later ones (`raced`). Every
update replaces `created_at` (`original` becomes false): `tenant_from_row()` cannot parse
it, falls back to the current time and `update_tenant()` writes that back;
`update_rule()` and `delete_rule()` leave it to the column's default, `now()`.
`delete_rule()` is one `INSERT ... SELECT`, of nothing if there is no such rule
(`DeletesNothing`). `Hup`, `Reload`, `ListRules` and `Load` are the watch channel and the
alert logger's copy.

**`Ingest`** follows a request through the middleware (`Refusal`, `Arrive`), the
quota (`GetCounter`, `Count`) and each entry of its body: `GetCached` is the look-up,
`CountLookup` the cache's statistics, `Insert` a miss, `Record` the tenant's bill,
`MeterRequest` and `MeterPii` the counters of the metrics one by one, `Deliver` the sinks.
An action is one use of a shared structure; only the last calls of an entry, to sink,
exporter, detector and channel, are one action. A message is its words, in capitals or
not: the cache's key lowers the case, while the redactor knows an IBAN only in capitals,
so a message may be stored with the redaction of another. A BGP event goes to the RPKI
channel only on a cache hit, as in the code. A request that is not valid JSON gets 400,
one the schema refuses 422, one that passes it but is no `LogEntry` 400. The quota
is a fixed window that counts refused requests too, unlike its comment ("sliding
window"); the counter belongs to the tenant of the header, the limit to that of the
key; a batch is one request. The number of tenants and requests is finite, and a sum
over tenants or records (`SumOver`) is the size of a union of disjoint pieces, so that
the facts about cardinality apply to it.

**`RpkiCache`**: prefixes are bit strings; `LockIndex`, `ReplaceIndex` and
`RefreshFails` are the refresh task, `validate` the walk over the covering lengths.
The index keeps each usable entry at its place in the dump (`Places`): of the entries
of one network, the first with the ASN decides (`FirstMatch`).
It returns at the first matching ASN, so a route may be "too long" although another
entry validates it; a table that is loaded and empty is "unavailable".

**`Detection`**: any number of handlers run `AnomalyDetector::check()`, each a member of
`checks`: `CheckUpdate` of the baseline, `CheckHijack` (which learns the origin),
`CheckFlaps`, and for each anomaly `CheckJudge`, a second look at the baseline, and
`CheckSend`, whose `try_send()` drops the anomaly if the alert channel is full
(`SendAlert`); `CheckEnds` hands the record to the enrichment. `AlertTaken` and `RoaAlert`
are the other users of that channel. `EnrichTake`/`EnrichCheck` and
`RunnerTake`/`RunnerCheck` stand around the wait for the registry's answer, which is
cached for `IrrTtl` (`irr`, `Cached`), a failure like an answer; `Registry` gives the
registry's objects at each time, so a cached answer may be out of date. The baseline keeps
the code's running average and variance (weight 0.1) exactly, as integers over powers of
ten (`Updated`). The status of the RPKI is any one, in any step.

**`RoaPoller`**: one action per step of a cycle. The known ROAs are replaced before
the deltas are sent or written; a failed write is not repeated, and whether it took
effect is unknown; a restart forgets what is known.

**`Snapshots`**: the loader (`FindNewest`, `ReadSnapshot`, `InsertPrefix`,
`InsertDays`), the daily save (`WakeDaily`, `Collect`, `CreateTmp`, `WriteTmp`,
`RenameTmp`, `SaveFails`, `Cleanup`), `UpdateBaseline` by records, `PassTime` and
`CrashTrainer`. The task may wake in the last second of the day and save again at
once. A save may come before the load is done. The code's knowledge of ASes only grows by loading, since nothing else calls
`record_as_seen`.

**`WaveScore`**: the five signals and their weighted sum in thousandths. Collectors are
numbered in the order of their names, which breaks ties of the arrival order
(`ArrivesBefore`), and stand on a line.

**`MCGateway`** runs `Ingest`, `ConfigStore` and the five background modules, which share
no state: `part` selects the one that runs in a behaviour, so that their states add up
instead of multiplying. **`MCAlerting`** does the same for `Propagation` and
`AlertPipeline`. **`MCPropagation`** gives the map of keys to shards, **`MCIngest`** the
bodies, **`MCWave`** the baseline entries and positions. **`SequenceFacts`** holds lemmas
about ranges and increasing sequences. The `*Proofs` modules hold the theorems.

## 3. The runs

| run | bounds | shows |
|---|---|---|
| `storage_sink` | 5 records, flush size 2 (queue of 4), 1 restart | `NoSilentLoss`, `WriteOrder`, `FilesImmutable`, `EventuallyFlushed`, `ImplementsRecordLog` |
| `sink_shutdown` | 1 record | **violated** `FlushedBeforeExit` |
| `s3_export` | 2 records, flush size 2, 1 midnight, no restart | `NoExportLoss`, `EventuallyExported` |
| `alerting`, part `propagation` | 3 keys (two share a shard, one unparsable), 2 shards, 2 collectors, 3 records | `ArrivalsAccounted`, `WindowOver`, `GroupsFlushed`, `DeadlockIsFinal` |
| `alerting`, part `alerts` | logger, detector, flusher, escalator; 1 fingerprint, confidences 40 and 60, 1 target, 2 anomalies, 2 history rows, 1 restart | `OncePerTask`, `SuppressedOnlyIfSent` |
| `propagation_add` | 1 collector, 2 records | **violated** `ExpiredGroupCompletes` |
| `alert_escalation` | 1 anomaly | **violated** `EscalatedOneHigher` |
| `clickhouse` | 4 records, batch size 1 (queue of 2), 1 restart | `NoSilentLoss`, `AckedStored`, `AtMostTwice`, `EventuallySettled` |
| `event_delivery` | 3 events (one unreadable), 1 worker with batches of 2, 2 gateways, channels of 1, 1 fault | `NoSilentLoss`, `OncePerDelivery`, `NoNeedlessRedelivery`, `EventuallySettled` |
| `gateway`, part `ingest` | 1 tenant, 2 requests of 8 bodies, limits 1 and 2, burst 1, batches of 2, RPKI channel of 1, 2 windows, 1 refill | `QuotaHolds`, `AccountsAgree`, `EntriesStored` |
| `gateway`, part `config` | 1 tenant or 1 rule (there before or not), 2 values, 2 requests at a time, 1 ms, 1 SIGHUP | `AsAskedUnlessRaced`, `AnswersTrue`, `CopyCurrent` |
| `gateway`, part `rpki` | dumps of up to 2 entries over prefixes of up to 2 bits, 2 ASNs | `RpkiStatusSound` |
| `gateway`, part `detection` | 1 prefix, 2 ASNs, 2 records on any path, 2 checks at a time, alert channel of 1, answers kept for 2 of 3 times | `OriginsReportedOnce`, `IrrAnswersJustified` |
| `gateway`, part `paths` | the HTTP path alone: 3 records with paths of length 1 or 2, judged from 2 samples on | `BoostOnlyIfOvertaken`, `OriginsReportedOnce` |
| `gateway`, part `roa` | 2 ROAs, 4 polls | `RoaChangesAccounted` |
| `gateway`, part `snapshots` | 3 days, 2 saves, 2 samples, 1 crash, kept for 2 days | `SnapshotSafe` |
| `gateway`, part `wave` | 3 collectors, 3 times | drives the score; `SimultaneousAtMostSuspicious` is proved |
| `missing_rule` | 1 rule, 1 request | **violated** `MissingRuleNotFound` |
| `stored_redacted` | as part `ingest`, burst 2 | **violated** `StoredRedacted` |
| `wave_spread` | 3 collectors, 5 times | **violated** `SmallSpreadScoresAsHigh` |

Except for `s3_export`, each passing run also checks a type invariant, which includes the
capacities; in `gateway` it is that of `ConfigStore`. Deadlock is not checked: all
these systems may rest when no client, feed or signal arrives, and with the bounds
they all do. The passing runs reach between 6*10^4 and 2*10^6 distinct states.

Why the bounds are enough. A full queue needs one record more than its capacity:
5 records with flush size 2, which is also the smallest size at which a file can be
half written. A collision of file names needs
two flushes; a collision across processes, one restart. A race of the exporters
needs one file and both of them; an aborted export needs two files. A removed group
that comes back needs three records, a replaced arrival two at one collector. A
duplicate past the cache needs two tasks and one fingerprint; a second escalation
needs a confidence that crosses a level twice (60, 75, 90). A third row needs two
attempts that ClickHouse holds back and a restart. A second delivery needs one
fault and a second gateway. A lost update needs two requests on one row and stamps
that are equal or not, hence two values of the clock; a stale copy of the rules needs
a request and a signal during a load. A limit is exceeded by one request more than it
admits, and a wrong redaction comes from a second message of the same key. The requests
of a part act on one id, since nothing relates two. A wrong
origin validation needs two entries of one ASN; a double report two tasks with one
record each; a dropped anomaly one more than the channel holds; an answer out of date a
registry that changes once; a path boost two records before the one judged and one in
between; a lost ROA change a cycle after the failed one; a lost snapshot a crash or two
midnights between two saves. For safety the theorems of section 5 remove the bounds.

The six violated properties each state what a comment, a document or a test says:

- `main.rs:316` "Flush sink before exit": the hook flushes the sink `main()` made,
  while all records are in the one `create_app()` made.
- `propagation.rs:117` says `add()` returns the finished event once the window has
  expired: it calls `remove()` while `entry` holds the lock of the same shard, and
  the detector task waits for itself for ever.
- `escalation.rs:194` says unacknowledged alerts are escalated "one level higher":
  with the default timeout of 300 s, `route()` finds the fingerprint in its own 30
  minute cache and drops the alert; and +15 % does not always reach the next level.
- `alert_api.rs:516` documents "404 ... Alert rule not found" for the deletion of a rule,
  and the handler has a branch for it (line 561): `delete_rule()` inserts nothing and
  succeeds, and the answer is 204.
- `README.md:7` lists the redaction of IBANs and the test at `redactor.rs:216` shows it: the
  same message in lower case, in which the redactor does not see the IBAN, fills the cache
  for the one in capitals, which is then stored readable.
- `wave_anomaly_detector.rs:128` says a spread far smaller than the baseline "must score
  just as high as one far larger", being the hijack signature: two of the other signals
  count slow events only, so that the large one is anomalous and the small one is not.

`NoExportLoss` and `EventuallyExported` make an exception for `raced`: an exporter
does not know that a flush is still writing a file, may upload it in part, and
deletes it. `GroupsFlushed` and `EventuallySettled` of `EventDelivery` make one for
a deadlocked detector. The exceptions are named so that the properties say what
holds for everything else; so are `raced` in `ConfigStore` and `unsure` in
`RoaPoller`.

Two properties say what the code does where a reader would expect something else.
`BoostOnlyIfOvertaken`: the baseline learns a path before it judges it, after which the
deviation stays below three standard deviations; the boost for an unusual path is given
only if another handler has updated the baseline of the prefix between the two uses.
(The comment at `anomaly_detector.rs:1051` expects "0.85 for new AS, boosted by 0.1", which
its test, a sequence of calls, accepts but does not require.) And the part of
`OriginsReportedOnce` about the enrichment: a record seen over HTTP never gets the
confidence of a proven hijack, as `check()` has already learnt its origin; 0.97 and more
only come from the runner, or over HTTP from that boost on a prefix of unusual length.

## 4. Fairness and assumptions

Weak fairness is assumed of what the tokio runtime and its timers guarantee: a task
that can go on is polled, a timer fires, a request with a timeout ends. In detail:

- `StorageSink`, `ClickHouseExporter`: `FlushStep` (and `Tick`). ClickHouse owes
  nothing; `Fail` stands for the timeout.
- `S3Export`: the background exporter's steps, and strong fairness of its `PutOk`:
  the bucket does not refuse every attempt for ever. The handler's exporter runs on
  demand and gets no fairness, nor does a deletion, which may fail every time.
- `Propagation`: both tasks and `Expire`. The runtime is multi-threaded, so a
  blocked detector thread does not stop the flush task by itself.
- `EventDelivery`: workers, subscribers (connecting is retried, and succeeds in the
  end), detectors, and the end of an ack wait. Crashes are faults, bounded by
  `MaxFaults`; nothing makes the feed send.

- `AlertPipeline`, `ConfigStore`, `Ingest` and the background modules state safety only and
  assume no fairness.

Further assumptions: the wall clock does not step back (file names, stamps of
tenants); the flush interval is not zero (stated where a theorem needs it); gateway and
database agree on the time; statements that only insert are parsed by ClickHouse (for
queries see `AnswersAsAsked`). The first half of `SnapshotSafe` is about `retention_days` of
two and more: `config.rs:331` takes any number and a test uses 1, but with 0 the clean-up
deletes the snapshot just saved, and with 1 one that was named before midnight and put in
place after it. A save takes less than a day.

## 5. The proofs

Each theorem has the form `Spec => []Inv` or `Spec => [][A]_vars`, and holds for
every value of the constants under the module's named assumptions (sizes are
positive naturals, bounds are naturals, sets are what they say). The inductive
invariant (`IndInv`, or a name ending in `Ind`) is at the head of each proof module or
of the part of it that is about one component.

- **`StorageSinkProofs`** (`FlushIntervalSecs # 0`). `NothingLostSilently`,
  `OrderKept` and `CompleteFilesStay` are not inductive, since nothing in them says
  a file name is new. `MainUnused`: nobody writes to the sink of `main()`, so only
  `app_task` ever names a file. `FileNames`: that task sleeps past the millisecond
  of its last name before it pops again, so each name is larger than all before, and
  the file it is writing is the only incomplete one of that name. `Past`: nothing in
  the queue, the batch or on disk is yet to be written.
- **`BackgroundProofs`**, `ClickHouseExporter`. `RetriesBounded` counts rows plus requests under
  way: a queued record has never been posted (`Fresh`), leaves the queue once
  (`Queued`), and in the batch has at most as many copies as there were attempts
  (`Bounded`); `Apply` moves a copy from the requests to the rows. `Locals` ties a
  positive answer to the batch it is about, for `AcknowledgedIsStored`.
- **`PropagationProofs`**. `ExpiredGroupBlocksDetector` from `HoldsItsLock`: a
  detector at `remove` already holds the lock it waits for, and the lock's owner is
  the only one who frees it. `OnlyExpiredReported` rests on it: the keys the flush
  task has collected stay open and expired (`CollectedExpired`) only because the one
  other task that removes groups blocks first.
- **`AlertPipelineProofs`**. `OnlyRacesDuplicate` from `WindowsOpen`: what a task
  got past the cache in this window is still in the cache. `SuppressionIsJustified`
  follows each fingerprint from the insert to the webhooks.
- **`EventDeliveryProofs`**. `NothingLostSilently`: an event that is disposed of
  stays so, and a subscriber acknowledges only what it has disposed of
  (`AckedDisposed`). `HandledOncePerDelivery` counts what is in subscribers' hands
  against deliveries. `NoSecondDelivery`: an event is published once (`FedOnce`,
  `NotYet`), and without faults one that was given out and is still stored is in the
  hands of a subscriber (`InTime`), so it is not given out again.

- **`StorageSinkProofs!SinkImplementsLog`**: the refinement. What is in memory, in
  queue and batches, is what `RecordLog` calls pending (`MemoryIs`), and it is in write
  order (`MemoryOrder`); so a completed file stores the oldest pending records
  (`StoredAfter`), and `Effects` and `SettledStep` map every other step to `Accept`,
  `GiveUp` or stuttering.
- **`StorageSinkProofs!ExportLosesNothing`**: on top of `FileNames`, a name stands for
  one content: whatever is on disk, in the bucket or in an exporter's hands under a name
  is the same unless one of them was read before it was complete, and then its records
  are in `raced` (`SameContents`, `Raced`); an exporter deletes only what the bucket has
  under that name (`PutBeforeDelete`). So a deletion, also of a file that the other
  exporter has uploaded meanwhile, takes nothing away.
- **`ConfigStoreProofs`**. `OnlyRacesUndo` from `Built`: a request holds the row it has
  read, with its own fields filled in, until it is carried out; if the row is still that
  one, exactly the fields given change, and the time of creation, which every update
  replaces (field `original`). `AnswersAreTrue` from `AnswerInd`: stamps never
  exceed the clock, so a row that replaces the one it was made from is not older, and a
  success is only answered after the insert. `LoggerCatchesUp` from `CopyInd`: what the
  logger has read since the last signal is what there is.
- **`BackgroundProofs`**, the background modules. `RoaHistoryKept` from `RoaInd`: during a
  cycle the history lags behind the known ROAs by exactly the deltas of the cycle. `OriginsOnce` from `DetInd`:
  the reports of a new origin and the calls of `check()` that still hold one are counted
  by the origins learnt (`Counted`), and what the enrichment gets was learnt before
  (`KnownTo`). `AnswersJustified`: what the cache has was the registry's answer when it was
  asked (`CacheOK`), so a task that finds "inconsistent" there has an answer younger than
  `IrrTtl` (`TaskOK`). `PathBoostOnlyIfOvertaken` from an inequality about the running
  average: what `update()` leaves is less than three standard deviations from the path just
  learnt (`LearntIsNotUnusual`); a call remembers how many samples it left (`CheckOK`), so
  as long as that number stands nothing is unusual about its path.
  `SnapshotsKept` from `SnapInd`: the file put in place last is newer
  than every other and, while old ones are deleted, is the one named by this save
  (`NewestIsLast`, about `RetentionDays > 1`), which is at most a day old and thus within
  the two days kept (`SaveInProgress`); what the loader has inserted stays (`LoadKept`). `StatusSound`: the
  index is that of the last dump (`RpkiInd`); that `validate` then agrees with RFC 6811 is
  an argument about one state (`IndexFacts`, `CoverFacts`): the networks found at the
  candidate lengths are exactly those of the covering entries.
  `SimultaneousNotAnomalous` bounds each signal: no gap (`NoGaps`), no outlier, and at
  most 400, 100 and 50 for the others (`DeviationBound`, `OrderBound`, `SpeedBound`), in
  all less than 600. The maxima and minima in both rest on `Extremes`, proved by a
  minimal counterexample among the finite subsets.
- **`IngestProofs`**. `Base` says where a request is and what it then holds (`Shape`);
  one lemma per action says how it moves its request (`...Move`). `QuotaKept` from
  `CounterBounds`: a counter is at least the number of requests it admitted, and those
  with a limit up to `l` are at most `l`, because the last of them was within its own
  limit; a refused request is counted and admits nobody. `EveryEntryStored` from
  `EntriesInd`: the records stored are exactly those of the well-formed entries the
  requests have passed, once each (`StoredOnce`), and what cache, requests and sink hold
  is the redaction of a message received with the same key. `AccountsBalance` from
  `AccountsInd`: an entry on its way from one account to the next (insert, bill, the
  counters of the metrics, sink) is in the set of the place it waits at, and a step that
  moves it adds as much to the account it passes; it needs
  `StoredOnce`, since a record stored twice would be counted once. The lemmas `SumPut`,
  `SumTake` and `SumChange` say how a sum follows a change of one term.

Assumptions on the constants, beyond the sizes: tenants, requests and collectors are
finite; bodies are sequences of entries, and one entry if they are single; dumps are
sequences of entries; announced networks are bit strings; times and baseline entries are
numbers. The program can have no others.

Every safety property that a passing run checks is also a theorem; one theorem,
`SimultaneousNotAnomalous`, is about a property that no passing run checks. Only model-checked:
the liveness properties (`EventuallyFlushed`, `EventuallyExported`, `GroupsFlushed`,
`EventuallySettled` twice) and the fairness behind them, which are
beyond the prover, and the six violated properties.

## 6. What is left out

Not modelled, and why:

- BGP queries (`bgp_query.rs`): read-only SQL; no state of the gateway depends on them.
- Offline tools and the building of wave baselines: sequential programs run by hand over
  files; what they compute is floating-point statistics.
- Parsing of configuration and secrets: done once before anything else runs;
  `start_config_watcher()` is started (`main.rs:156`) but nobody reads what it sends, so
  only SIGHUP is modelled.
- Logging, tracing and most metrics: output that nothing in the system reads back. The
  counters that have to agree with bills and records are in `Ingest`.
- Amounts of money and the monthly report by e-mail: floating point and formatting.
- `PropagationAggregator::run()`: never called.
- The text that regular expressions match, HTTP and JSON syntax, SQL text: abstracted to
  what the code distinguishes.
