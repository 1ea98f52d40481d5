------------------------------- MODULE Ingest -------------------------------
(***************************************************************************)
(* POST /api/v1/logs and /api/v1/logs/batch (handlers/mod.rs) from the     *)
(* rate limiter and the credentials (rate_limiter.rs, middleware.rs)       *)
(* through the tenant's quota (quota_manager.rs), the redaction cache      *)
(* (cache.rs, redactor.rs) and the accounts (cost_tracker.rs, metrics.rs)  *)
(* to the storage sink, the ClickHouse exporter, the detectors and the     *)
(* RPKI enrichment.  Requests run on several threads; an action is one use *)
(* of a shared structure, also of a single counter of the statistics.  The *)
(* last steps of an entry, to sink, exporter, detector and channel, are one*)
(* action: nobody who sees one of these looks at another.                  *)
(*                                                                         *)
(* A message is its words, in capitals or not.  Some words contain an IBAN,*)
(* which the redactor knows in capitals only, some an address, which it    *)
(* knows in either; some come with the metadata of a BGP event.            *)
(***************************************************************************)
EXTENDS Integers, Sequences, FiniteSets

CONSTANTS Tenants, Requests,
          Words, Iban, Mail, Bgp,  \* words, and the subsets described above
          Bodies,        \* the bodies that requests are sent with
          Limits,        \* rate limits of tenants
          DefaultLimit,  \* without a tenant (1000 in the code)
          Burst,         \* requests_per_second of the rate limiter
          BatchMaxSize,  \* BATCH_MAX_SIZE
          RpkiCapacity,  \* of the enrichment's channel (2048 in the code)
          MaxWindows,    \* bound: quota counters of a tenant
          MaxRefills     \* bound: tokens returned to the rate limiter

ASSUME FiniteAssumption == IsFiniteSet(Requests) /\ IsFiniteSet(Tenants) /\ Tenants # {}
ASSUME SubsetAssumption == Iban \cup Mail \cup Bgp \subseteq Words
ASSUME LimitsAssumption == Limits \cup {DefaultLimit, Burst} \subseteq Nat \ {0}
ASSUME BoundsAssumption == {BatchMaxSize, RpkiCapacity, MaxWindows, MaxRefills} \subseteq Nat

Message == [words: Words, upper: BOOLEAN]
Entry == [valid: {TRUE}, msg: Message]
Malformed == [valid |-> FALSE]

\* What a client sends: an unreadable body, one entry or an array of them.
Garbage == [kind |-> "garbage", entries |-> <<>>]
ASSUME BodiesAssumption ==
  \A b \in Bodies : /\ b.kind \in {"garbage", "single", "batch"}
                    /\ b.entries \in Seq(Entry \cup {Malformed})
                    /\ b.kind = "single" => Len(b.entries) = 1

\* SemanticCache::make_key(): trimmed and in lower case.
make_key(m) == m.words

\* Redactor::redact(): what is left readable, and how many were replaced.
Personal(m) == {x \in {"iban", "mail"} : m.words \in (IF x = "iban" THEN Iban ELSE Mail)}
Recognised(m) == {x \in Personal(m) : x = "iban" => m.upper}
redact(m) == [text |-> [msg |-> m, readable |-> Personal(m) \ Recognised(m)],
              hits |-> Cardinality(Recognised(m))]

NoText == [none |-> TRUE]

VARIABLES
  req,      \* [Requests -> where the request is and what it holds]
  tokens,   \* [Tenants -> the rate limiter's tokens]
  refills,  \* tokens returned so far
  window,   \* [Tenants -> number of the counter in the quota cache, 0 if none]
  opened,   \* [Tenants -> counters created]
  count,    \* [Tenants -> [1..MaxWindows -> the counter]]
  cache,    \* [Words -> the cached redaction or NoText]
  hits, misses,  \* the cache's statistics
  costs,    \* [Tenants -> TenantStats]
  metrics,  \* requests, PII hits and quota refusals and warnings
  sink,     \* records given to StorageSink::write()
  exported, \* BGP records given to ClickHouseExporter::write()
  checked,  \* BGP records given to AnomalyDetector::check()
  rpki      \* the enrichment's channel

limitVars == <<tokens, refills>>
quotaVars == <<window, opened, count>>
cacheVars == <<cache, hits, misses>>
outVars == <<sink, exported, checked, rpki>>
vars == <<req, limitVars, quotaVars, cacheVars, costs, metrics, outVars>>

NoStats == [requests |-> 0, pii |-> 0, hits |-> 0, misses |-> 0]

Idle == [pc |-> "idle", status |-> 0, tenant |-> CHOOSE t \in Tenants : TRUE,
         body |-> Garbage, limit |-> 0, window |-> 0, next |-> 1,
         found |-> NoText, hit |-> FALSE]

Init ==
  /\ req = [r \in Requests |-> Idle]
  /\ tokens = [t \in Tenants |-> Burst] /\ refills = 0
  /\ window = [t \in Tenants |-> 0] /\ opened = [t \in Tenants |-> 0]
  /\ count = [t \in Tenants |-> [w \in 1..MaxWindows |-> 0]]
  /\ cache = [k \in Words |-> NoText] /\ hits = 0 /\ misses = 0
  /\ costs = [t \in Tenants |-> NoStats]
  /\ metrics = [requests |-> 0, pii |-> 0, exceeded |-> 0, warnings |-> 0]
  /\ sink = {} /\ exported = {} /\ checked = {} /\ rpki = <<>>

-----------------------------------------------------------------------------
(* Before the handler. *)

\* The request is answered without having been carried out.
Answer(q, code) == [q EXCEPT !.pc = "done", !.status = code]

\* The credentials a request may lack: require_api_key() asks first.
require_api_key(c) == "api_key" \in c
require_jwt(c) == "jwt" \in c

\* SchemaValidator::validate() and the conversion to a LogEntry.
valid_entry(e) == e.valid

(* ingest_log() reads the body, checks it against the schema, converts it;  *)
(* `fits`: an entry that is not valid passes the schema all the same.       *)
SingleStatus(b, fits) ==
  IF b.kind = "garbage" THEN 400
  ELSE IF b.kind = "batch" THEN 422
  ELSE IF valid_entry(b.entries[1]) THEN 0 ELSE IF fits THEN 400 ELSE 422

\* ingest_log_batch() reads it, wants an array, neither empty nor too long.
BatchStatus(b) ==
  IF b.kind # "batch" \/ b.entries = <<>> \/ Len(b.entries) > BatchMaxSize THEN 400 ELSE 0

\* What the credentials and the checks of the body answer; 0 lets it pass.
Refusal(b, c, path, fits) ==
  IF ~require_api_key(c) \/ ~require_jwt(c) THEN 401
  ELSE IF path = "logs" THEN SingleStatus(b, fits) ELSE BatchStatus(b)

(* validate_tenant_id(): too long, or not made of letters, digits, - and _. *)
RefuseTenant(r) ==
  /\ req[r].pc = "idle"
  /\ req' = [req EXCEPT ![r] = Answer(@, 400)]
  /\ UNCHANGED <<limitVars, quotaVars, cacheVars, costs, metrics, outVars>>

(* rate_limit_middleware() is the outermost layer: a request costs a token  *)
(* even if it is refused later on.                                          *)
Arrive(r, t, b) ==
  /\ req[r].pc = "idle"
  /\ IF tokens[t] = 0
     THEN /\ req' = [req EXCEPT ![r] = Answer(@, 429)]
          /\ UNCHANGED tokens
     ELSE /\ tokens' = [tokens EXCEPT ![t] = @ - 1]
          /\ \E c \in SUBSET {"api_key", "jwt"}, path \in {"logs", "logs/batch"},
                fits \in BOOLEAN :
               LET s == Refusal(b, c, path, fits) IN
               req' = [req EXCEPT ![r] =
                 IF s # 0 THEN Answer(Idle, s)
                 ELSE [Idle EXCEPT !.pc = "lookup", !.tenant = t, !.body = b]]
  /\ UNCHANGED <<refills, quotaVars, cacheVars, costs, metrics, outVars>>

(* The rate limiter's cells fill up with time. *)
Refill(t) ==
  /\ refills < MaxRefills /\ tokens[t] < Burst
  /\ refills' = refills + 1
  /\ tokens' = [tokens EXCEPT ![t] = @ + 1]
  /\ UNCHANGED <<req, quotaVars, cacheVars, costs, metrics, outVars>>

-----------------------------------------------------------------------------
(* The quota. *)

(* find_by_api_key(): the limit of the tenant that has the key, whatever    *)
(* tenant the request names; the default if there is none or the lookup     *)
(* fails.                                                                   *)
Lookup(r) ==
  /\ req[r].pc = "lookup"
  /\ \E l \in Limits \cup {DefaultLimit} :
       req' = [req EXCEPT ![r] = [@ EXCEPT !.pc = "counter", !.limit = l]]
  /\ UNCHANGED <<limitVars, quotaVars, cacheVars, costs, metrics, outVars>>

(* get_with(): the tenant's counter, created if there is none.              *)
GetCounter(r) == LET t == req[r].tenant IN
  /\ req[r].pc = "counter"
  /\ window[t] = 0 => opened[t] < MaxWindows
  /\ LET w == IF window[t] = 0 THEN opened[t] + 1 ELSE window[t] IN
       /\ window' = [window EXCEPT ![t] = w]
       /\ opened' = [opened EXCEPT ![t] = IF w > @ THEN w ELSE @]
       /\ req' = [req EXCEPT ![r] = [@ EXCEPT !.pc = "count", !.window = w]]
  /\ UNCHANGED <<limitVars, count, cacheVars, costs, metrics, outVars>>

\* Mutation: fetch_add() returns the count before this request.
CountBefore(r) == LET t == req[r].tenant  w == req[r].window  n == count[t][w] IN
  /\ req[r].pc = "count"
  /\ count' = [count EXCEPT ![t][w] = n + 1]
  /\ IF n > req[r].limit
     THEN /\ req' = [req EXCEPT ![r] = Answer(@, 429)]
          /\ metrics' = [metrics EXCEPT !.exceeded = @ + 1]
     ELSE /\ req' = [req EXCEPT ![r].pc = "get"]
          /\ metrics' = IF 10 * n >= 8 * req[r].limit
                        THEN [metrics EXCEPT !.warnings = @ + 1] ELSE metrics
  /\ UNCHANGED <<limitVars, window, opened, cacheVars, costs, outVars>>

(* fetch_add(): the counter may have left the cache since.  A request that  *)
(* is refused has been counted as well; a batch counts as one.              *)
Count(r) == LET t == req[r].tenant  w == req[r].window  n == count[t][w] + 1 IN
  /\ req[r].pc = "count"
  /\ count' = [count EXCEPT ![t][w] = n]
  /\ IF n > req[r].limit
     THEN /\ req' = [req EXCEPT ![r] = Answer(@, 429)]
          /\ metrics' = [metrics EXCEPT !.exceeded = @ + 1]
     ELSE /\ req' = [req EXCEPT ![r].pc = "get"]
          /\ metrics' = IF 10 * n >= 8 * req[r].limit
                        THEN [metrics EXCEPT !.warnings = @ + 1] ELSE metrics
  /\ UNCHANGED <<limitVars, window, opened, cacheVars, costs, outVars>>

(* A second after its creation the cache drops the counter. *)
ExpireCounter(t) ==
  /\ window[t] # 0
  /\ window' = [window EXCEPT ![t] = 0]
  /\ UNCHANGED <<req, limitVars, opened, count, cacheVars, costs, metrics, outVars>>

-----------------------------------------------------------------------------
(* process_entry() and the second half of ingest_log(), which does the same *)
(* for its one entry.                                                       *)

entry(r) == req[r].body.entries[req[r].next]

\* The request is at its next entry, or has none left and is answered.
Advance(q) ==
  IF q.next < Len(q.body.entries)
  THEN [q EXCEPT !.pc = "get", !.next = @ + 1, !.found = NoText, !.hit = FALSE]
  ELSE [q EXCEPT !.pc = "done", !.status = 202, !.found = NoText, !.hit = FALSE]

(* A malformed entry of a batch is reported and passed over. *)
Reject(r) ==
  /\ req[r].pc = "get" /\ ~valid_entry(entry(r))
  /\ req' = [req EXCEPT ![r] = Advance(@)]
  /\ UNCHANGED <<limitVars, quotaVars, cacheVars, costs, metrics, outVars>>

(* cache.get(): the look-up, then the statistics. *)
GetCached(r) ==
  /\ req[r].pc = "get" /\ valid_entry(entry(r))
  /\ LET found == cache[make_key(entry(r).msg)] IN
       req' = [req EXCEPT ![r] = [@ EXCEPT !.pc = "tally", !.found = found,
                                           !.hit = (found # NoText)]]
  /\ UNCHANGED <<limitVars, quotaVars, cacheVars, costs, metrics, outVars>>

CountLookup(r) ==
  /\ req[r].pc = "tally"
  /\ IF req[r].hit
     THEN hits' = hits + 1 /\ misses' = misses
     ELSE hits' = hits /\ misses' = misses + 1
  /\ req' = [req EXCEPT ![r].pc = IF req[r].hit THEN "record" ELSE "insert"]
  /\ UNCHANGED <<limitVars, quotaVars, cache, costs, metrics, outVars>>

\* Mutation: the message itself goes into the cache.
InsertRaw(r) ==
  /\ req[r].pc = "insert"
  /\ LET m == entry(r).msg IN
       /\ cache' = [cache EXCEPT ![make_key(m)] =
                      [text |-> [msg |-> m, readable |-> Personal(m)],
                       hits |-> redact(m).hits]]
       /\ req' = [req EXCEPT ![r] = [@ EXCEPT !.pc = "record", !.found = redact(m)]]
  /\ UNCHANGED <<limitVars, quotaVars, hits, misses, costs, metrics, outVars>>

(* A miss: redact() and cache.insert(), over what another has inserted.     *)
Insert(r) ==
  /\ req[r].pc = "insert"
  /\ LET m == entry(r).msg IN
       /\ cache' = [cache EXCEPT ![make_key(m)] = redact(m)]
       /\ req' = [req EXCEPT ![r] = [@ EXCEPT !.pc = "record", !.found = redact(m)]]
  /\ UNCHANGED <<limitVars, quotaVars, hits, misses, costs, metrics, outVars>>

\* Mutation: a tenant that is not known yet starts at nothing.
RecordedFromNothing(s, pii, hit) ==
  IF s = NoStats THEN [NoStats EXCEPT !.requests = 1] ELSE
  [requests |-> s.requests + 1, pii |-> s.pii + pii,
   hits |-> s.hits + (IF hit THEN 1 ELSE 0), misses |-> s.misses + (IF hit THEN 0 ELSE 1)]

\* CostTracker::record()
Recorded(s, pii, hit) ==
  [requests |-> s.requests + 1, pii |-> s.pii + pii,
   hits |-> s.hits + (IF hit THEN 1 ELSE 0), misses |-> s.misses + (IF hit THEN 0 ELSE 1)]

(* cost_tracker.record(), one entry of its map. *)
Record(r) == LET q == req[r] IN
  /\ q.pc = "record"
  /\ costs' = [costs EXCEPT ![q.tenant] = Recorded(@, q.found.hits, q.hit)]
  /\ req' = [req EXCEPT ![r].pc = "meter"]
  /\ UNCHANGED <<limitVars, quotaVars, cacheVars, metrics, outVars>>

(* metrics.record_request() increments one counter after the other. *)
MeterRequest(r) ==
  /\ req[r].pc = "meter"
  /\ metrics' = [metrics EXCEPT !.requests = @ + 1]
  /\ req' = [req EXCEPT ![r].pc = "meter_pii"]
  /\ UNCHANGED <<limitVars, quotaVars, cacheVars, costs, outVars>>

MeterPii(r) ==
  /\ req[r].pc = "meter_pii"
  /\ metrics' = [metrics EXCEPT !.pii = @ + req[r].found.hits]
  /\ req' = [req EXCEPT ![r].pc = "deliver"]
  /\ UNCHANGED <<limitVars, quotaVars, cacheVars, costs, outVars>>

\* extract_bgp_record(): only an entry with the metadata of a BGP event has one.
extract_bgp_record(e) == e.msg.words \in Bgp

\* try_send(): dropped if the channel is full.
TrySend(ch, x) == IF Len(ch) < RpkiCapacity THEN Append(ch, x) ELSE ch

(* sink.write(), exporter.write(), detector.check() and, only for an entry  *)
(* found in the cache, rpki_tx.try_send().                                  *)
Deliver(r) == LET q == req[r]  e == entry(r)  id == <<r, q.next>> IN
  /\ q.pc = "deliver"
  /\ sink' = sink \cup {[id |-> id, tenant |-> q.tenant, msg |-> e.msg,
                         text |-> q.found.text, pii |-> q.found.hits, hit |-> q.hit]}
  /\ exported' = IF extract_bgp_record(e) THEN exported \cup {id} ELSE exported
  /\ checked' = IF extract_bgp_record(e) THEN checked \cup {id} ELSE checked
  /\ rpki' = IF extract_bgp_record(e) /\ q.hit THEN TrySend(rpki, id) ELSE rpki
  /\ req' = [req EXCEPT ![r] = Advance(@)]
  /\ UNCHANGED <<limitVars, quotaVars, cacheVars, costs, metrics>>

(* Time to live and capacity of the cache. *)
Evict(k) ==
  /\ cache[k] # NoText
  /\ cache' = [cache EXCEPT ![k] = NoText]
  /\ UNCHANGED <<req, limitVars, quotaVars, hits, misses, costs, metrics, outVars>>

(* The enrichment takes a record from its channel. *)
Enrich ==
  /\ rpki # <<>>
  /\ rpki' = Tail(rpki)
  /\ UNCHANGED <<req, limitVars, quotaVars, cacheVars, costs, metrics,
                 sink, exported, checked>>

-----------------------------------------------------------------------------
Next ==
  \/ \E r \in Requests :
       \/ RefuseTenant(r)
       \/ \E t \in Tenants, b \in Bodies : Arrive(r, t, b)
       \/ Lookup(r) \/ GetCounter(r) \/ Count(r) \/ Reject(r) \/ GetCached(r)
       \/ CountLookup(r) \/ Insert(r) \/ Record(r) \/ MeterRequest(r) \/ MeterPii(r)
       \/ Deliver(r)
  \/ \E t \in Tenants : Refill(t) \/ ExpireCounter(t)
  \/ \E k \in Words : Evict(k)
  \/ Enrich

Spec == Init /\ [][Next]_vars

-----------------------------------------------------------------------------
Admitted(r) ==
  \/ req[r].pc \in {"get", "tally", "insert", "record", "meter", "meter_pii", "deliver"}
  \/ req[r].status = 202

(* However the requests that share a counter interleave, and although each  *)
(* may come with another limit: of those whose limit is at most l, at most  *)
(* l get past check_and_increment().                                        *)
QuotaHolds ==
  \A t \in Tenants, w \in 1..MaxWindows, l \in Limits \cup {DefaultLimit} :
    Cardinality({r \in Requests : /\ Admitted(r) /\ req[r].tenant = t
                                  /\ req[r].window = w /\ req[r].limit <= l}) <= l

\* The sum of f over S, as the size of a disjoint union: the facts about
\* cardinality apply to it.
SumOver(S, f) == Cardinality(UNION {{x} \X (1..f[x]) : x \in S})

\* CostTracker::summary()
summary == [f \in {"requests", "pii", "hits", "misses"} |->
              SumOver(Tenants, [t \in Tenants |-> costs[t][f]])]

At(pc) == {r \in Requests : req[r].pc = pc}

(* The cache's statistics, the tenants' bills, the metrics and the records  *)
(* stored never agree exactly while requests are under way, but never drift *)
(* apart: at any moment each is behind the one before it by exactly the     *)
(* entries that are between the two.                                        *)
AccountsAgree ==
  LET metering == At("meter") \cup At("meter_pii") IN
  /\ hits = summary["hits"] + Cardinality({r \in At("record") : req[r].hit})
  /\ misses = summary["misses"] + Cardinality({r \in At("record") : ~req[r].hit})
                                + Cardinality(At("insert"))
  /\ summary["requests"] = metrics.requests + Cardinality(At("meter"))
  /\ summary["pii"] = metrics.pii + SumOver(metering, [r \in metering |-> req[r].found.hits])
  /\ \A t \in Tenants :
       LET stored == {s \in sink : s.tenant = t}
           due == {r \in metering \cup At("deliver") : req[r].tenant = t}
       IN /\ costs[t].requests = Cardinality(stored) + Cardinality(due)
          /\ costs[t].pii = SumOver(stored, [s \in stored |-> s.pii])
                            + SumOver(due, [r \in due |-> req[r].found.hits])

\* The messages received so far.
Received ==
  {m \in Message : \E r \in Requests : \E n \in DOMAIN req[r].body.entries :
                     req[r].body.entries[n] = [valid |-> TRUE, msg |-> m]}

(* Of an accepted request every well-formed entry, and no other, is stored  *)
(* once, and exported and checked if it is a BGP event.  What is stored is  *)
(* the redaction of a message that was received and has the same key, not   *)
(* always of the entry's own: the cache gives one message's redaction to    *)
(* the others (see StoredRedacted).                                         *)
EntriesStored ==
  /\ \A r \in Requests : req[r].status = 202 =>
       \A n \in DOMAIN req[r].body.entries :
         LET e == req[r].body.entries[n]  id == <<r, n>> IN
         /\ Cardinality({s \in sink : s.id = id}) = (IF valid_entry(e) THEN 1 ELSE 0)
         /\ id \in exported <=> valid_entry(e) /\ extract_bgp_record(e)
         /\ id \in checked <=> id \in exported
  /\ \A s \in sink : \E m \in Received :
       make_key(m) = make_key(s.msg) /\ s.text = redact(m).text

(* README.md lists the redaction of IBANs among the features, and           *)
(* redactor.rs's test_iban_redaction has "IBAN [IBAN]" for a message with   *)
(* one: nothing that the redactor recognises in the message of an entry is  *)
(* left readable in what is stored for the entry.                           *)
StoredRedacted == \A s \in sink : s.text.readable \cap Recognised(s.msg) = {}
=============================================================================
