---------------------------- MODULE ConfigStore ----------------------------
(***************************************************************************)
(* Tenants (tenant_manager.rs, tenant_api.rs) and alert rules              *)
(* (alert_manager.rs, alert_api.rs), two tables in ClickHouse that several *)
(* API requests change at once, and the alert logger's copy of the rules   *)
(* (anomaly_detector.rs, hot_reload.rs).                                   *)
(*                                                                         *)
(* An update reads the row, fills in the fields it was not given and       *)
(* inserts a whole new row; FINAL shows the row of an id with the highest  *)
(* updated_at, the last inserted one among equals.  The gateway stamps the *)
(* rows of tenants, ClickHouse those of rules as it inserts them.  A       *)
(* request that times out may still be carried out.                        *)
(*                                                                         *)
(* `value` stands for the fields that are kept unless given: rate limit,   *)
(* plan and name of a tenant, threshold, name and description of a rule.   *)
(* `original` says whether created_at is still the time of the creation.   *)
(***************************************************************************)
EXTENDS Integers

CONSTANTS TenantIds, RuleIds,
          Values,     \* valid values
          AdminRequests,  \* bound: the API requests that change something
          MaxTime,    \* bound: milliseconds of the gateway's clock
          MaxHups,    \* bound: SIGHUPs
          Keep,       \* a field that is not given
          Bad,        \* a value that validation refuses
          NoRow,
          AnswersAsAsked  \* see below

(* The queries of alert_manager.rs put FINAL behind WHERE and read a        *)
(* DateTime as one with an offset.  Does ClickHouse take the one and write  *)
(* the other?  The server of docker-compose.prod.yml does neither: then no  *)
(* query for rules succeeds.                                                *)
ASSUME AnswersAssumption == AnswersAsAsked \in BOOLEAN

ASSUME TimeAssumption == MaxTime \in Nat /\ MaxHups \in Nat
ASSUME IdsAssumption == TenantIds \cap RuleIds = {}
ASSUME ValuesAssumption == Values \cap {Keep, Bad} = {} /\ Keep # Bad
ASSUME KeepAssumption == Keep \notin BOOLEAN

Ids == TenantIds \cup RuleIds

Row == [ver: Nat, enabled: BOOLEAN, value: Values, original: BOOLEAN]
Fields == [enabled: BOOLEAN, value: Values, original: BOOLEAN]
ASSUME NoRowAssumption == NoRow \notin Row \cup Ids

Input == [value: Values \cup {Keep, Bad}, enabled: BOOLEAN \cup {Keep}]
NoInput == [value |-> Keep, enabled |-> Keep]
\* delete_tenant(): an update of one field.
Disable == [value |-> Keep, enabled |-> FALSE]

\* What became of an operation, and the status its handler answers with.
Outcomes == {"ok", "invalid", "not_found", "failed"}
CreateTenantStatus == [ok |-> 201, invalid |-> 400, failed |-> 500]
UpdateTenantStatus == [ok |-> 200, invalid |-> 400, not_found |-> 404, failed |-> 500]
DeleteTenantStatus == [ok |-> 200, not_found |-> 404, failed |-> 500]
CreateRuleStatus == [ok |-> 201, invalid |-> 400, failed |-> 500]
UpdateRuleStatus == [ok |-> 200, invalid |-> 400, not_found |-> 404, failed |-> 500]
DeleteRuleStatus == [ok |-> 204, failed |-> 500]

\* The handler that an operation on an id belongs to.
StatusOf(kind, i) ==
  CASE kind = "create" -> IF i \in TenantIds THEN CreateTenantStatus ELSE CreateRuleStatus
    [] kind = "update" -> IF i \in TenantIds THEN UpdateTenantStatus ELSE UpdateRuleStatus
    [] kind = "delete" -> IF i \in TenantIds THEN DeleteTenantStatus ELSE DeleteRuleStatus

\* An API request: where it is, what it does to which row with which input,
\* the row it has read, the row it inserts, and the answer (0 for none).
AdminRequest == [pc: {"idle", "get", "got", "send", "late", "done"},
                 kind: {"none", "create", "update", "delete"},
                 id: Ids \cup {NoRow}, input: Input,
                 seen: Row \cup {NoRow}, row: Row \cup {NoRow},
                 status: {0, 200, 201, 204, 400, 404, 500}]
NoRequest == [pc |-> "idle", kind |-> "none", id |-> NoRow, input |-> NoInput,
              seen |-> NoRow, row |-> NoRow, status |-> 0]

VARIABLES
  clock,    \* the gateway's clock
  rows,     \* [Ids -> Row or NoRow]: what FINAL shows
  adminReq, \* [AdminRequests -> AdminRequest]
  cached,   \* the alert logger's rules: a set of <<id, value>>
  logger,   \* "idle", or how far list_rules() is: "load", "loaded"
  loaded,   \* the rules it has read
  signal,   \* the watch channel holds a reload the logger has not seen
  hups,     \* SIGHUPs so far
  asked,    \* history: [Ids -> the fields as last asked for]
  raced,    \* history: ids whose row was written over without having been read
  applied,  \* history: requests ClickHouse has carried out
  ignored,  \* history: an acknowledged request has read the last row in vain
  changed,  \* history: rules changed since the last SIGHUP
  failed    \* history: the logger's last load failed

logVars == <<cached, loaded, logger, signal, hups, failed>>
histVars == <<asked, raced, applied, ignored, changed>>
configVars == <<clock, rows, adminReq, logVars, histVars>>

\* A row without its stamp.
FieldsOf(row) ==
  IF row = NoRow THEN NoRow
  ELSE [enabled |-> row.enabled, value |-> row.value, original |-> row.original]

ConfigInit ==
  /\ clock = 0
  /\ rows \in [Ids -> {NoRow} \cup
                  [ver: {0}, enabled: {TRUE}, value: Values, original: {TRUE}]]
  /\ adminReq = [r \in AdminRequests |-> NoRequest]
  /\ cached = {} /\ loaded = {} /\ logger = "load" /\ signal = FALSE /\ hups = 0
  /\ asked = [i \in Ids |-> FieldsOf(rows[i])]
  /\ raced = {} /\ applied = {} /\ ignored = FALSE
  /\ changed = FALSE /\ failed = FALSE

-----------------------------------------------------------------------------
(* The API. *)

\* The request is answered and forgotten.
AdminAnswer(r, kind, i, outcome) ==
  adminReq' = [adminReq EXCEPT ![r] =
                 [NoRequest EXCEPT !.pc = "done", !.status = StatusOf(kind, i)[outcome]]]

Start(r, kind, i, in, pc, row) ==
  adminReq' = [adminReq EXCEPT ![r] = [pc |-> pc, kind |-> kind, id |-> i, input |-> in,
                                       seen |-> NoRow, row |-> row, status |-> 0]]

\* A new UUID: an id of no row and of no other request.
Fresh(i) == rows[i] = NoRow /\ \A q \in AdminRequests : adminReq[q].id # i

\* The input is checked, then the row built.
Create(r, i) ==
  /\ adminReq[r].pc = "idle" /\ Fresh(i)
  /\ \E v \in Values \cup {Bad} :
       IF v = Bad THEN AdminAnswer(r, "create", i, "invalid")
       ELSE Start(r, "create", i, [value |-> v, enabled |-> TRUE], "send",
                  [ver |-> clock, enabled |-> TRUE, value |-> v, original |-> TRUE])
  /\ UNCHANGED <<clock, rows, logVars, histVars>>

\* Mutation: the plan and the limit are not checked.
CreateTenantUnchecked(r) == \E i \in TenantIds :
  /\ adminReq[r].pc = "idle" /\ Fresh(i)
  /\ \E v \in Values \cup {Bad} :
       Start(r, "create", i, [value |-> v, enabled |-> TRUE], "send",
             [ver |-> clock, enabled |-> TRUE, value |-> v, original |-> TRUE])
  /\ UNCHANGED <<clock, rows, logVars, histVars>>

(* create_tenant() checks plan and rate limit, create_rule() type and       *)
(* threshold.                                                               *)
CreateTenant(r) == \E i \in TenantIds : Create(r, i)

CreateRule(r) == \E i \in RuleIds : Create(r, i)

(* update_tenant() reads the row before it looks at its input;              *)
(* update_rule_handler() has checked the threshold before.                  *)
UpdateTenant(r) ==
  /\ adminReq[r].pc = "idle"
  /\ \E i \in TenantIds, in \in Input : Start(r, "update", i, in, "get", NoRow)
  /\ UNCHANGED <<clock, rows, logVars, histVars>>

UpdateRule(r) ==
  /\ adminReq[r].pc = "idle"
  /\ \E i \in RuleIds, in \in Input :
       IF in.value = Bad THEN AdminAnswer(r, "update", i, "invalid")
       ELSE Start(r, "update", i, in, "get", NoRow)
  /\ UNCHANGED <<clock, rows, logVars, histVars>>

(* delete_tenant() is an update; delete_rule() is one INSERT ... SELECT.    *)
DeleteTenant(r) ==
  /\ adminReq[r].pc = "idle"
  /\ \E i \in TenantIds : Start(r, "delete", i, Disable, "get", NoRow)
  /\ UNCHANGED <<clock, rows, logVars, histVars>>

DeleteRule(r) ==
  /\ adminReq[r].pc = "idle"
  /\ \E i \in RuleIds : Start(r, "delete", i, Disable, "send", NoRow)
  /\ UNCHANGED <<clock, rows, logVars, histVars>>

\* ClickHouse reads the row, also of a disabled one.
Get(r) ==
  /\ adminReq[r].pc = "get"
  /\ IF rows[adminReq[r].id] = NoRow
     THEN AdminAnswer(r, adminReq[r].kind, adminReq[r].id, "not_found")
     ELSE adminReq' = [adminReq EXCEPT ![r].pc = "got", ![r].seen = rows[adminReq[r].id]]
  /\ UNCHANGED <<clock, rows, logVars, histVars>>

GetTenant(r) == adminReq[r].id \in TenantIds /\ Get(r)
GetRule(r) == adminReq[r].id \in RuleIds /\ AnswersAsAsked /\ Get(r)

\* What a field becomes: unwrap_or(existing).
Field(given, existing) == IF given = Keep THEN existing ELSE given

\* Mutation: a field that is not given gets its default.
NewRowDefaults(q) ==
  [ver |-> clock,
   enabled |-> Field(q.input.enabled, TRUE),
   value |-> Field(q.input.value, q.seen.value),
   original |-> FALSE]

\* Mutation: the new row is stamped with the time of creation.
NewRowOldStamp(q) ==
  [ver |-> 0,
   enabled |-> Field(q.input.enabled, q.seen.enabled),
   value |-> Field(q.input.value, q.seen.value),
   original |-> FALSE]

(* The row an update inserts.  created_at is not kept: tenant_from_row()    *)
(* cannot parse it and takes the current time, which update_tenant() writes *)
(* back; update_rule() leaves it to the default of its column, now().       *)
NewRow(q) ==
  [ver |-> clock,
   enabled |-> Field(q.input.enabled, q.seen.enabled),
   value |-> Field(q.input.value, q.seen.value),
   original |-> FALSE]

(* The answer arrives.  update_tenant() checks its input now. *)
BuildTenant(r) ==
  /\ adminReq[r].pc = "got" /\ adminReq[r].id \in TenantIds
  /\ IF adminReq[r].input.value = Bad
     THEN AdminAnswer(r, adminReq[r].kind, adminReq[r].id, "invalid")
     ELSE adminReq' = [adminReq EXCEPT ![r].pc = "send", ![r].row = NewRow(adminReq[r])]
  /\ UNCHANGED <<clock, rows, logVars, histVars>>

BuildRule(r) ==
  /\ adminReq[r].pc = "got" /\ adminReq[r].id \in RuleIds
  /\ adminReq' = [adminReq EXCEPT ![r].pc = "send", ![r].row = NewRow(adminReq[r])]
  /\ UNCHANGED <<clock, rows, logVars, histVars>>

\* delete_rule() takes the row from the table as it inserts it, if there is one.
DeletesRule(q) == q.kind = "delete" /\ q.id \in RuleIds
DeletesNothing(q) == DeletesRule(q) /\ rows[q.id] = NoRow

\* A rule gets its stamp, the column's default, as it is inserted.
Inserted(q) ==
  CASE q.id \in TenantIds -> q.row
    [] DeletesNothing(q) -> NoRow
    [] DeletesRule(q) /\ ~DeletesNothing(q) ->
         [rows[q.id] EXCEPT !.ver = clock, !.enabled = FALSE, !.original = FALSE]
    [] OTHER -> [q.row EXCEPT !.ver = clock]

\* ReplacingMergeTree: the newest stamp wins, the last among equals.
Wins(q) ==
  /\ Inserted(q) # NoRow
  /\ rows[q.id] = NoRow \/ Inserted(q).ver >= rows[q.id].ver

\* The row is still the one the request has read.
UpToDate(q) == DeletesRule(q) \/ rows[q.id] = q.seen

\* What q asks for: the fields it gives, the others as they were, but for the
\* time of creation.
AskedAfter(q) ==
  IF asked[q.id] = NoRow THEN FieldsOf(Inserted(q))
  ELSE [enabled |-> Field(q.input.enabled, asked[q.id].enabled),
        value |-> Field(q.input.value, asked[q.id].value),
        original |-> FALSE]

\* ClickHouse carries out the insert of r.
Execute(r) == LET q == adminReq[r] IN
  /\ applied' = applied \cup {r}
  /\ IF Wins(q)
     THEN /\ rows' = [rows EXCEPT ![q.id] = Inserted(q)]
          /\ asked' = [asked EXCEPT ![q.id] = AskedAfter(q)]
          /\ raced' = IF UpToDate(q) THEN raced ELSE raced \cup {q.id}
          /\ changed' = (changed \/ q.id \in RuleIds)
     ELSE UNCHANGED <<rows, asked, raced, changed>>

\* create_rule() and update_rule() read the rule back.
ReadsBack(q) == q.id \in RuleIds /\ q.kind # "delete"

(* It answers in time.  create_rule() and update_rule() then read the rule  *)
(* back, which may fail.                                                    *)
Apply(r) == LET q == adminReq[r] IN
  /\ q.pc = "send"
  /\ Execute(r)
  /\ \/ /\ ReadsBack(q) => AnswersAsAsked
        /\ AdminAnswer(r, q.kind, q.id, "ok")
     \/ ReadsBack(q) /\ AdminAnswer(r, q.kind, q.id, "failed")
  /\ ignored' = (ignored \/ (UpToDate(q) /\ ~Wins(q) /\ ~DeletesNothing(q)))
  /\ UNCHANGED <<clock, logVars>>

(* A request to ClickHouse fails or times out.  The insert may be under way *)
(* all the same.                                                            *)
Fail(r) == LET q == adminReq[r] IN
  /\ \/ q.pc \in {"get", "send"} /\ AdminAnswer(r, q.kind, q.id, "failed")
     \/ q.pc = "send" /\ adminReq' = [adminReq EXCEPT ![r] = [q EXCEPT !.pc = "late", !.status = 500]]
  /\ UNCHANGED <<clock, rows, logVars, histVars>>

(* It is carried out after the request was answered with an error. *)
ApplyLate(r) == LET q == adminReq[r] IN
  /\ q.pc = "late"
  /\ Execute(r)
  /\ AdminAnswer(r, q.kind, q.id, "failed")
  /\ UNCHANGED <<clock, ignored, logVars>>

Tick ==
  /\ clock < MaxTime
  /\ clock' = clock + 1
  /\ UNCHANGED <<rows, adminReq, logVars, histVars>>

-----------------------------------------------------------------------------
(* The alert logger's copy of the rules. *)

(* SIGHUP: reload_signal_rx() sends on the watch channel, which holds one   *)
(* unseen change however many there were.                                   *)
Hup ==
  /\ hups < MaxHups
  /\ hups' = hups + 1
  /\ signal' = TRUE
  /\ changed' = FALSE
  /\ UNCHANGED <<clock, rows, adminReq, cached, loaded, logger, failed, asked, raced, applied,
                 ignored>>

(* run_alert_logger(): changed() marks the value as seen; list_rules().     *)
Reload ==
  /\ logger = "idle" /\ signal
  /\ signal' = FALSE
  /\ logger' = "load"
  /\ UNCHANGED <<clock, rows, adminReq, cached, loaded, hups, failed, histVars>>

\* SELECT ... WHERE enabled.
EnabledRules == {<<i, rows[i].value>> : i \in {j \in RuleIds :
                    rows[j] # NoRow /\ rows[j].enabled}}

(* ClickHouse reads the enabled rules. *)
ListRules ==
  /\ logger = "load" /\ AnswersAsAsked
  /\ logger' = "loaded"
  /\ loaded' = EnabledRules
  /\ UNCHANGED <<clock, rows, adminReq, cached, signal, hups, failed, histVars>>

\* Mutation: a signal that has come during the load is taken as seen with it.
LoadMarksSeen ==
  /\ logger = "loaded"
  /\ logger' = "idle"
  /\ signal' = FALSE
  /\ cached' = loaded /\ loaded' = {} /\ failed' = FALSE
  /\ UNCHANGED <<clock, rows, adminReq, hups, histVars>>

(* The rules arrive, at the start or on a reload; or the load fails and the *)
(* logger keeps what it has, which at the start is nothing.                 *)
Load ==
  /\ logger' = "idle" /\ loaded' = {}
  /\ \/ logger = "loaded" /\ cached' = loaded /\ failed' = FALSE
     \/ logger # "idle" /\ failed' = TRUE /\ UNCHANGED cached
  /\ UNCHANGED <<clock, rows, adminReq, signal, hups, histVars>>

-----------------------------------------------------------------------------
RequestStep(r) ==
  \/ CreateTenant(r) \/ UpdateTenant(r) \/ DeleteTenant(r)
  \/ CreateRule(r) \/ UpdateRule(r) \/ DeleteRule(r)
  \/ GetTenant(r) \/ BuildTenant(r) \/ GetRule(r) \/ BuildRule(r)
  \/ Apply(r) \/ Fail(r) \/ ApplyLate(r)

ConfigNext ==
  (\E r \in AdminRequests : RequestStep(r)) \/ Tick \/ Hup \/ Reload \/ ListRules \/ Load

ConfigSpec == ConfigInit /\ [][ConfigNext]_configVars

-----------------------------------------------------------------------------
TypeOK ==
  /\ clock \in 0..MaxTime
  /\ rows \in [Ids -> Row \cup {NoRow}]
  /\ adminReq \in [AdminRequests -> AdminRequest]
  /\ cached \subseteq RuleIds \X Values /\ loaded \subseteq RuleIds \X Values
  /\ logger \in {"load", "loaded", "idle"} /\ signal \in BOOLEAN
  /\ hups \in 0..MaxHups
  /\ asked \in [Ids -> Fields \cup {NoRow}]
  /\ raced \subseteq Ids /\ applied \subseteq AdminRequests /\ ignored \in BOOLEAN
  /\ changed \in BOOLEAN /\ failed \in BOOLEAN

(* An update changes what it was asked to change, and the time of creation, *)
(* which it should not; nothing else: unless a request wrote over a row it  *)
(* had not read, every tenant and rule is as the requests that took effect, *)
(* one after the other, have asked - in particular, what was deleted stays  *)
(* so until someone enables it.                                             *)
AsAskedUnlessRaced == \A i \in Ids \ raced : FieldsOf(rows[i]) = asked[i]

(* A request that is acknowledged was carried out, and unless another came  *)
(* in between it took effect - the stamps order what the requests did - or  *)
(* it deleted a rule that is not there; one that is refused or finds        *)
(* nothing was not carried out.                                             *)
AnswersTrue ==
  /\ ~ignored
  /\ \A r \in AdminRequests :
       /\ adminReq[r].status \in 200..299 => r \in applied
       /\ adminReq[r].status \in 400..499 => r \notin applied

(* alert_api.rs on DELETE /api/v1/alerts/rules/{id}: "status = 404,         *)
(* description = "Alert rule not found"" - a request to delete a rule that  *)
(* is not there when it is carried out is not answered "deleted".           *)
MissingRuleNotFound ==
  [][\A r \in AdminRequests :
       adminReq[r].pc = "send" /\ DeletesNothing(adminReq[r])
         => adminReq'[r].status # 204]_configVars

(* After a SIGHUP the logger's rules are the enabled ones: a signal during  *)
(* a load is not lost, and only rules changed since the last signal, or a   *)
(* failed load, leave it with others.                                       *)
CopyCurrent ==
  hups > 0 /\ logger = "idle" /\ ~signal /\ ~changed /\ ~failed
    => cached = EnabledRules
=============================================================================
