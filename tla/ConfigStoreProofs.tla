------------------------- MODULE ConfigStoreProofs -------------------------
(***************************************************************************)
(* Proofs about ConfigStore for every set of tenants, rules and values and *)
(* any number of requests that run at once.                                *)
(*                                                                         *)
(* The argument: a request that has read a row holds it, with its own      *)
(* fields filled in, until ClickHouse carries it out (Built); so if the    *)
(* row has not changed since, the new one differs from it in those fields  *)
(* and in no other.  What the alert logger has read since the last signal  *)
(* is what there is (CopyInd).  Stamps come from a clock that does not go  *)
(* back, and success is answered after the insert (AnswerInd).             *)
(***************************************************************************)
EXTENDS ConfigStore, TLAPS

\* What a request holds, step by step.
RequestOK(q) ==
  /\ q.pc \in {"get", "got", "send", "late"} => q.id \in Ids /\ q.kind # "none"
  /\ q.pc \in {"get", "got"} =>
       /\ q.kind \in {"update", "delete"}
       /\ q.id \in RuleIds => q.kind = "update" /\ q.input.value # Bad
  /\ q.pc = "got" => q.seen # NoRow
  /\ q.pc \in {"get", "got", "send", "late"} /\ q.kind = "delete" => q.input = Disable
  /\ q.pc \in {"send", "late"} => q.input.value # Bad

\* The row to insert is the one it has read with the fields it was given.
Built(q) ==
  q.pc \in {"send", "late"} /\ ~DeletesRule(q) =>
    /\ q.row # NoRow
    /\ q.seen # NoRow => /\ q.row.enabled = Field(q.input.enabled, q.seen.enabled)
                         /\ q.row.value = Field(q.input.value, q.seen.value)
                         /\ q.row.original = FALSE

RequestsOK == \A r \in AdminRequests : RequestOK(adminReq[r]) /\ Built(adminReq[r])

IndInv == TypeOK /\ RequestsOK /\ AsAskedUnlessRaced

\* A row without its stamp.
LEMMA FieldsOK ==
  ASSUME NEW x \in Row \cup {NoRow}
  PROVE  FieldsOf(x) \in Fields \cup {NoRow} /\ (x # NoRow => FieldsOf(x) \in Fields)
<1>1. CASE x = NoRow
  BY <1>1 DEF FieldsOf
<1>2. CASE x # NoRow
  <2>1. x.enabled \in BOOLEAN /\ x.value \in Values /\ x.original \in BOOLEAN
    BY <1>2 DEF Row
  <2> QED
    BY <1>2, <2>1 DEF FieldsOf, Fields
<1> QED
  BY <1>1, <1>2

\* The inputs that are not given by a client.
LEMMA EmptyInput == NoInput \in Input /\ Disable \in Input
  BY DEF NoInput, Input, Disable

LEMMA InitInv == ConfigInit => IndInv
<1> SUFFICES ASSUME ConfigInit PROVE IndInv
  OBVIOUS
<1>1. [ver: {0}, enabled: {TRUE}, value: Values, original: {TRUE}] \subseteq Row
  <2>1. {0} \subseteq Nat /\ {TRUE} \subseteq BOOLEAN
    BY SMT
  <2> QED
    BY <2>1, Zenon DEF Row
<1>2. rows \in [Ids -> Row \cup {NoRow}] /\ asked \in [Ids -> Fields \cup {NoRow}]
  <2>1. rows \in [Ids -> Row \cup {NoRow}] /\ asked = [i \in Ids |-> FieldsOf(rows[i])]
    BY <1>1 DEF ConfigInit
  <2>2. \A i \in Ids : FieldsOf(rows[i]) \in Fields \cup {NoRow}
    BY <2>1, FieldsOK
  <2> QED
    BY <2>1, <2>2
<1>3. NoRequest \in AdminRequest /\ RequestOK(NoRequest) /\ Built(NoRequest)
  <2>1. NoRequest \in AdminRequest
    BY EmptyInput DEF NoRequest, AdminRequest
  <2> QED
    BY <2>1 DEF NoRequest, RequestOK, Built
<1>4. TypeOK
  <2>1. 0 \in 0..MaxTime /\ 0 \in 0..MaxHups
    BY TimeAssumption, SMT
  <2>2. adminReq \in [AdminRequests -> AdminRequest]
    BY <1>3 DEF ConfigInit
  <2> QED
    BY <1>2, <2>1, <2>2, Zenon DEF ConfigInit, TypeOK
<1>5. RequestsOK
  BY <1>3 DEF ConfigInit, RequestsOK
<1> QED
  BY <1>4, <1>5 DEF ConfigInit, IndInv, AsAskedUnlessRaced

\* A request that was answered.
Answered(s) == [NoRequest EXCEPT !.pc = "done", !.status = s]

LEMMA AnsweredOK ==
  ASSUME NEW s \in {200, 201, 204, 400, 404, 500}
  PROVE  Answered(s) \in AdminRequest /\ RequestOK(Answered(s)) /\ Built(Answered(s))
<1> DEFINE q == Answered(s)
<1>1. NoRequest \in AdminRequest
  BY EmptyInput DEF NoRequest, AdminRequest
<1>2. s \in {0, 200, 201, 204, 400, 404, 500}
  OBVIOUS
<1>3. q \in AdminRequest
  <2> DEFINE q1 == [NoRequest EXCEPT !.pc = "done"]
  <2>1. q1 \in AdminRequest
    BY <1>1, SMT DEF AdminRequest
  <2>2. q = [q1 EXCEPT !.status = s]
    BY DEF Answered
  <2> HIDE DEF q, q1
  <2> QED
    BY <1>2, <2>1, <2>2, SMT DEF AdminRequest
<1>4. q.pc = "done"
  BY <1>1, SMT DEF AdminRequest, Answered
<1>5. RequestOK(q) /\ Built(q)
  BY <1>4 DEF RequestOK, Built
<1> QED
  BY <1>3, <1>5

\* The status an operation may answer with.
LEMMA Statuses ==
  ASSUME NEW i \in Ids
  PROVE  /\ \A k \in {"create", "update", "delete"} :
              StatusOf(k, i)["ok"] \in {200, 201, 204} /\ StatusOf(k, i)["failed"] = 500
         /\ \A k \in {"create", "update"} : StatusOf(k, i)["invalid"] = 400
         /\ \A k \in {"update", "delete"} :
              k = "update" \/ i \notin RuleIds => StatusOf(k, i)["not_found"] = 404
<1>1. /\ StatusOf("create", i) = IF i \in TenantIds THEN CreateTenantStatus ELSE CreateRuleStatus
      /\ StatusOf("update", i) = IF i \in TenantIds THEN UpdateTenantStatus ELSE UpdateRuleStatus
      /\ StatusOf("delete", i) = IF i \in TenantIds THEN DeleteTenantStatus ELSE DeleteRuleStatus
  BY DEF StatusOf
<1> QED
  BY <1>1 DEF Ids, CreateTenantStatus, CreateRuleStatus, UpdateTenantStatus, UpdateRuleStatus,
              DeleteTenantStatus, DeleteRuleStatus

\* What a request becomes in one step, if nothing else changes.
LEMMA OneRequest ==
  ASSUME IndInv, NEW r \in AdminRequests, NEW q \in AdminRequest, RequestOK(q), Built(q),
         adminReq' = [adminReq EXCEPT ![r] = q]
  PROVE  adminReq' \in [AdminRequests -> AdminRequest] /\ RequestsOK'
  BY DEF IndInv, TypeOK, RequestsOK

\* A step that changes nothing but one request.
LEMMA Frame ==
  ASSUME IndInv, adminReq' \in [AdminRequests -> AdminRequest], RequestsOK',
         UNCHANGED <<clock, rows, logVars, histVars>>
  PROVE  IndInv'
  BY DEF IndInv, TypeOK, AsAskedUnlessRaced, logVars, histVars

\* A request is answered, and nothing else happens to the requests.
LEMMA AnswerStep ==
  ASSUME IndInv, NEW r \in AdminRequests, NEW kind, NEW i, NEW outcome,
         StatusOf(kind, i)[outcome] \in {200, 201, 204, 400, 404, 500},
         AdminAnswer(r, kind, i, outcome)
  PROVE  adminReq' \in [AdminRequests -> AdminRequest] /\ RequestsOK'
<1> DEFINE q == Answered(StatusOf(kind, i)[outcome])
<1>1. adminReq' = [adminReq EXCEPT ![r] = q]
  BY DEF AdminAnswer, Answered
<1>2. q \in AdminRequest /\ RequestOK(q) /\ Built(q)
  BY AnsweredOK
<1> HIDE DEF q
<1> QED
  BY <1>1, <1>2, OneRequest

\* A request starts.
LEMMA StartStep ==
  ASSUME IndInv, NEW r \in AdminRequests, NEW kind \in {"create", "update", "delete"}, NEW i \in Ids,
         NEW in \in Input, NEW pc \in {"get", "send"}, NEW row \in Row \cup {NoRow},
         pc = "get" => kind # "create" /\ (i \in RuleIds => kind = "update" /\ in.value # Bad),
         pc = "send" => /\ in.value # Bad
                        /\ row # NoRow \/ (kind = "delete" /\ i \in RuleIds),
         kind = "delete" => in = Disable,
         Start(r, kind, i, in, pc, row)
  PROVE  adminReq' \in [AdminRequests -> AdminRequest] /\ RequestsOK'
<1> DEFINE q == [pc |-> pc, kind |-> kind, id |-> i, input |-> in,
                 seen |-> NoRow, row |-> row, status |-> 0]
<1>1. q \in AdminRequest
  <2>1. /\ pc \in {"idle", "get", "got", "send", "late", "done"}
        /\ kind \in {"none", "create", "update", "delete"}
        /\ 0 \in {0, 200, 201, 204, 400, 404, 500}
        /\ i \in Ids \cup {NoRow} /\ NoRow \in Row \cup {NoRow}
    OBVIOUS
  <2> QED
    BY <2>1, Zenon DEF AdminRequest
<1>2. /\ q.pc = pc /\ q.kind = kind /\ q.id = i /\ q.input = in /\ q.seen = NoRow
      /\ q.row = row
  OBVIOUS
<1>3. adminReq' = [adminReq EXCEPT ![r] = q]
  BY DEF Start
<1> HIDE DEF q
<1>4. RequestOK(q)
  BY <1>2 DEF RequestOK
<1>5. Built(q)
  BY <1>2 DEF Built, DeletesRule
<1> QED
  BY <1>1, <1>3, <1>4, <1>5, OneRequest

\* What the checks leave of an input.
LEMMA GoodInput ==
  ASSUME NEW v \in Values, NEW n \in Nat
  PROVE  /\ [value |-> v, enabled |-> TRUE] \in Input
         /\ [value |-> v, enabled |-> TRUE].value # Bad
         /\ [ver |-> n, enabled |-> TRUE, value |-> v, original |-> TRUE] \in Row
         /\ [ver |-> n, enabled |-> TRUE, value |-> v, original |-> TRUE] # NoRow
         /\ Disable.value # Bad
<1>1. v # Bad /\ Keep # Bad
  BY ValuesAssumption
<1>2. [ver |-> n, enabled |-> TRUE, value |-> v, original |-> TRUE] \in Row
  BY DEF Row
<1>3. [value |-> v, enabled |-> TRUE] \in Input
  BY DEF Input
<1> QED
  BY <1>1, <1>2, <1>3, NoRowAssumption DEF Disable

LEMMA CreateStep ==
  ASSUME IndInv, NEW r \in AdminRequests, NEW i \in Ids, Create(r, i)
  PROVE  IndInv'
<1>1. PICK v \in Values \cup {Bad} :
        IF v = Bad THEN AdminAnswer(r, "create", i, "invalid")
        ELSE Start(r, "create", i, [value |-> v, enabled |-> TRUE], "send",
                   [ver |-> clock, enabled |-> TRUE, value |-> v, original |-> TRUE])
  BY DEF Create
<1>2. clock \in Nat
  BY TimeAssumption, SMT DEF IndInv, TypeOK
<1>3. UNCHANGED <<clock, rows, logVars, histVars>>
  BY DEF Create
<1>4. CASE v = Bad
  BY <1>1, <1>3, <1>4, AnswerStep, Statuses, Frame
<1>5. CASE v # Bad
  <2> DEFINE in == [value |-> v, enabled |-> TRUE]
             row == [ver |-> clock, enabled |-> TRUE, value |-> v, original |-> TRUE]
  <2>1. in \in Input /\ in.value # Bad /\ row \in Row /\ row # NoRow
    BY <1>2, <1>5, GoodInput
  <2>2. Start(r, "create", i, in, "send", row)
    BY <1>1, <1>5
  <2> HIDE DEF in, row
  <2>3. adminReq' \in [AdminRequests -> AdminRequest] /\ RequestsOK'
    BY <2>1, <2>2, StartStep
  <2> QED
    BY <1>3, <2>3, Frame
<1> QED
  BY <1>4, <1>5

LEMMA UpdateStep ==
  ASSUME IndInv, NEW r \in AdminRequests, UpdateTenant(r) \/ UpdateRule(r)
  PROVE  IndInv'
<1>1. PICK i \in Ids, in \in Input :
        \/ i \in RuleIds /\ in.value = Bad /\ AdminAnswer(r, "update", i, "invalid")
        \/ (i \in RuleIds => in.value # Bad) /\ Start(r, "update", i, in, "get", NoRow)
  BY IdsAssumption DEF UpdateTenant, UpdateRule, Ids
<1>2. UNCHANGED <<clock, rows, logVars, histVars>>
  BY DEF UpdateTenant, UpdateRule
<1>3. CASE AdminAnswer(r, "update", i, "invalid")
  BY <1>2, <1>3, AnswerStep, Statuses, Frame
<1>4. CASE (i \in RuleIds => in.value # Bad) /\ Start(r, "update", i, in, "get", NoRow)
  BY <1>2, <1>4, StartStep, Frame
<1> QED
  BY <1>1, <1>3, <1>4

LEMMA DeleteStep ==
  ASSUME IndInv, NEW r \in AdminRequests, DeleteTenant(r) \/ DeleteRule(r)
  PROVE  IndInv'
<1>1. UNCHANGED <<clock, rows, logVars, histVars>>
  BY DEF DeleteTenant, DeleteRule
<1>2. Disable.value # Bad
  BY ValuesAssumption DEF Disable
<1>3. ASSUME NEW i \in TenantIds, Start(r, "delete", i, Disable, "get", NoRow)
      PROVE  IndInv'
  <2>1. i \in Ids /\ i \notin RuleIds
    BY IdsAssumption DEF Ids
  <2> QED
    BY <1>1, <1>3, <2>1, EmptyInput, StartStep, Frame
<1>4. ASSUME NEW i \in RuleIds, Start(r, "delete", i, Disable, "send", NoRow)
      PROVE  IndInv'
  <2>1. i \in Ids
    BY DEF Ids
  <2> QED
    BY <1>1, <1>2, <1>4, <2>1, EmptyInput, StartStep, Frame
<1> QED
  BY <1>3, <1>4 DEF DeleteTenant, DeleteRule

\* A request in the step it is at.
LEMMA RequestAt ==
  ASSUME IndInv, NEW r \in AdminRequests
  PROVE  adminReq[r] \in AdminRequest /\ RequestOK(adminReq[r]) /\ Built(adminReq[r])
  BY DEF IndInv, TypeOK, RequestsOK

\* A request stays one when a step and a field change.
LEMMA Changed ==
  ASSUME NEW q \in AdminRequest, NEW pc \in {"got", "send", "late"}, NEW x \in Row \cup {NoRow}
  PROVE  /\ [q EXCEPT !.pc = pc, !.seen = x] \in AdminRequest
         /\ [q EXCEPT !.pc = pc, !.row = x] \in AdminRequest
<1> DEFINE p == [q EXCEPT !.pc = pc]
<1>1. p \in AdminRequest
  BY SMT DEF AdminRequest
<1>2. /\ [q EXCEPT !.pc = pc, !.seen = x] = [p EXCEPT !.seen = x]
      /\ [q EXCEPT !.pc = pc, !.row = x] = [p EXCEPT !.row = x]
  OBVIOUS
<1> HIDE DEF p
<1>3. [p EXCEPT !.seen = x] \in AdminRequest
  BY <1>1, SMT DEF AdminRequest
<1>4. [p EXCEPT !.row = x] \in AdminRequest
  BY <1>1, SMT DEF AdminRequest
<1> QED
  BY <1>2, <1>3, <1>4

\* So it does when it goes on after the client is told of a failure.
LEMMA GivenUp ==
  ASSUME NEW q \in AdminRequest
  PROVE  [q EXCEPT !.pc = "late", !.status = 500] \in AdminRequest
<1> DEFINE p == [q EXCEPT !.pc = "late"]
<1>1. p \in AdminRequest
  BY SMT DEF AdminRequest
<1>2. [q EXCEPT !.pc = "late", !.status = 500] = [p EXCEPT !.status = 500]
  OBVIOUS
<1> HIDE DEF p
<1>3. [p EXCEPT !.status = 500] \in AdminRequest
  BY <1>1, SMT DEF AdminRequest
<1> QED
  BY <1>2, <1>3

LEMMA GetStep ==
  ASSUME IndInv, NEW r \in AdminRequests, Get(r)
  PROVE  IndInv'
<1> DEFINE q == adminReq[r]
<1>1. q \in AdminRequest /\ RequestOK(q) /\ q.pc = "get"
  BY RequestAt DEF Get
<1>2. /\ q.id \in Ids /\ q.kind \in {"update", "delete"} /\ (q.id \in RuleIds => q.kind = "update")
      /\ q.id \in RuleIds => q.input.value # Bad
      /\ q.kind = "delete" => q.input = Disable
  BY <1>1 DEF RequestOK
<1>3. UNCHANGED <<clock, rows, logVars, histVars>>
  BY DEF Get
<1>4. CASE rows[q.id] = NoRow
  <2>1. AdminAnswer(r, q.kind, q.id, "not_found")
    BY <1>4 DEF Get
  <2>2. StatusOf(q.kind, q.id)["not_found"] = 404
    BY <1>2, Statuses
  <2> QED
    BY <1>3, <2>1, <2>2, AnswerStep, Frame
<1>5. CASE rows[q.id] # NoRow
  <2> DEFINE p == [q EXCEPT !.pc = "got", !.seen = rows[q.id]]
  <2>1. adminReq' = [adminReq EXCEPT ![r] = p]
    BY <1>5 DEF Get, IndInv, TypeOK
  <2>2. rows[q.id] \in Row \cup {NoRow}
    BY <1>2 DEF IndInv, TypeOK
  <2>3. p \in AdminRequest
    <3>1. \A x \in Row \cup {NoRow} : [q EXCEPT !.pc = "got", !.seen = x] \in AdminRequest
      BY <1>1, Changed
    <3> QED
      BY <2>2, <3>1
  <2>4. /\ p.pc = "got" /\ p.seen # NoRow /\ p.id = q.id /\ p.kind = q.kind
        /\ p.input = q.input
    BY <1>1, <1>5 DEF AdminRequest
  <2> HIDE DEF p
  <2>5. RequestOK(p) /\ Built(p)
    BY <1>2, <2>4 DEF RequestOK, Built
  <2> QED
    BY <1>3, <2>1, <2>3, <2>5, OneRequest, Frame
<1> QED
  BY <1>4, <1>5

\* An update fills in the fields it was not given.
LEMMA NewRowOK ==
  ASSUME IndInv, NEW r \in AdminRequests, adminReq[r].pc = "got", adminReq[r].input.value # Bad
  PROVE  /\ NewRow(adminReq[r]) \in Row /\ NewRow(adminReq[r]) # NoRow
         /\ NewRow(adminReq[r]).enabled = Field(adminReq[r].input.enabled, adminReq[r].seen.enabled)
         /\ NewRow(adminReq[r]).value = Field(adminReq[r].input.value, adminReq[r].seen.value)
         /\ NewRow(adminReq[r]).original = FALSE
<1> DEFINE q == adminReq[r]
<1>1. q \in AdminRequest /\ q.seen # NoRow
  BY RequestAt DEF RequestOK
<1>2. q.seen \in Row /\ q.input \in Input
  BY <1>1 DEF AdminRequest
<1>3. /\ q.seen.enabled \in BOOLEAN /\ q.seen.value \in Values
      /\ q.input.enabled \in BOOLEAN \cup {Keep} /\ q.input.value \in Values \cup {Keep, Bad}
  BY <1>2 DEF Row, Input
<1>4. Field(q.input.enabled, q.seen.enabled) \in BOOLEAN
  BY <1>3 DEF Field
<1>5. Field(q.input.value, q.seen.value) \in Values
  BY <1>3 DEF Field
<1>6. clock \in Nat
  BY TimeAssumption, SMT DEF IndInv, TypeOK
<1>7. NewRow(q) \in Row
  BY <1>4, <1>5, <1>6 DEF NewRow, Row
<1> QED
  BY <1>7, NoRowAssumption DEF NewRow

LEMMA BuildStep ==
  ASSUME IndInv, NEW r \in AdminRequests, BuildTenant(r) \/ BuildRule(r)
  PROVE  IndInv'
<1> DEFINE q == adminReq[r]
<1>1. q \in AdminRequest /\ RequestOK(q) /\ q.pc = "got"
  BY RequestAt DEF BuildTenant, BuildRule
<1>2. /\ q.id \in Ids /\ q.kind \in {"update", "delete"}
      /\ q.id \in RuleIds => q.input.value # Bad
      /\ q.kind = "delete" => q.input = Disable
  BY <1>1 DEF RequestOK
<1>3. UNCHANGED <<clock, rows, logVars, histVars>>
  BY DEF BuildTenant, BuildRule
<1>4. CASE q.input.value = Bad
  <2>1. q.kind = "update"
    BY <1>2, <1>4, ValuesAssumption DEF Disable
  <2>2. AdminAnswer(r, q.kind, q.id, "invalid")
    BY <1>2, <1>4, IdsAssumption DEF BuildTenant, BuildRule
  <2>3. StatusOf(q.kind, q.id)["invalid"] = 400
    BY <1>2, <2>1, Statuses
  <2> QED
    BY <1>3, <2>2, <2>3, AnswerStep, Frame
<1>5. CASE q.input.value # Bad
  <2> DEFINE p == [q EXCEPT !.pc = "send", !.row = NewRow(q)]
  <2>1. adminReq' = [adminReq EXCEPT ![r] = p]
    BY <1>5 DEF BuildTenant, BuildRule, IndInv, TypeOK
  <2>2. /\ NewRow(q) \in Row /\ NewRow(q) # NoRow
        /\ NewRow(q).enabled = Field(q.input.enabled, q.seen.enabled)
        /\ NewRow(q).value = Field(q.input.value, q.seen.value)
        /\ NewRow(q).original = FALSE
    BY <1>1, <1>5, NewRowOK
  <2>3. p \in AdminRequest
    BY <1>1, <2>2, Changed
  <2>4. /\ p.pc = "send" /\ p.seen = q.seen /\ p.id = q.id /\ p.kind = q.kind
        /\ p.input = q.input /\ p.row = NewRow(q)
    BY <1>1 DEF AdminRequest
  <2> HIDE DEF p
  <2>5. RequestOK(p) /\ Built(p)
    BY <1>2, <1>5, <2>2, <2>4 DEF RequestOK, Built
  <2> QED
    BY <1>3, <2>1, <2>3, <2>5, OneRequest, Frame
<1> QED
  BY <1>4, <1>5

LEMMA FailStep ==
  ASSUME IndInv, NEW r \in AdminRequests, Fail(r)
  PROVE  IndInv'
<1> DEFINE q == adminReq[r]
<1>1. q \in AdminRequest /\ RequestOK(q) /\ Built(q) /\ q.pc \in {"get", "send"}
  BY RequestAt DEF Fail
<1>2. q.id \in Ids /\ q.kind \in {"create", "update", "delete"}
  BY <1>1 DEF RequestOK, AdminRequest
<1>3. UNCHANGED <<clock, rows, logVars, histVars>>
  BY DEF Fail
<1>4. CASE AdminAnswer(r, q.kind, q.id, "failed")
  <2>1. StatusOf(q.kind, q.id)["failed"] = 500
    BY <1>2, Statuses
  <2> QED
    BY <1>3, <1>4, <2>1, AnswerStep, Frame
<1>5. CASE q.pc = "send" /\ adminReq' = [adminReq EXCEPT ![r] = [q EXCEPT !.pc = "late", !.status = 500]]
  <2> DEFINE p == [q EXCEPT !.pc = "late", !.status = 500]
  <2>1. adminReq' = [adminReq EXCEPT ![r] = p]
    BY <1>5
  <2>2. p \in AdminRequest
    BY <1>1, GivenUp
  <2>3. /\ p.pc = "late" /\ p.seen = q.seen /\ p.id = q.id /\ p.kind = q.kind
        /\ p.input = q.input /\ p.row = q.row
    BY <1>1 DEF AdminRequest
  <2> HIDE DEF p
  <2>4. RequestOK(p) /\ Built(p)
    BY <1>1, <1>5, <2>3 DEF RequestOK, Built, DeletesRule
  <2> QED
    BY <1>3, <2>1, <2>2, <2>4, OneRequest, Frame
<1> QED
  BY <1>4, <1>5 DEF Fail

\* The row that ClickHouse inserts for a delete of a rule that is there, for
\* another change of a rule, and for one of a tenant.
LEMMA InsertedIs ==
  ASSUME IndInv, NEW r \in AdminRequests, adminReq[r].pc \in {"send", "late"}, Inserted(adminReq[r]) # NoRow
  PROVE  /\ Inserted(adminReq[r]) \in Row
         /\ adminReq[r].id \in TenantIds => Inserted(adminReq[r]) = adminReq[r].row /\ ~DeletesRule(adminReq[r])
         /\ adminReq[r].id \in RuleIds => Inserted(adminReq[r]).ver = clock
         /\ DeletesRule(adminReq[r]) =>
              /\ rows[adminReq[r].id] \in Row
              /\ FieldsOf(Inserted(adminReq[r])) = [enabled |-> FALSE, original |-> FALSE,
                                               value |-> rows[adminReq[r].id].value]
         /\ ~DeletesRule(adminReq[r]) =>
              adminReq[r].row \in Row /\ FieldsOf(Inserted(adminReq[r])) = FieldsOf(adminReq[r].row)
<1> DEFINE q == adminReq[r]
           i == q.id
           new == Inserted(q)
<1>1. q \in AdminRequest /\ RequestOK(q) /\ Built(q)
  BY RequestAt
<1>2. i \in Ids /\ q.row \in Row \cup {NoRow}
  BY <1>1 DEF RequestOK, AdminRequest
<1>3. rows[i] \in Row \cup {NoRow}
  BY <1>2 DEF IndInv, TypeOK
<1>4. clock \in Nat
  BY TimeAssumption, SMT DEF IndInv, TypeOK
<1>5. CASE i \in TenantIds
  <2>1. i \notin RuleIds
    BY <1>5, IdsAssumption
  <2>2. ~DeletesRule(q) /\ ~DeletesNothing(q)
    BY <2>1 DEF DeletesRule, DeletesNothing
  <2>3. new = q.row
    BY <1>5, <2>2 DEF Inserted
  <2>4. q.row \in Row
    BY <1>2, <2>3
  <2> HIDE DEF new
  <2> QED
    BY <2>1, <2>2, <2>3, <2>4 DEF new
<1>6. CASE i \notin TenantIds /\ DeletesRule(q)
  <2>1. rows[i] # NoRow
    BY <1>6 DEF Inserted, DeletesNothing
  <2>2. rows[i] \in Row
    BY <1>3, <2>1
  <2>3. new = [rows[i] EXCEPT !.ver = clock, !.enabled = FALSE, !.original = FALSE]
    BY <1>6, <2>1 DEF Inserted, DeletesNothing
  <2>4. /\ new.ver = clock /\ new.enabled = FALSE /\ new.original = FALSE
        /\ new.value = rows[i].value
    BY <2>2, <2>3 DEF Row
  <2>5. new \in Row
    <3> DEFINE one == [rows[i] EXCEPT !.ver = clock]
               two == [one EXCEPT !.enabled = FALSE]
    <3>1. one \in Row
      BY <1>4, <2>2 DEF Row
    <3>2. new = [two EXCEPT !.original = FALSE]
      BY <2>3
    <3> HIDE DEF one
    <3>3. two \in Row
      BY <3>1 DEF Row
    <3> HIDE DEF two
    <3> QED
      BY <3>2, <3>3 DEF Row
  <2> HIDE DEF new
  <2>6. FieldsOf(new) = [enabled |-> FALSE, original |-> FALSE, value |-> rows[i].value]
    BY <2>4, <2>5, NoRowAssumption DEF FieldsOf
  <2> QED
    BY <1>6, <2>2, <2>4, <2>5, <2>6 DEF new
<1>7. CASE i \notin TenantIds /\ ~DeletesRule(q)
  <2>1. q.row \in Row /\ new = [q.row EXCEPT !.ver = clock]
    BY <1>1, <1>2, <1>7 DEF Inserted, DeletesNothing, Built
  <2>2. /\ new.ver = clock /\ new.enabled = q.row.enabled /\ new.value = q.row.value
        /\ new.original = q.row.original /\ new \in Row
    BY <1>4, <2>1 DEF Row
  <2> HIDE DEF new
  <2>3. FieldsOf(new) = FieldsOf(q.row)
    BY <2>1, <2>2, NoRowAssumption DEF FieldsOf
  <2> QED
    BY <1>7, <2>1, <2>2, <2>3 DEF new
<1> QED
  BY <1>5, <1>6, <1>7

\* What it inserts is well-formed, and if it is up to date what was asked for.
LEMMA InsertedOK ==
  ASSUME IndInv, NEW r \in AdminRequests, adminReq[r].pc \in {"send", "late"}, Wins(adminReq[r])
  PROVE  /\ adminReq[r].id \in Ids
         /\ Inserted(adminReq[r]) \in Row /\ AskedAfter(adminReq[r]) \in Fields
         /\ UpToDate(adminReq[r]) /\ adminReq[r].id \notin raced =>
              AskedAfter(adminReq[r]) = FieldsOf(Inserted(adminReq[r]))
<1> DEFINE q == adminReq[r]
           i == q.id
           new == Inserted(q)
<1>1. q \in AdminRequest /\ RequestOK(q) /\ Built(q)
  BY RequestAt
<1>2. /\ i \in Ids /\ q.input \in Input /\ q.input.value # Bad
      /\ q.kind = "delete" => q.input = Disable
  BY <1>1 DEF RequestOK, AdminRequest
<1>3. rows[i] \in Row \cup {NoRow} /\ asked[i] \in Fields \cup {NoRow}
  BY <1>2 DEF IndInv, TypeOK
<1>4. new # NoRow
  BY DEF Wins
<1>5. /\ new \in Row
      /\ DeletesRule(q) => /\ rows[i] \in Row
                           /\ FieldsOf(new) = [enabled |-> FALSE, original |-> FALSE,
                                               value |-> rows[i].value]
      /\ ~DeletesRule(q) => q.row \in Row /\ FieldsOf(new) = FieldsOf(q.row)
  BY <1>4, InsertedIs
<1> HIDE DEF new
<1>6. AskedAfter(q) \in Fields
  <2>1. CASE asked[i] = NoRow
    <3>1. FieldsOf(new) \in Fields
      BY <1>4, <1>5, FieldsOK
    <3> QED
      BY <2>1, <3>1 DEF AskedAfter, new
  <2>2. CASE asked[i] # NoRow
    <3>1. asked[i].enabled \in BOOLEAN /\ asked[i].value \in Values
      BY <1>3, <2>2 DEF Fields
    <3>2. q.input.enabled \in BOOLEAN \cup {Keep} /\ q.input.value \in Values \cup {Keep, Bad}
      BY <1>2 DEF Input
    <3>3. Field(q.input.enabled, asked[i].enabled) \in BOOLEAN
      BY <3>1, <3>2 DEF Field
    <3>4. Field(q.input.value, asked[i].value) \in Values
      BY <1>2, <3>1, <3>2 DEF Field
    <3> QED
      BY <2>2, <3>3, <3>4 DEF AskedAfter, Fields
  <2> QED
    BY <2>1, <2>2
<1>7. ASSUME UpToDate(q), i \notin raced PROVE AskedAfter(q) = FieldsOf(new)
  <2>1. asked[i] = FieldsOf(rows[i])
    BY <1>2, <1>7 DEF IndInv, AsAskedUnlessRaced
  <2>2. CASE asked[i] = NoRow
    BY <2>2 DEF AskedAfter, new
  <2>3. CASE asked[i] # NoRow
    <3>1. rows[i] # NoRow
      BY <2>1, <2>3 DEF FieldsOf
    <3>2. /\ asked[i].enabled = rows[i].enabled /\ asked[i].value = rows[i].value
          /\ AskedAfter(q) = [enabled |-> Field(q.input.enabled, rows[i].enabled),
                              value |-> Field(q.input.value, rows[i].value),
                              original |-> FALSE]
      BY <2>1, <2>3, <3>1 DEF AskedAfter, FieldsOf
    <3>3. CASE ~DeletesRule(q)
      <4>1. q.seen = rows[i]
        BY <1>7, <3>3 DEF UpToDate
      <4>2. /\ q.row.enabled = Field(q.input.enabled, rows[i].enabled)
            /\ q.row.value = Field(q.input.value, rows[i].value)
            /\ q.row.original = FALSE /\ q.row # NoRow
        BY <1>1, <3>1, <3>3, <4>1 DEF Built
      <4> QED
        BY <1>5, <3>2, <3>3, <4>2 DEF FieldsOf
    <3>4. CASE DeletesRule(q)
      <4>1. q.input.enabled = FALSE /\ q.input.value = Keep
        BY <1>2, <3>4 DEF DeletesRule, Disable
      <4>2. FALSE # Keep
        BY KeepAssumption
      <4>3. /\ Field(q.input.enabled, rows[i].enabled) = FALSE
            /\ Field(q.input.value, rows[i].value) = rows[i].value
        BY <4>1, <4>2 DEF Field
      <4> QED
        BY <1>5, <3>2, <3>4, <4>3
    <3> QED
      BY <3>3, <3>4
  <2> QED
    BY <2>2, <2>3
<1> QED
  BY <1>2, <1>5, <1>6, <1>7 DEF new

\* ClickHouse carries out a request and its client is answered, now or before.
LEMMA ExecuteStep ==
  ASSUME IndInv, NEW r \in AdminRequests, adminReq[r].pc \in {"send", "late"}, Execute(r),
         adminReq' \in [AdminRequests -> AdminRequest], RequestsOK', ignored' \in BOOLEAN,
         UNCHANGED <<clock, logVars>>
  PROVE  IndInv'
<1> DEFINE q == adminReq[r]
<1>1. applied' \subseteq AdminRequests
  BY DEF Execute, IndInv, TypeOK
<1>2. CASE Wins(q)
  <2>1. /\ q.id \in Ids /\ Inserted(q) \in Row /\ AskedAfter(q) \in Fields
        /\ UpToDate(q) /\ q.id \notin raced => AskedAfter(q) = FieldsOf(Inserted(q))
    BY <1>2, InsertedOK
  <2>2. /\ rows' = [rows EXCEPT ![q.id] = Inserted(q)]
        /\ asked' = [asked EXCEPT ![q.id] = AskedAfter(q)]
        /\ raced' = IF UpToDate(q) THEN raced ELSE raced \cup {q.id}
        /\ changed' = (changed \/ q.id \in RuleIds)
    BY <1>2 DEF Execute
  <2>3. rows' \in [Ids -> Row \cup {NoRow}] /\ asked' \in [Ids -> Fields \cup {NoRow}]
    BY <2>1, <2>2 DEF IndInv, TypeOK
  <2>4. raced' \subseteq Ids /\ raced \subseteq raced' /\ changed' \in BOOLEAN
    BY <2>1, <2>2 DEF IndInv, TypeOK
  <2>5. TypeOK'
    BY <1>1, <2>3, <2>4 DEF IndInv, TypeOK, logVars
  <2>6. ASSUME NEW i \in Ids \ raced' PROVE FieldsOf(rows'[i]) = asked'[i]
    <3>1. CASE i = q.id
      <4>1. UpToDate(q) /\ q.id \notin raced
        BY <2>2, <2>4, <3>1
      <4> QED
        BY <2>1, <2>2, <3>1, <4>1 DEF IndInv, TypeOK
    <3>2. CASE i # q.id
      BY <2>2, <2>4, <3>2 DEF IndInv, TypeOK, AsAskedUnlessRaced
    <3> QED
      BY <3>1, <3>2
  <2> QED
    BY <2>5, <2>6 DEF IndInv, AsAskedUnlessRaced, FieldsOf
<1>3. CASE ~Wins(q)
  <2>1. UNCHANGED <<rows, asked, raced, changed>>
    BY <1>3 DEF Execute
  <2> QED
    BY <1>1, <2>1 DEF IndInv, TypeOK, AsAskedUnlessRaced, logVars
<1> QED
  BY <1>2, <1>3

LEMMA ApplyStep ==
  ASSUME IndInv, NEW r \in AdminRequests, Apply(r) \/ ApplyLate(r)
  PROVE  IndInv'
<1> DEFINE q == adminReq[r]
<1>1. q.pc \in {"send", "late"} /\ Execute(r) /\ UNCHANGED <<clock, logVars>>
  BY DEF Apply, ApplyLate
<1>2. q.id \in Ids /\ q.kind \in {"create", "update", "delete"}
  BY <1>1, RequestAt DEF RequestOK, AdminRequest
<1>3. StatusOf(q.kind, q.id)["ok"] \in {200, 201, 204} /\ StatusOf(q.kind, q.id)["failed"] = 500
  BY <1>2, Statuses
<1>4. AdminAnswer(r, q.kind, q.id, "ok") \/ AdminAnswer(r, q.kind, q.id, "failed")
  BY DEF Apply, ApplyLate
<1>5. adminReq' \in [AdminRequests -> AdminRequest] /\ RequestsOK'
  BY <1>3, <1>4, AnswerStep
<1>6. ignored' \in BOOLEAN
  BY DEF Apply, ApplyLate, IndInv, TypeOK
<1> QED
  BY <1>1, <1>5, <1>6, ExecuteStep

\* The rules that the logger reads.
LEMMA EnabledRulesOK ==
  ASSUME IndInv
  PROVE  EnabledRules \subseteq RuleIds \X Values
<1> SUFFICES ASSUME NEW i \in RuleIds, rows[i] # NoRow
             PROVE  rows[i].value \in Values
  BY DEF EnabledRules
<1>1. rows[i] \in Row
  BY DEF IndInv, TypeOK, Ids
<1> QED
  BY <1>1 DEF Row

LEMMA NextInv == IndInv /\ [ConfigNext]_configVars => IndInv'
<1> SUFFICES ASSUME IndInv, [ConfigNext]_configVars PROVE IndInv'
  OBVIOUS
<1>1. ASSUME NEW r \in AdminRequests, RequestStep(r) PROVE IndInv'
  <2>1. TenantIds \subseteq Ids /\ RuleIds \subseteq Ids
    BY DEF Ids
  <2>2. CASE CreateTenant(r) \/ CreateRule(r)
    BY <2>1, <2>2, CreateStep DEF CreateTenant, CreateRule
  <2>3. CASE GetTenant(r) \/ GetRule(r)
    BY <2>3, GetStep DEF GetTenant, GetRule
  <2> QED
    BY <1>1, <2>2, <2>3, UpdateStep, DeleteStep, BuildStep, FailStep, ApplyStep DEF RequestStep
<1>2. CASE Tick
  <2>1. clock' \in 0..MaxTime
    BY <1>2, TimeAssumption, SMT DEF Tick, IndInv, TypeOK
  <2> QED
    BY <1>2, <2>1 DEF Tick, IndInv, TypeOK, RequestsOK, AsAskedUnlessRaced, logVars, histVars
<1>3. CASE Hup
  <2>1. hups' \in 0..MaxHups
    BY <1>3, TimeAssumption, SMT DEF Hup, IndInv, TypeOK
  <2> QED
    BY <1>3, <2>1 DEF Hup, IndInv, TypeOK, RequestsOK, AsAskedUnlessRaced
<1>4. CASE Reload
  BY <1>4 DEF Reload, IndInv, TypeOK, RequestsOK, AsAskedUnlessRaced, histVars
<1>5. CASE ListRules
  BY <1>5, EnabledRulesOK DEF ListRules, IndInv, TypeOK, RequestsOK, AsAskedUnlessRaced, histVars
<1>6. CASE Load
  BY <1>6 DEF Load, IndInv, TypeOK, RequestsOK, AsAskedUnlessRaced, histVars
<1>7. CASE UNCHANGED configVars
  BY <1>7 DEF configVars, IndInv, TypeOK, RequestsOK, AsAskedUnlessRaced, logVars, histVars
<1> QED
  BY <1>1, <1>2, <1>3, <1>4, <1>5, <1>6, <1>7 DEF ConfigNext

(* The tables and the requests are well-formed; in particular no request    *)
(* inserts a value that validation refuses.                                 *)
THEOREM TypeCorrect == ConfigSpec => []TypeOK
<1>1. IndInv => TypeOK
  BY DEF IndInv
<1> QED
  BY <1>1, InitInv, NextInv, PTL DEF ConfigSpec

(* However many requests change the tenants and rules at once and whatever  *)
(* fails or is late: a row that no request has written over unread is what  *)
(* the requests that took effect have asked for, field by field.            *)
THEOREM OnlyRacesUndo == ConfigSpec => []AsAskedUnlessRaced
<1>1. IndInv => AsAskedUnlessRaced
  BY DEF IndInv
<1> QED
  BY <1>1, InitInv, NextInv, PTL DEF ConfigSpec

-----------------------------------------------------------------------------
(* The alert logger's copy. *)

\* What the logger has read since the last signal is what there is.
CopyInd ==
  /\ CopyCurrent
  /\ hups > 0 /\ logger = "loaded" /\ ~signal /\ ~changed => loaded = EnabledRules

\* A request changes the enabled rules only if it marks them as changed.
LEMMA RulesKept ==
  ASSUME IndInv, NEW r \in AdminRequests, RequestStep(r)
  PROVE  /\ UNCHANGED logVars
         /\ ~changed' => ~changed /\ EnabledRules' = EnabledRules
<1> DEFINE q == adminReq[r]
<1>1. UNCHANGED logVars
  BY DEF RequestStep, CreateTenant, CreateRule, Create, UpdateTenant, UpdateRule, DeleteTenant,
         DeleteRule, GetTenant, GetRule, Get, BuildTenant, BuildRule, Apply, Fail, ApplyLate
<1>2. UNCHANGED <<rows, changed>> \/ (q.pc \in {"send", "late"} /\ Execute(r))
  BY DEF RequestStep, CreateTenant, CreateRule, Create, UpdateTenant, UpdateRule, DeleteTenant,
         DeleteRule, GetTenant, GetRule, Get, BuildTenant, BuildRule, Apply, Fail, ApplyLate, histVars
<1>3. CASE UNCHANGED <<rows, changed>>
  BY <1>1, <1>3 DEF EnabledRules
<1>4. CASE q.pc \in {"send", "late"} /\ Execute(r) /\ Wins(q)
  <2>1. rows' = [rows EXCEPT ![q.id] = Inserted(q)] /\ changed' = (changed \/ q.id \in RuleIds)
    BY <1>4 DEF Execute
  <2>2. q.id \notin RuleIds => \A j \in RuleIds : rows'[j] = rows[j]
    BY <2>1 DEF IndInv, TypeOK, Ids
  <2>3. q.id \notin RuleIds => EnabledRules' = EnabledRules
    BY <2>2 DEF EnabledRules
  <2> QED
    BY <1>1, <2>1, <2>3 DEF IndInv, TypeOK
<1>5. CASE Execute(r) /\ ~Wins(q)
  BY <1>1, <1>5 DEF Execute, EnabledRules
<1> QED
  BY <1>2, <1>3, <1>4, <1>5

(* After a SIGHUP the alert logger has the enabled rules, whatever the API  *)
(* does meanwhile: a signal that comes during a load is not lost.           *)
THEOREM LoggerCatchesUp == ConfigSpec => []CopyCurrent
<1>1. ConfigInit => CopyInd
  <2>1. ~(0 > 0)
    BY SMT
  <2> QED
    BY <2>1 DEF ConfigInit, CopyInd, CopyCurrent
<1>2. IndInv /\ CopyInd /\ [ConfigNext]_configVars => CopyInd'
  <2> SUFFICES ASSUME IndInv, CopyInd, [ConfigNext]_configVars PROVE CopyInd'
    OBVIOUS
  <2>1. ASSUME NEW r \in AdminRequests, RequestStep(r) PROVE CopyInd'
    BY <2>1, RulesKept DEF CopyInd, CopyCurrent, logVars
  <2>2. CASE Tick \/ UNCHANGED configVars
    BY <2>2 DEF Tick, configVars, logVars, histVars, CopyInd, CopyCurrent, EnabledRules
  <2>3. CASE Hup
    BY <2>3 DEF Hup, CopyInd, CopyCurrent
  <2>4. CASE Reload
    BY <2>4 DEF Reload, CopyInd, CopyCurrent
  <2>5. CASE ListRules
    BY <2>5 DEF ListRules, CopyInd, CopyCurrent, EnabledRules
  <2>6. CASE Load
    <3>1. /\ logger' = "idle" /\ UNCHANGED <<rows, signal, hups, changed>>
          /\ (logger = "loaded" /\ cached' = loaded) \/ failed' = TRUE
      BY <2>6 DEF Load, histVars
    <3>2. EnabledRules' = EnabledRules
      BY <3>1 DEF EnabledRules
    <3> QED
      BY <3>1, <3>2 DEF CopyInd, CopyCurrent
  <2> QED
    BY <2>1, <2>2, <2>3, <2>4, <2>5, <2>6 DEF ConfigNext
<1>3. CopyInd => CopyCurrent
  BY DEF CopyInd
<1> QED
  BY <1>1, <1>2, <1>3, InitInv, NextInv, PTL DEF ConfigSpec

-----------------------------------------------------------------------------
(* The answers. *)

\* Stamps come from a clock that does not go back: a row that a request
\* inserts is not older than the one it has read.
Stamped(q) ==
  /\ q.seen # NoRow => q.seen.ver <= clock
  /\ q.row # NoRow => q.row.ver <= clock
  /\ q.pc \in {"send", "late"} /\ ~DeletesRule(q) /\ q.seen # NoRow => q.row.ver >= q.seen.ver

\* AdminRequests are carried out before they are answered with success.
Honest(q, done) ==
  /\ q.pc # "done" => q.status \in {0, 500} /\ ~done
  /\ q.status \in {200, 201, 204} => done
  /\ q.status \in {400, 404} => ~done

AnswerInd ==
  /\ ~ignored
  /\ \A i \in Ids : rows[i] # NoRow => rows[i].ver <= clock
  /\ \A r \in AdminRequests : Stamped(adminReq[r]) /\ Honest(adminReq[r], r \in applied)

LEMMA AnsweredIs ==
  ASSUME NEW s
  PROVE  /\ Answered(s).pc = "done" /\ Answered(s).status = s
         /\ Answered(s).seen = NoRow /\ Answered(s).row = NoRow
  BY SMT DEF Answered, NoRequest

\* A request goes on, and nothing is carried out.
LEMMA GoesOn ==
  ASSUME IndInv, AnswerInd, NEW r \in AdminRequests, NEW q, adminReq' = [adminReq EXCEPT ![r] = q],
         Stamped(q), Honest(q, r \in applied), UNCHANGED <<clock, rows, histVars>>
  PROVE  AnswerInd'
<1>1. \A p \in AdminRequests : adminReq'[p] = IF p = r THEN q ELSE adminReq[p]
  BY DEF IndInv, TypeOK
<1>2. \A p \in AdminRequests : Stamped(adminReq'[p]) /\ Honest(adminReq'[p], p \in applied)
  BY <1>1 DEF AnswerInd
<1> QED
  BY <1>2 DEF AnswerInd, histVars, Stamped, Honest, DeletesRule

\* A request is refused or fails before anything is carried out.
LEMMA Refused ==
  ASSUME IndInv, AnswerInd, NEW r \in AdminRequests, adminReq[r].pc # "done", NEW kind, NEW i, NEW outcome,
         StatusOf(kind, i)[outcome] \in {400, 404, 500}, AdminAnswer(r, kind, i, outcome),
         UNCHANGED <<clock, rows, histVars>>
  PROVE  AnswerInd'
<1> DEFINE s == StatusOf(kind, i)[outcome]
           q == Answered(s)
<1>1. adminReq' = [adminReq EXCEPT ![r] = q]
  BY DEF AdminAnswer, Answered
<1>2. q.pc = "done" /\ q.status = s /\ q.seen = NoRow /\ q.row = NoRow
  BY AnsweredIs
<1>3. r \notin applied
  BY DEF AnswerInd, Honest
<1>4. s \in {400, 404, 500}
  OBVIOUS
<1> HIDE DEF q, s
<1>5. s \notin {200, 201, 204}
  BY <1>4, SMT
<1>6. Stamped(q)
  BY <1>2 DEF Stamped
<1>7. Honest(q, r \in applied)
  BY <1>2, <1>3, <1>5 DEF Honest
<1>8. UNCHANGED <<clock, rows, histVars>>
  OBVIOUS
<1> QED
  BY ONLY IndInv, AnswerInd, r \in AdminRequests, <1>1, <1>6, <1>7, <1>8, GoesOn

\* A request starts.
LEMMA StartHonest ==
  ASSUME IndInv, AnswerInd, NEW r \in AdminRequests, adminReq[r].pc = "idle", NEW kind, NEW i, NEW in,
         NEW pc \in {"get", "send"}, NEW row, row # NoRow => row.ver <= clock,
         Start(r, kind, i, in, pc, row), UNCHANGED <<clock, rows, histVars>>
  PROVE  AnswerInd'
<1> DEFINE q == [pc |-> pc, kind |-> kind, id |-> i, input |-> in,
                 seen |-> NoRow, row |-> row, status |-> 0]
<1>1. adminReq' = [adminReq EXCEPT ![r] = q]
  BY DEF Start
<1>2. q.pc = pc /\ q.status = 0 /\ q.seen = NoRow /\ q.row = row
  OBVIOUS
<1>3. r \notin applied
  BY DEF AnswerInd, Honest
<1> HIDE DEF q
<1>4. Stamped(q)
  BY <1>2 DEF Stamped
<1>5. Honest(q, r \in applied)
  BY <1>2, <1>3 DEF Honest
<1> QED
  BY <1>1, <1>4, <1>5, GoesOn

\* A row that is not there, or one of a stamp that has been.
LEMMA VersionsAre ==
  ASSUME IndInv, NEW r \in AdminRequests
  PROVE  /\ clock \in Nat
         /\ adminReq[r].seen # NoRow => adminReq[r].seen.ver \in Nat
         /\ adminReq[r].row # NoRow => adminReq[r].row.ver \in Nat
         /\ \A i \in Ids : rows[i] # NoRow => rows[i].ver \in Nat
<1>1. clock \in Nat
  BY TimeAssumption, SMT DEF IndInv, TypeOK
<1>2. adminReq[r] \in AdminRequest
  BY RequestAt
<1>3. adminReq[r].seen \in Row \cup {NoRow} /\ adminReq[r].row \in Row \cup {NoRow}
  BY <1>2 DEF AdminRequest
<1>4. \A i \in Ids : rows[i] \in Row \cup {NoRow}
  BY DEF IndInv, TypeOK
<1>5. \A x \in Row : x.ver \in Nat
  BY DEF Row
<1> QED
  BY <1>1, <1>3, <1>4, <1>5

\* AdminRequests up to the insert.
LEMMA BeforeInsert ==
  ASSUME IndInv, AnswerInd, NEW r \in AdminRequests,
         \/ CreateTenant(r) \/ CreateRule(r) \/ UpdateTenant(r) \/ UpdateRule(r)
         \/ DeleteTenant(r) \/ DeleteRule(r)
  PROVE  AnswerInd'
<1>1. TenantIds \subseteq Ids /\ RuleIds \subseteq Ids
  BY DEF Ids
<1>2. adminReq[r].pc = "idle" /\ UNCHANGED <<clock, rows, histVars>>
  BY DEF CreateTenant, CreateRule, Create, UpdateTenant, UpdateRule, DeleteTenant, DeleteRule
<1>3. ASSUME NEW i \in Ids, Create(r, i) PROVE AnswerInd'
  <2>1. PICK v \in Values \cup {Bad} :
          IF v = Bad THEN AdminAnswer(r, "create", i, "invalid")
          ELSE Start(r, "create", i, [value |-> v, enabled |-> TRUE], "send",
                     [ver |-> clock, enabled |-> TRUE, value |-> v, original |-> TRUE])
    BY <1>3 DEF Create
  <2>2. CASE v = Bad
    BY <1>2, <2>1, <2>2, Statuses, Refused
  <2>3. CASE v # Bad
    <3> DEFINE row == [ver |-> clock, enabled |-> TRUE, value |-> v, original |-> TRUE]
               in == [value |-> v, enabled |-> TRUE]
    <3>1. row.ver <= clock
      BY VersionsAre, SMT
    <3>2. Start(r, "create", i, in, "send", row)
      BY <2>1, <2>3
    <3> HIDE DEF row, in
    <3> QED
      BY <1>2, <3>1, <3>2, StartHonest
  <2> QED
    BY <2>2, <2>3
<1>4. CASE UpdateTenant(r) \/ UpdateRule(r)
  <2>1. PICK i \in Ids, in \in Input :
          \/ AdminAnswer(r, "update", i, "invalid")
          \/ Start(r, "update", i, in, "get", NoRow)
    BY <1>1, <1>4 DEF UpdateTenant, UpdateRule
  <2>2. CASE AdminAnswer(r, "update", i, "invalid")
    BY <1>2, <2>2, Statuses, Refused
  <2>3. CASE Start(r, "update", i, in, "get", NoRow)
    BY <1>2, <2>3, StartHonest
  <2> QED
    BY <2>1, <2>2, <2>3
<1>5. CASE DeleteTenant(r) \/ DeleteRule(r)
  <2>1. PICK i \in Ids : \/ Start(r, "delete", i, Disable, "get", NoRow)
                         \/ Start(r, "delete", i, Disable, "send", NoRow)
    BY <1>1, <1>5 DEF DeleteTenant, DeleteRule
  <2> QED
    BY <1>2, <2>1, StartHonest
<1> QED
  BY <1>1, <1>3, <1>4, <1>5 DEF CreateTenant, CreateRule

LEMMA GetHonest ==
  ASSUME IndInv, AnswerInd, NEW r \in AdminRequests, Get(r)
  PROVE  AnswerInd'
<1> DEFINE q == adminReq[r]
<1>1. q \in AdminRequest /\ q.pc = "get" /\ q.id \in Ids /\ q.kind \in {"update", "delete"}
        /\ (q.id \in RuleIds => q.kind = "update")
  BY RequestAt DEF Get, RequestOK
<1>2. UNCHANGED <<clock, rows, histVars>>
  BY DEF Get
<1>3. CASE rows[q.id] = NoRow
  <2>1. AdminAnswer(r, q.kind, q.id, "not_found") /\ StatusOf(q.kind, q.id)["not_found"] = 404
    BY <1>1, <1>3, Statuses DEF Get
  <2> QED
    BY <1>1, <1>2, <2>1, Refused
<1>4. CASE rows[q.id] # NoRow
  <2> DEFINE p == [q EXCEPT !.pc = "got", !.seen = rows[q.id]]
  <2>1. adminReq' = [adminReq EXCEPT ![r] = p]
    BY <1>4 DEF Get, IndInv, TypeOK
  <2>2. p.pc = "got" /\ p.seen = rows[q.id] /\ p.row = q.row /\ p.status = q.status
    BY <1>1 DEF AdminRequest
  <2>3. rows[q.id].ver <= clock /\ Stamped(q) /\ Honest(q, r \in applied)
    BY <1>1, <1>4 DEF AnswerInd
  <2> HIDE DEF p
  <2>4. Stamped(p) /\ Honest(p, r \in applied)
    BY <1>1, <2>2, <2>3 DEF Stamped, Honest
  <2> QED
    BY ONLY IndInv, AnswerInd, r \in AdminRequests, <1>2, <2>1, <2>4, GoesOn
<1> QED
  BY <1>3, <1>4

LEMMA BuildHonest ==
  ASSUME IndInv, AnswerInd, NEW r \in AdminRequests, BuildTenant(r) \/ BuildRule(r)
  PROVE  AnswerInd'
<1> DEFINE q == adminReq[r]
<1>1. q \in AdminRequest /\ RequestOK(q) /\ q.pc = "got"
  BY RequestAt DEF BuildTenant, BuildRule
<1>2. /\ q.id \in Ids /\ q.kind \in {"update", "delete"} /\ q.seen # NoRow
      /\ q.id \in RuleIds => q.input.value # Bad
      /\ q.kind = "delete" => q.input = Disable
  BY <1>1 DEF RequestOK
<1>3. UNCHANGED <<clock, rows, histVars>>
  BY DEF BuildTenant, BuildRule
<1>4. CASE q.input.value = Bad
  <2>1. q.kind = "update"
    BY <1>2, <1>4, ValuesAssumption DEF Disable
  <2>2. AdminAnswer(r, q.kind, q.id, "invalid") /\ StatusOf(q.kind, q.id)["invalid"] = 400
    BY <1>2, <1>4, <2>1, IdsAssumption, Statuses DEF BuildTenant, BuildRule
  <2> QED
    BY <1>1, <1>3, <2>2, Refused
<1>5. CASE q.input.value # Bad
  <2> DEFINE p == [q EXCEPT !.pc = "send", !.row = NewRow(q)]
  <2>1. adminReq' = [adminReq EXCEPT ![r] = p]
    BY <1>5 DEF BuildTenant, BuildRule, IndInv, TypeOK
  <2>2. p.pc = "send" /\ p.seen = q.seen /\ p.row = NewRow(q) /\ p.status = q.status
    BY <1>1 DEF AdminRequest
  <2>3. NewRow(q).ver = clock /\ clock <= clock
    BY VersionsAre, SMT DEF NewRow
  <2>4. Stamped(q) /\ Honest(q, r \in applied) /\ clock \in Nat /\ q.seen.ver \in Nat
    BY <1>2, VersionsAre DEF AnswerInd
  <2>5. q.seen.ver <= clock /\ clock >= q.seen.ver
    BY <1>2, <2>4, SMT DEF Stamped
  <2> HIDE DEF p
  <2>6. Stamped(p)
    BY <2>2, <2>3, <2>5 DEF Stamped
  <2>7. Honest(p, r \in applied)
    BY <1>1, <2>2, <2>4 DEF Honest
  <2> QED
    BY ONLY IndInv, AnswerInd, r \in AdminRequests, <1>3, <2>1, <2>6, <2>7, GoesOn
<1> QED
  BY <1>4, <1>5

LEMMA FailHonest ==
  ASSUME IndInv, AnswerInd, NEW r \in AdminRequests, Fail(r)
  PROVE  AnswerInd'
<1> DEFINE q == adminReq[r]
<1>1. q \in AdminRequest /\ RequestOK(q) /\ q.pc \in {"get", "send"}
  BY RequestAt DEF Fail
<1>2. q.id \in Ids /\ q.kind \in {"create", "update", "delete"}
  BY <1>1 DEF RequestOK, AdminRequest
<1>3. UNCHANGED <<clock, rows, histVars>>
  BY DEF Fail
<1>4. CASE AdminAnswer(r, q.kind, q.id, "failed")
  <2>1. StatusOf(q.kind, q.id)["failed"] = 500
    BY <1>2, Statuses
  <2> QED
    BY <1>1, <1>3, <1>4, <2>1, Refused
<1>5. CASE q.pc = "send" /\ adminReq' = [adminReq EXCEPT ![r] = [q EXCEPT !.pc = "late", !.status = 500]]
  <2> DEFINE p == [q EXCEPT !.pc = "late", !.status = 500]
  <2>1. adminReq' = [adminReq EXCEPT ![r] = p]
    BY <1>5
  <2>2. /\ p.pc = "late" /\ p.seen = q.seen /\ p.row = q.row /\ p.status = 500
        /\ p.id = q.id /\ p.kind = q.kind
    BY <1>1 DEF AdminRequest
  <2>3. Stamped(q) /\ r \notin applied
    BY <1>5 DEF AnswerInd, Honest
  <2>4. 500 \notin {200, 201, 204, 400, 404}
    BY SMT
  <2> HIDE DEF p
  <2>5. Stamped(p)
    BY <1>5, <2>2, <2>3 DEF Stamped, DeletesRule
  <2>6. Honest(p, r \in applied)
    BY <2>2, <2>3, <2>4 DEF Honest
  <2> QED
    BY ONLY IndInv, AnswerInd, r \in AdminRequests, <1>3, <2>1, <2>5, <2>6, GoesOn
<1> QED
  BY <1>4, <1>5 DEF Fail

\* The stamp of what is inserted has been; an insert that is up to date wins.
LEMMA InsertedStamp ==
  ASSUME IndInv, AnswerInd, NEW r \in AdminRequests, adminReq[r].pc \in {"send", "late"},
         Inserted(adminReq[r]) # NoRow
  PROVE  /\ Inserted(adminReq[r]).ver <= clock
         /\ UpToDate(adminReq[r]) => Wins(adminReq[r])
<1> DEFINE q == adminReq[r]
           new == Inserted(q)
<1>1. q \in AdminRequest /\ q.id \in Ids /\ Stamped(q)
  BY RequestAt DEF RequestOK, AnswerInd
<1>2. /\ q.id \in TenantIds => new = q.row /\ ~DeletesRule(q)
      /\ q.id \in RuleIds => new.ver = clock
  BY InsertedIs
<1>3. clock \in Nat /\ (rows[q.id] # NoRow => rows[q.id].ver \in Nat /\ rows[q.id].ver <= clock)
  BY <1>1, VersionsAre DEF AnswerInd
<1>4. CASE q.id \in TenantIds
  <2>1. q.row.ver <= clock
    BY <1>1, <1>2, <1>4 DEF Stamped
  <2>2. ASSUME UpToDate(q) PROVE rows[q.id] = NoRow \/ q.row.ver >= rows[q.id].ver
    BY <1>1, <1>2, <1>4, <2>2 DEF UpToDate, Stamped
  <2> QED
    BY <1>2, <1>4, <2>1, <2>2 DEF Wins
<1>5. CASE q.id \in RuleIds
  <2> HIDE DEF new
  <2>1. new.ver = clock
    BY <1>2, <1>5
  <2>2. new.ver <= clock
    BY <1>3, <2>1, SMT
  <2>3. rows[q.id] # NoRow => new.ver >= rows[q.id].ver
    BY <1>3, <2>1, SMT
  <2> QED
    BY <2>2, <2>3 DEF Wins, new
<1> QED
  BY <1>1, <1>4, <1>5 DEF Ids

\* Only the delete of a rule that is not there inserts nothing.
LEMMA InsertedNothing ==
  ASSUME IndInv, NEW r \in AdminRequests, adminReq[r].pc \in {"send", "late"}, ~DeletesNothing(adminReq[r])
  PROVE  Inserted(adminReq[r]) # NoRow
<1> DEFINE q == adminReq[r]
           i == q.id
<1>1. q \in AdminRequest /\ RequestOK(q) /\ Built(q)
  BY RequestAt
<1>2. i \in Ids /\ q.row \in Row \cup {NoRow} /\ rows[i] \in Row \cup {NoRow}
  BY <1>1 DEF RequestOK, AdminRequest, IndInv, TypeOK
<1>3. clock \in Nat
  BY VersionsAre
<1>4. CASE i \in TenantIds
  <2>1. ~DeletesRule(q) /\ ~DeletesNothing(q)
    BY <1>4, IdsAssumption DEF DeletesRule, DeletesNothing
  <2>2. Inserted(q) = q.row
    BY <1>4, <2>1 DEF Inserted
  <2> QED
    BY <1>1, <2>1, <2>2 DEF Built
<1>5. CASE i \notin TenantIds /\ DeletesRule(q)
  <2>1. rows[i] \in Row
    BY <1>2, <1>5 DEF DeletesNothing
  <2>2. Inserted(q) = [rows[i] EXCEPT !.ver = clock, !.enabled = FALSE, !.original = FALSE]
    BY <1>5 DEF Inserted
  <2>3. Inserted(q) \in Row
    <3> DEFINE one == [rows[i] EXCEPT !.ver = clock]
               two == [one EXCEPT !.enabled = FALSE]
    <3>1. one \in Row
      BY <1>3, <2>1 DEF Row
    <3>2. Inserted(q) = [two EXCEPT !.original = FALSE]
      BY <2>2
    <3> HIDE DEF one
    <3>3. two \in Row
      BY <3>1 DEF Row
    <3> HIDE DEF two
    <3> QED
      BY <3>2, <3>3 DEF Row
  <2> QED
    BY <2>3, NoRowAssumption
<1>6. CASE i \notin TenantIds /\ ~DeletesRule(q)
  <2>1. q.row \in Row
    BY <1>1, <1>2, <1>6 DEF Built
  <2>2. Inserted(q) = [q.row EXCEPT !.ver = clock]
    BY <1>6 DEF Inserted
  <2>3. Inserted(q) \in Row
    BY <1>3, <2>1, <2>2 DEF Row
  <2> QED
    BY <2>3, NoRowAssumption
<1> QED
  BY <1>4, <1>5, <1>6

\* ClickHouse carries out a request.
LEMMA ApplyHonest ==
  ASSUME IndInv, AnswerInd, NEW r \in AdminRequests, Apply(r) \/ ApplyLate(r)
  PROVE  AnswerInd'
<1> DEFINE q == adminReq[r]
           s == adminReq'[r].status
<1>1. q.pc \in {"send", "late"} /\ Execute(r) /\ UNCHANGED clock
  BY DEF Apply, ApplyLate
<1>2. q \in AdminRequest /\ q.id \in Ids /\ q.kind \in {"create", "update", "delete"}
  BY <1>1, RequestAt DEF RequestOK, AdminRequest
<1>3. \E t \in {200, 201, 204, 500} : adminReq' = [adminReq EXCEPT ![r] = Answered(t)]
  <2>1. StatusOf(q.kind, q.id)["ok"] \in {200, 201, 204} /\ StatusOf(q.kind, q.id)["failed"] = 500
    BY <1>2, Statuses
  <2>2. AdminAnswer(r, q.kind, q.id, "ok") \/ AdminAnswer(r, q.kind, q.id, "failed")
    BY DEF Apply, ApplyLate
  <2>3. \A o \in {"ok", "failed"} : AdminAnswer(r, q.kind, q.id, o) =>
          adminReq' = [adminReq EXCEPT ![r] = Answered(StatusOf(q.kind, q.id)[o])]
    BY DEF AdminAnswer, Answered
  <2> QED
    BY <2>1, <2>2, <2>3
<1>4. PICK t \in {200, 201, 204, 500} : adminReq' = [adminReq EXCEPT ![r] = Answered(t)]
  BY <1>3
<1>5. applied' = applied \cup {r}
  BY <1>1 DEF Execute
<1>6. ~ignored'
  <2>1. ~ignored
    BY DEF AnswerInd
  <2>2. Inserted(q) # NoRow /\ UpToDate(q) => Wins(q)
    BY <1>1, InsertedStamp
  <2>3. Inserted(q) = NoRow => DeletesNothing(q)
    BY <1>1, InsertedNothing
  <2> QED
    BY <2>1, <2>2, <2>3 DEF Apply, ApplyLate
<1>7. \A i \in Ids : rows'[i] # NoRow => rows'[i].ver <= clock'
  <2>1. CASE Wins(q)
    <3>1. rows' = [rows EXCEPT ![q.id] = Inserted(q)] /\ Inserted(q) # NoRow
      BY <1>1, <2>1 DEF Execute, Wins
    <3>2. Inserted(q).ver <= clock
      BY <1>1, <3>1, InsertedStamp
    <3>3. \A i \in Ids : rows'[i] = IF i = q.id THEN Inserted(q) ELSE rows[i]
      BY <3>1 DEF IndInv, TypeOK
    <3> QED
      BY <1>1, <3>2, <3>3 DEF AnswerInd
  <2>2. CASE ~Wins(q)
    BY <1>1, <2>2 DEF Execute, AnswerInd
  <2> QED
    BY <2>1, <2>2
<1>8. ASSUME NEW p \in AdminRequests
      PROVE  Stamped(adminReq[p])' /\ Honest(adminReq'[p], p \in applied')
  <2>1. CASE p = r
    <3> DEFINE a == Answered(t)
    <3>1. adminReq'[p] = a
      BY <1>4, <2>1 DEF IndInv, TypeOK
    <3>2. a.pc = "done" /\ a.status = t /\ a.seen = NoRow /\ a.row = NoRow
      BY AnsweredIs
    <3>3. t \notin {400, 404}
      BY SMT
    <3>4. r \in applied'
      BY <1>5
    <3> HIDE DEF a
    <3> QED
      BY <2>1, <3>1, <3>2, <3>3, <3>4 DEF Stamped, Honest
  <2>2. CASE p # r
    <3>1. adminReq'[p] = adminReq[p] /\ (p \in applied' <=> p \in applied)
      BY <1>4, <1>5, <2>2 DEF IndInv, TypeOK
    <3>2. Stamped(adminReq[p]) /\ Honest(adminReq[p], p \in applied)
      BY DEF AnswerInd
    <3> QED
      BY <1>1, <3>1, <3>2 DEF Stamped, Honest, DeletesRule
  <2> QED
    BY <2>1, <2>2
<1> QED
  BY <1>6, <1>7, <1>8 DEF AnswerInd, Honest

\* Time passes.
LEMMA TickHonest ==
  ASSUME IndInv, AnswerInd, Tick
  PROVE  AnswerInd'
<1>1. clock' = clock + 1 /\ UNCHANGED <<rows, adminReq, applied, ignored>>
  BY DEF Tick, histVars
<1>2. clock \in Nat
  BY TimeAssumption, SMT DEF IndInv, TypeOK
<1>3. \A n \in Nat : n <= clock => n <= clock'
  BY <1>1, <1>2, SMT
<1>4. ASSUME NEW i \in Ids, rows'[i] # NoRow PROVE rows'[i].ver <= clock'
  <2>1. rows[i] \in Row
    BY <1>1, <1>4 DEF IndInv, TypeOK
  <2>2. rows[i].ver \in Nat
    BY <2>1 DEF Row
  <2> QED
    BY <1>1, <1>3, <1>4, <2>2 DEF AnswerInd
<1>5. ASSUME NEW r \in AdminRequests PROVE Stamped(adminReq[r])' /\ Honest(adminReq'[r], r \in applied')
  <2> DEFINE q == adminReq[r]
  <2>1. /\ q.seen # NoRow => q.seen.ver \in Nat
        /\ q.row # NoRow => q.row.ver \in Nat
    BY VersionsAre
  <2>2. Stamped(q) /\ Honest(q, r \in applied)
    BY DEF AnswerInd
  <2>3. /\ q.seen # NoRow => q.seen.ver <= clock'
        /\ q.row # NoRow => q.row.ver <= clock'
    BY <1>3, <2>1, <2>2 DEF Stamped
  <2> QED
    BY <1>1, <2>2, <2>3 DEF Stamped, Honest, DeletesRule
<1> QED
  BY <1>1, <1>4, <1>5 DEF AnswerInd, Honest

(* A client can believe the answers of the API: what is acknowledged was    *)
(* carried out and, unless another request came in between, took effect;    *)
(* what was refused or not found was not.  For every number of requests.    *)
THEOREM AnswersAreTrue == ConfigSpec => []AnswersTrue
<1>1. ConfigInit => AnswerInd
  <2> SUFFICES ASSUME ConfigInit PROVE AnswerInd
    OBVIOUS
  <2>1. ASSUME NEW i \in Ids, rows[i] # NoRow PROVE rows[i].ver <= clock
    <3>1. rows[i] \in [ver: {0}, enabled: {TRUE}, value: Values, original: {TRUE}] /\ clock = 0
      BY <2>1 DEF ConfigInit
    <3>2. rows[i].ver = 0
      BY <3>1
    <3> QED
      BY <3>1, <3>2, SMT
  <2>2. ASSUME NEW r \in AdminRequests PROVE Stamped(adminReq[r]) /\ Honest(adminReq[r], r \in applied)
    <3>1. adminReq[r] = NoRequest /\ r \notin applied
      BY DEF ConfigInit
    <3>2. /\ NoRequest.seen = NoRow /\ NoRequest.row = NoRow /\ NoRequest.pc = "idle"
          /\ NoRequest.status = 0
      BY DEF NoRequest
    <3>3. 0 \notin {200, 201, 204, 400, 404}
      BY SMT
    <3> QED
      BY <3>1, <3>2, <3>3 DEF Stamped, Honest
  <2> QED
    BY <2>1, <2>2 DEF ConfigInit, AnswerInd
<1>2. IndInv /\ AnswerInd /\ [ConfigNext]_configVars => AnswerInd'
  <2> SUFFICES ASSUME IndInv, AnswerInd, [ConfigNext]_configVars PROVE AnswerInd'
    OBVIOUS
  <2>1. ASSUME NEW r \in AdminRequests, RequestStep(r) PROVE AnswerInd'
    <3>1. CASE \/ CreateTenant(r) \/ CreateRule(r) \/ UpdateTenant(r) \/ UpdateRule(r)
               \/ DeleteTenant(r) \/ DeleteRule(r)
      BY ONLY IndInv, AnswerInd, r \in AdminRequests, <3>1, BeforeInsert
    <3>2. CASE GetTenant(r) \/ GetRule(r)
      BY <3>2, GetHonest DEF GetTenant, GetRule
    <3>3. CASE BuildTenant(r) \/ BuildRule(r)
      BY <3>3, BuildHonest
    <3>4. CASE Fail(r)
      BY <3>4, FailHonest
    <3>5. CASE Apply(r) \/ ApplyLate(r)
      BY <3>5, ApplyHonest
    <3> QED
      BY <2>1, <3>1, <3>2, <3>3, <3>4, <3>5 DEF RequestStep
  <2>2. CASE Hup \/ Reload \/ ListRules \/ Load \/ UNCHANGED configVars
    <3>1. UNCHANGED <<clock, rows, adminReq, applied, ignored>>
      BY <2>2 DEF Hup, Reload, ListRules, Load, configVars, histVars
    <3> QED
      BY <3>1 DEF AnswerInd, Stamped, Honest, DeletesRule
  <2> QED
    BY <2>1, <2>2, TickHonest DEF ConfigNext
<1>3. IndInv /\ AnswerInd => AnswersTrue
  <2> SUFFICES ASSUME IndInv, AnswerInd PROVE AnswersTrue
    OBVIOUS
  <2>1. ~ignored
    BY DEF AnswerInd
  <2>2. ASSUME NEW r \in AdminRequests
        PROVE  /\ adminReq[r].status \in 200..299 => r \in applied
               /\ adminReq[r].status \in 400..499 => r \notin applied
    <3> DEFINE s == adminReq[r].status
    <3>1. Honest(adminReq[r], r \in applied)
      BY DEF AnswerInd
    <3>2. s \in {0, 200, 201, 204, 400, 404, 500}
      BY RequestAt DEF AdminRequest
    <3> HIDE DEF s
    <3>3. /\ s \in 200..299 => s \in {200, 201, 204}
          /\ s \in 400..499 => s \in {400, 404}
      BY <3>2, SMT
    <3> QED
      BY <3>1, <3>3 DEF Honest, s
  <2> QED
    BY <2>1, <2>2 DEF AnswersTrue
<1> QED
  BY <1>1, <1>2, <1>3, InitInv, NextInv, PTL DEF ConfigSpec
=============================================================================
