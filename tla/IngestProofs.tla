---------------------------- MODULE IngestProofs ----------------------------
(***************************************************************************)
(* Proofs about the ingest handlers, for every set of tenants, requests,   *)
(* messages and bodies, and all limits: the quota, the entries stored, and *)
(* the accounts.                                                           *)
(***************************************************************************)
EXTENDS Ingest, FiniteSetTheorems, TLAPS

Refusals == {400, 401, 422, 429}
InEntry == {"get", "tally", "insert", "record", "meter", "meter_pii", "deliver"}
\* With the redaction of the entry recorded or about to be.
Accounted == {"record", "meter", "meter_pii", "deliver"}
Redactions == {redact(m) : m \in Message}

Request == [pc: {"idle", "lookup", "counter", "count", "done"} \cup InEntry,
            status: Refusals \cup {0, 202}, tenant: Tenants, body: Bodies \cup {Garbage},
            limit: Nat, window: 0..MaxWindows, next: Nat,
            found: Redactions \cup {NoText}, hit: BOOLEAN]

Stats == [requests: Nat, pii: Nat, hits: Nat, misses: Nat]

RequestTypes == req \in [Requests -> Request]

SharedTypes ==
  /\ window \in [Tenants -> 0..MaxWindows] /\ opened \in [Tenants -> 0..MaxWindows]
  /\ count \in [Tenants -> [1..MaxWindows -> Nat]]
  /\ cache \in [Words -> Redactions \cup {NoText}]

\* The request holds a redaction.
HasText(q) == q.pc \in Accounted \/ (q.pc = "tally" /\ q.hit)

\* Where a request is, and what it then holds.
Shape(q) ==
  /\ q.pc = "idle" => q = Idle
  /\ q.pc = "done" <=> q.status # 0
  /\ q.pc \notin InEntry /\ q.status # 202 => q.next = 1
  /\ q.pc \in {"lookup", "counter", "count"} => q.body.entries # <<>>
  /\ q.pc \in InEntry => q.next \in DOMAIN q.body.entries
  /\ q.pc \in InEntry \ {"get"} => q.body.entries[q.next] \in Entry
  /\ HasText(q) => q.found \in Redactions
  /\ q.pc \in {"count"} \cup InEntry \/ q.status = 202 => q.window # 0
  /\ q.status = 202 => q.next = Len(q.body.entries)

Shapes == \A r \in Requests : Shape(req[r])

Base == RequestTypes /\ SharedTypes /\ Shapes

-----------------------------------------------------------------------------
(* What the steps do to a request. *)

\* The other requests are where they were.
Others(r) == \A p \in Requests \ {r} : req'[p] = req[p]

\* So are the tenant and the body of this one, its limit and its counter.
Same(r) == /\ req'[r].tenant = req[r].tenant /\ req'[r].body = req[r].body
           /\ req'[r].limit = req[r].limit /\ req'[r].window = req[r].window

Refused(r) ==
  /\ req[r].pc \in {"idle", "count"} /\ req'[r].pc = "done" /\ req'[r].status \in Refusals
  /\ req'[r].next = 1
  /\ req'[r].body = req[r].body

Accepted(r) ==
  /\ req[r].pc = "idle" /\ req'[r].pc = "lookup" /\ req'[r].status = 0
  /\ req'[r].next = 1 /\ req'[r].body \in Bodies /\ req'[r].body.entries # <<>>

\* The request is at its next entry or answered.
Advanced(r) ==
  /\ Same(r)
  /\ \/ /\ req[r].next < Len(req[r].body.entries)
        /\ req'[r].pc = "get" /\ req'[r].status = 0 /\ req'[r].next = req[r].next + 1
     \/ /\ req[r].next = Len(req[r].body.entries)
        /\ req'[r].pc = "done" /\ req'[r].status = 202 /\ req'[r].next = req[r].next

\* The entries of a body are a sequence.
LEMMA EntriesType ==
  ASSUME NEW b \in Bodies \cup {Garbage}
  PROVE  b.entries \in Seq(Entry \cup {Malformed})
<1>1. CASE b \in Bodies
  BY <1>1, BodiesAssumption
<1>2. CASE b = Garbage
  BY <1>2 DEF Garbage
<1> QED
  BY <1>1, <1>2

LEMMA IdleType ==
  /\ Idle \in Request /\ Shape(Idle)
  /\ Idle.pc = "idle" /\ Idle.status = 0 /\ Idle.next = 1 /\ Idle.body = Garbage
<1>1. (CHOOSE t \in Tenants : TRUE) \in Tenants
  BY FiniteAssumption
<1>2. 0 \in 0..MaxWindows
  BY BoundsAssumption
<1>3. Idle \in Request
  BY <1>1, <1>2 DEF Idle, Request
<1> QED
  BY <1>3 DEF Idle, Shape, InEntry, HasText, Accounted

\* The edits of a request that the actions make.
Accept(q, t, b) == [q EXCEPT !.pc = "lookup", !.tenant = t, !.body = b]
ToNext(q) == [q EXCEPT !.pc = "get", !.next = q.next + 1, !.found = NoText, !.hit = FALSE]
ToEnd(q) == [q EXCEPT !.pc = "done", !.status = 202, !.found = NoText, !.hit = FALSE]
Found(q, to, text, hit) == [q EXCEPT !.pc = to, !.found = text, !.hit = hit]
Filled(q, text) == [q EXCEPT !.pc = "record", !.found = text]

LEMMA AnswerEdit ==
  ASSUME NEW q \in Request, NEW s \in Refusals
  PROVE  /\ Answer(q, s) \in Request /\ Answer(q, s).pc = "done" /\ Answer(q, s).status = s
         /\ Answer(q, s).next = q.next /\ Answer(q, s).body = q.body
  BY DEF Request, Answer

LEMMA AcceptEdit ==
  ASSUME NEW q \in Request, NEW t \in Tenants, NEW b \in Bodies
  PROVE  /\ Accept(q, t, b) \in Request /\ Accept(q, t, b).pc = "lookup"
         /\ Accept(q, t, b).status = q.status /\ Accept(q, t, b).next = q.next
         /\ Accept(q, t, b).body = b
  BY DEF Request, Accept

\* A request p is like q but for where it is and what it has found.
Like(p, q) == /\ p.tenant = q.tenant /\ p.body = q.body /\ p.limit = q.limit
              /\ p.window = q.window

LEMMA PcEdit ==
  ASSUME NEW q \in Request, NEW to \in {"done"} \cup InEntry
  PROVE  LET p == [q EXCEPT !.pc = to] IN
         /\ p \in Request /\ Like(p, q) /\ p.pc = to /\ p.status = q.status
         /\ p.next = q.next /\ p.found = q.found /\ p.hit = q.hit
  BY DEF Request, Like

LEMMA HeldEdit ==
  ASSUME NEW q \in Request, NEW text \in Redactions \cup {NoText}
  PROVE  LET p == [q EXCEPT !.found = text] IN
         /\ p \in Request /\ Like(p, q) /\ p.pc = q.pc /\ p.status = q.status
         /\ p.next = q.next /\ p.found = text /\ p.hit = q.hit
  BY DEF Request, Like

LEMMA HitEdit ==
  ASSUME NEW q \in Request, NEW hit \in BOOLEAN
  PROVE  LET p == [q EXCEPT !.hit = hit] IN
         /\ p \in Request /\ Like(p, q) /\ p.pc = q.pc /\ p.status = q.status
         /\ p.next = q.next /\ p.found = q.found /\ p.hit = hit
  BY DEF Request, Like

LEMMA ToNextEdit ==
  ASSUME NEW q \in Request
  PROVE  /\ ToNext(q) \in Request /\ Like(ToNext(q), q)
         /\ ToNext(q).pc = "get" /\ ToNext(q).next = q.next + 1 /\ ToNext(q).status = q.status
<1> DEFINE a == [q EXCEPT !.pc = "get"]
           b == [a EXCEPT !.next = q.next + 1]
           c == [b EXCEPT !.found = NoText]
           d == [c EXCEPT !.hit = FALSE]
<1>1. /\ a \in Request /\ Like(a, q) /\ a.pc = "get" /\ a.status = q.status
      /\ a.next = q.next /\ a.found = q.found /\ a.hit = q.hit
  BY PcEdit DEF InEntry
<1> HIDE DEF a
<1>2. /\ b \in Request /\ Like(b, a) /\ b.pc = a.pc /\ b.status = a.status
      /\ b.next = q.next + 1 /\ b.found = a.found /\ b.hit = a.hit
  BY <1>1 DEF Request, Like
<1> HIDE DEF b
<1>3. /\ c \in Request /\ Like(c, b) /\ c.pc = b.pc /\ c.status = b.status
      /\ c.next = b.next /\ c.found = NoText /\ c.hit = b.hit
  BY <1>2, HeldEdit
<1> HIDE DEF c
<1>4. /\ d \in Request /\ Like(d, c) /\ d.pc = c.pc /\ d.status = c.status
      /\ d.next = c.next /\ d.found = c.found /\ d.hit = FALSE
  BY <1>3, HitEdit
<1> HIDE DEF d
<1>5. ToNext(q) = d
  BY DEF ToNext, a, b, c, d
<1> QED
  BY <1>1, <1>2, <1>3, <1>4, <1>5 DEF Like

LEMMA ToEndEdit ==
  ASSUME NEW q \in Request
  PROVE  /\ ToEnd(q) \in Request /\ Like(ToEnd(q), q)
         /\ ToEnd(q).pc = "done" /\ ToEnd(q).next = q.next /\ ToEnd(q).status = 202
<1> DEFINE a == [q EXCEPT !.pc = "done"]
           b == [a EXCEPT !.status = 202]
           c == [b EXCEPT !.found = NoText]
           d == [c EXCEPT !.hit = FALSE]
<1>1. /\ a \in Request /\ Like(a, q) /\ a.pc = "done" /\ a.status = q.status
      /\ a.next = q.next /\ a.found = q.found /\ a.hit = q.hit
  BY PcEdit
<1> HIDE DEF a
<1>2. /\ b \in Request /\ Like(b, a) /\ b.pc = a.pc /\ b.status = 202
      /\ b.next = a.next /\ b.found = a.found /\ b.hit = a.hit
  BY <1>1 DEF Request, Like
<1> HIDE DEF b
<1>3. /\ c \in Request /\ Like(c, b) /\ c.pc = b.pc /\ c.status = b.status
      /\ c.next = b.next /\ c.found = NoText /\ c.hit = b.hit
  BY <1>2, HeldEdit
<1> HIDE DEF c
<1>4. /\ d \in Request /\ Like(d, c) /\ d.pc = c.pc /\ d.status = c.status
      /\ d.next = c.next /\ d.found = c.found /\ d.hit = FALSE
  BY <1>3, HitEdit
<1> HIDE DEF d
<1>5. ToEnd(q) = d
  BY DEF ToEnd, a, b, c, d
<1> QED
  BY <1>1, <1>2, <1>3, <1>4, <1>5 DEF Like

LEMMA FoundEdit ==
  ASSUME NEW q \in Request, NEW to \in InEntry, NEW text \in Redactions \cup {NoText},
         NEW hit \in BOOLEAN
  PROVE  LET p == Found(q, to, text, hit) IN
         /\ p \in Request /\ Like(p, q) /\ p.pc = to /\ p.found = text /\ p.hit = hit
         /\ p.next = q.next /\ p.status = q.status
<1> DEFINE a == [q EXCEPT !.pc = to]
           b == [a EXCEPT !.found = text]
           c == [b EXCEPT !.hit = hit]
<1>1. /\ a \in Request /\ Like(a, q) /\ a.pc = to /\ a.status = q.status
      /\ a.next = q.next /\ a.found = q.found /\ a.hit = q.hit
  BY PcEdit
<1> HIDE DEF a
<1>2. /\ b \in Request /\ Like(b, a) /\ b.pc = a.pc /\ b.status = a.status
      /\ b.next = a.next /\ b.found = text /\ b.hit = a.hit
  BY <1>1, HeldEdit
<1> HIDE DEF b
<1>3. /\ c \in Request /\ Like(c, b) /\ c.pc = b.pc /\ c.status = b.status
      /\ c.next = b.next /\ c.found = b.found /\ c.hit = hit
  BY <1>2, HitEdit
<1> HIDE DEF c
<1>4. Found(q, to, text, hit) = c
  BY DEF Found, a, b, c
<1> QED
  BY <1>1, <1>2, <1>3, <1>4 DEF Like

LEMMA FilledEdit ==
  ASSUME NEW q \in Request, NEW text \in Redactions
  PROVE  LET p == Filled(q, text) IN
         /\ p \in Request /\ Like(p, q) /\ p.pc = "record" /\ p.found = text /\ p.hit = q.hit
         /\ p.next = q.next /\ p.status = q.status
<1> DEFINE a == [q EXCEPT !.pc = "record"]
           b == [a EXCEPT !.found = text]
<1>1. /\ a \in Request /\ Like(a, q) /\ a.pc = "record" /\ a.status = q.status
      /\ a.next = q.next /\ a.found = q.found /\ a.hit = q.hit
  BY PcEdit DEF InEntry
<1> HIDE DEF a
<1>2. /\ b \in Request /\ Like(b, a) /\ b.pc = a.pc /\ b.status = a.status
      /\ b.next = a.next /\ b.found = text /\ b.hit = a.hit
  BY <1>1, HeldEdit
<1> HIDE DEF b
<1>3. Filled(q, text) = b
  BY DEF Filled, a, b
<1> QED
  BY <1>1, <1>2, <1>3 DEF Like

\* A request that is replaced by one of the type.
LEMMA Replace ==
  ASSUME RequestTypes, NEW r \in Requests, NEW p \in Request, req' = [req EXCEPT ![r] = p]
  PROVE  req'[r] = p /\ RequestTypes' /\ Others(r)
  BY DEF RequestTypes, Others

LEMMA RefuseMove ==
  ASSUME Base, NEW r \in Requests, req[r].pc \in {"idle", "count"}, NEW s \in Refusals,
         req' = [req EXCEPT ![r] = Answer(req[r], s)]
  PROVE  RequestTypes' /\ Others(r) /\ Refused(r) /\ Shape(req'[r])
<1> DEFINE p == Answer(req[r], s)
<1>1. req[r].next = 1 /\ req[r] \in Request
  BY IdleType DEF Base, Shapes, Shape, RequestTypes, InEntry
<1>2. req' = [req EXCEPT ![r] = p]
  OBVIOUS
<1>3. p \in Request /\ p.pc = "done" /\ p.status = s /\ p.next = 1 /\ p.body = req[r].body
  BY <1>1, AnswerEdit
<1> HIDE DEF p
<1>4. req'[r] = p /\ RequestTypes' /\ Others(r)
  BY <1>2, <1>3, Replace DEF Base
<1>5. s # 0 /\ s # 202
  BY DEF Refusals
<1> QED
  BY <1>1, <1>3, <1>4, <1>5 DEF Refused, Shape, InEntry, HasText, Accounted

\* What passes the checks of the body has an entry.
LEMMA PassedHasEntries ==
  ASSUME NEW b \in Bodies, NEW c, NEW path \in {"logs", "logs/batch"},
         NEW fits \in BOOLEAN, Refusal(b, c, path, fits) \notin Refusals
  PROVE  Refusal(b, c, path, fits) = 0 /\ b.entries # <<>>
<1>1. b.kind \in {"garbage", "single", "batch"} /\ (b.kind = "single" => Len(b.entries) = 1)
        /\ b.entries \in Seq(Entry \cup {Malformed})
  BY BodiesAssumption
<1>2. ASSUME SingleStatus(b, fits) \notin {400, 422}
      PROVE  SingleStatus(b, fits) = 0 /\ b.entries # <<>>
  BY <1>1, <1>2 DEF SingleStatus
<1>3. ASSUME BatchStatus(b) # 400 PROVE BatchStatus(b) = 0 /\ b.entries # <<>>
  BY <1>3 DEF BatchStatus
<1> QED
  BY <1>2, <1>3 DEF Refusal, Refusals

LEMMA ArriveMove ==
  ASSUME Base, NEW r \in Requests, NEW t \in Tenants, NEW b \in Bodies, Arrive(r, t, b)
  PROVE  RequestTypes' /\ Others(r) /\ (Refused(r) \/ Accepted(r)) /\ Shape(req'[r])
<1>1. req[r] = Idle /\ req[r].pc = "idle"
  BY DEF Arrive, Base, Shapes, Shape
<1>2. ASSUME NEW s \in Refusals, req' = [req EXCEPT ![r] = Answer(Idle, s)]
      PROVE  RequestTypes' /\ Others(r) /\ Refused(r) /\ Shape(req'[r])
  <2> DEFINE p == Answer(Idle, s)
  <2>1. p \in Request /\ p.pc = "done" /\ p.status = s /\ p.next = 1 /\ p.body = Idle.body
    BY AnswerEdit, IdleType
  <2> HIDE DEF p
  <2>2. req'[r] = p /\ RequestTypes' /\ Others(r)
    BY <1>2, <2>1, Replace DEF Base, p
  <2>3. s # 0 /\ s # 202
    BY DEF Refusals
  <2> QED
    BY <1>1, <2>1, <2>2, <2>3 DEF Refused, Shape, InEntry, HasText, Accounted
<1>3. ASSUME b.entries # <<>>, req' = [req EXCEPT ![r] = Accept(Idle, t, b)]
      PROVE  RequestTypes' /\ Others(r) /\ Accepted(r) /\ Shape(req'[r])
  <2> DEFINE p == Accept(Idle, t, b)
  <2>1. p \in Request /\ p.pc = "lookup" /\ p.status = 0 /\ p.next = 1 /\ p.body = b
    BY AcceptEdit, IdleType
  <2> HIDE DEF p
  <2>2. req'[r] = p /\ RequestTypes' /\ Others(r)
    BY <1>3, <2>1, Replace DEF Base, p
  <2>3. Accepted(r)
    BY <1>1, <1>3, <2>1, <2>2 DEF Accepted
  <2>4. Shape(p)
    BY <1>3, <2>1 DEF Shape, InEntry, HasText, Accounted
  <2> QED
    BY <2>2, <2>3, <2>4
<1>4. CASE tokens[t] = 0
  <2>1. req' = [req EXCEPT ![r] = Answer(Idle, 429)] /\ 429 \in Refusals
    BY <1>1, <1>4 DEF Arrive, Refusals
  <2> QED
    BY <1>2, <2>1
<1>5. CASE tokens[t] # 0
  <2>1. PICK c \in SUBSET {"api_key", "jwt"}, path \in {"logs", "logs/batch"}, fits \in BOOLEAN :
          req' = [req EXCEPT ![r] = IF Refusal(b, c, path, fits) # 0 THEN Answer(Idle, Refusal(b, c, path, fits))
                                    ELSE Accept(Idle, t, b)]
    BY <1>5 DEF Arrive, Accept
  <2>2. CASE Refusal(b, c, path, fits) \in Refusals
    <3>1. Refusal(b, c, path, fits) # 0
      BY <2>2 DEF Refusals
    <3> QED
      BY <1>2, <2>1, <2>2, <3>1
  <2>3. CASE Refusal(b, c, path, fits) \notin Refusals
    BY <1>3, <2>1, <2>3, PassedHasEntries
  <2> QED
    BY <2>2, <2>3
<1> QED
  BY <1>4, <1>5

LEMMA RefuseTenantMove ==
  ASSUME Base, NEW r \in Requests, RefuseTenant(r)
  PROVE  RequestTypes' /\ Others(r) /\ Refused(r) /\ Shape(req'[r])
<1>1. req[r].pc = "idle" /\ req' = [req EXCEPT ![r] = Answer(req[r], 400)] /\ 400 \in Refusals
  BY DEF RefuseTenant, Refusals
<1> QED
  BY <1>1, RefuseMove

LEMMA LookupMove ==
  ASSUME Base, NEW r \in Requests, Lookup(r)
  PROVE  /\ RequestTypes' /\ Others(r) /\ Shape(req'[r])
         /\ req[r].pc = "lookup" /\ req'[r].pc = "counter"
         /\ req'[r].body = req[r].body /\ req'[r].next = req[r].next /\ req'[r].status = req[r].status
<1>1. PICK l \in Limits \cup {DefaultLimit} :
        req' = [req EXCEPT ![r] = [@ EXCEPT !.pc = "counter", !.limit = l]]
  BY DEF Lookup
<1>2. l \in Nat /\ req[r] \in Request /\ req[r].pc = "lookup" /\ Shape(req[r])
  BY LimitsAssumption DEF Lookup, Base, RequestTypes, Shapes
<1> DEFINE p == [req[r] EXCEPT !.pc = "counter", !.limit = l]
<1>3. /\ p \in Request /\ p.pc = "counter" /\ p.body = req[r].body
      /\ p.next = req[r].next /\ p.status = req[r].status
  BY <1>2 DEF Request
<1> HIDE DEF p
<1>4. req'[r] = p /\ RequestTypes' /\ Others(r)
  BY <1>1, <1>3, Replace DEF Base, p
<1>5. Shape(p)
  BY <1>2, <1>3 DEF Shape, InEntry, HasText, Accounted
<1> QED
  BY <1>2, <1>3, <1>4, <1>5

LEMMA GetCounterMove ==
  ASSUME Base, NEW r \in Requests, GetCounter(r)
  PROVE  /\ RequestTypes' /\ SharedTypes' /\ Others(r) /\ Shape(req'[r])
         /\ req[r].pc = "counter" /\ req'[r].pc = "count"
         /\ req'[r].body = req[r].body /\ req'[r].next = req[r].next /\ req'[r].status = req[r].status
<1> DEFINE t == req[r].tenant
           w == IF window[t] = 0 THEN opened[t] + 1 ELSE window[t]
<1>1. req[r] \in Request /\ req[r].pc = "counter" /\ Shape(req[r]) /\ t \in Tenants
  BY DEF GetCounter, Base, RequestTypes, Shapes, Request
<1>2. window[t] \in 0..MaxWindows /\ opened[t] \in 0..MaxWindows /\ MaxWindows \in Nat
        /\ (window[t] = 0 => opened[t] < MaxWindows)
  BY <1>1, BoundsAssumption DEF GetCounter, Base, SharedTypes
<1>3. w \in 1..MaxWindows /\ w \in 0..MaxWindows /\ w # 0
  BY <1>2
<1>4. /\ req' = [req EXCEPT ![r] = [@ EXCEPT !.pc = "count", !.window = w]]
      /\ window' = [window EXCEPT ![t] = w]
      /\ opened' = [opened EXCEPT ![t] = IF w > @ THEN w ELSE @]
      /\ count' = count /\ cache' = cache
  BY DEF GetCounter, cacheVars
<1> HIDE DEF w
<1> DEFINE p == [req[r] EXCEPT !.pc = "count", !.window = w]
<1>5. /\ p \in Request /\ p.pc = "count" /\ p.body = req[r].body /\ p.window = w
      /\ p.next = req[r].next /\ p.status = req[r].status
  BY <1>1, <1>3 DEF Request
<1> HIDE DEF p
<1>6. req'[r] = p /\ RequestTypes' /\ Others(r)
  BY <1>4, <1>5, Replace DEF Base, p
<1>7. Shape(p)
  BY <1>1, <1>3, <1>5 DEF Shape, InEntry, HasText, Accounted
<1>8. SharedTypes'
  BY <1>1, <1>2, <1>3, <1>4 DEF Base, SharedTypes
<1> QED
  BY <1>1, <1>5, <1>6, <1>7, <1>8

\* A counter of a table goes up by one.
LEMMA OneMore ==
  ASSUME NEW A, NEW B, NEW c \in [A -> [B -> Nat]], NEW a \in A, NEW b \in B
  PROVE  [c EXCEPT ![a][b] = c[a][b] + 1] \in [A -> [B -> Nat]]
<1>1. [c[a] EXCEPT ![b] = c[a][b] + 1] \in [B -> Nat]
  OBVIOUS
<1> QED
  BY <1>1

LEMMA CountMove ==
  ASSUME Base, NEW r \in Requests, Count(r)
  PROVE  LET t == req[r].tenant  w == req[r].window IN
         /\ RequestTypes' /\ SharedTypes' /\ Others(r) /\ Shape(req'[r])
         /\ req[r].pc = "count" /\ t \in Tenants /\ w \in 1..MaxWindows
         /\ count' = [count EXCEPT ![t][w] = count[t][w] + 1]
         /\ count[t][w] \in Nat
         /\ \/ Refused(r)
            \/ /\ count[t][w] + 1 <= req[r].limit
               /\ req'[r].pc = "get" /\ req'[r].status = 0 /\ req'[r].next = 1 /\ Same(r)
<1> DEFINE t == req[r].tenant
           w == req[r].window
           n == count[t][w] + 1
<1>1. /\ req[r] \in Request /\ req[r].pc = "count" /\ Shape(req[r]) /\ t \in Tenants
      /\ w \in 0..MaxWindows /\ req[r].limit \in Nat
  BY DEF Count, Base, RequestTypes, Shapes, Request
<1>2. w \in 1..MaxWindows
  BY <1>1, BoundsAssumption DEF Shape
<1>3. count' = [count EXCEPT ![t][w] = n] /\ window' = window /\ opened' = opened /\ cache' = cache
  BY DEF Count, cacheVars
<1>4. count[t] \in [1..MaxWindows -> Nat] /\ count[t][w] \in Nat
  BY <1>1, <1>2 DEF Base, SharedTypes
<1>5. SharedTypes'
  <2>1. count \in [Tenants -> [1..MaxWindows -> Nat]]
    BY DEF Base, SharedTypes
  <2>2. [count EXCEPT ![t][w] = count[t][w] + 1] \in [Tenants -> [1..MaxWindows -> Nat]]
    BY ONLY <1>1, <1>2, <2>1, OneMore
  <2>3. count' \in [Tenants -> [1..MaxWindows -> Nat]]
    BY <1>3, <2>2
  <2> QED
    BY <1>3, <2>3 DEF Base, SharedTypes
<1>6. CASE n > req[r].limit
  <2>1. req' = [req EXCEPT ![r] = Answer(req[r], 429)] /\ 429 \in Refusals
    BY <1>6 DEF Count, Refusals
  <2>2. RequestTypes' /\ Others(r) /\ Refused(r) /\ Shape(req'[r])
    BY <1>1, <2>1, RefuseMove
  <2> QED
    BY <1>1, <1>2, <1>3, <1>4, <1>5, <2>2
<1>7. CASE ~(n > req[r].limit)
  <2> DEFINE p == [req[r] EXCEPT !.pc = "get"]
  <2>1. req' = [req EXCEPT ![r] = p]
    BY <1>7 DEF Count
  <2>2. /\ p \in Request /\ p.pc = "get" /\ p.body = req[r].body /\ p.window = w
        /\ p.next = req[r].next /\ p.status = req[r].status /\ p.tenant = t /\ p.limit = req[r].limit
    BY <1>1 DEF Request, InEntry
  <2> HIDE DEF p
  <2>3. req'[r] = p /\ RequestTypes' /\ Others(r)
    BY <2>1, <2>2, Replace DEF Base
  <2>4. p.next = 1 /\ p.status = 0 /\ req[r].body.entries # <<>>
    BY <1>1, <2>2 DEF Shape, InEntry
  <2>5. 1 \in DOMAIN req[r].body.entries
    <3>1. req[r].body.entries \in Seq(Entry \cup {Malformed})
      BY <1>1, EntriesType DEF Request
    <3> QED
      BY <2>4, <3>1
  <2>6. Shape(p)
    BY <1>1, <1>2, <2>2, <2>4, <2>5 DEF Shape, InEntry, HasText, Accounted
  <2>7. n <= req[r].limit
    <3> DEFINE c == count[t][w]
               l == req[r].limit
    <3>1. c \in Nat /\ l \in Nat /\ ~(c + 1 > l)
      BY <1>1, <1>4, <1>7
    <3> HIDE DEF c, l
    <3>2. c + 1 <= l
      BY <3>1
    <3> QED
      BY <3>2 DEF c, l
  <2> QED
    BY <1>1, <1>2, <1>3, <1>4, <1>5, <2>2, <2>3, <2>4, <2>6, <2>7 DEF Same
<1> QED
  BY <1>6, <1>7

\* The facts about a request that the steps within an entry start from.
LEMMA EntryFacts ==
  ASSUME Base, NEW r \in Requests, req[r].pc \in InEntry
  PROVE  /\ req[r] \in Request /\ Shape(req[r]) /\ req[r].status = 0
         /\ req[r].next \in 1..Len(req[r].body.entries) /\ Len(req[r].body.entries) \in Nat
         /\ req[r].body.entries \in Seq(Entry \cup {Malformed})
         /\ entry(r) \in Entry \cup {Malformed}
<1>1. req[r] \in Request /\ Shape(req[r])
  BY DEF Base, RequestTypes, Shapes
<1>2. req[r].body.entries \in Seq(Entry \cup {Malformed})
  BY <1>1, EntriesType DEF Request
<1>3. req[r].next \in DOMAIN req[r].body.entries /\ req[r].status = 0
  BY <1>1 DEF Shape, InEntry
<1> QED
  BY <1>1, <1>2, <1>3 DEF entry

\* What the schema lets pass is an entry.
LEMMA ValidIsEntry ==
  ASSUME NEW e \in Entry \cup {Malformed}
  PROVE  /\ valid_entry(e) <=> e \in Entry
         /\ e \in Entry => e.msg \in Message /\ e = [valid |-> TRUE, msg |-> e.msg]
<1>1. CASE e \in Entry
  <2>1. e.valid = TRUE /\ e.msg \in Message /\ e = [valid |-> TRUE, msg |-> e.msg]
    BY <1>1 DEF Entry
  <2> QED
    BY <1>1, <2>1 DEF valid_entry
<1>2. CASE e = Malformed
  <2>1. e.valid = FALSE
    BY <1>2 DEF Malformed
  <2>2. e \notin Entry
    BY <2>1 DEF Entry
  <2> QED
    BY <2>1, <2>2 DEF valid_entry
<1> QED
  BY <1>1, <1>2

LEMMA AdvanceMove ==
  ASSUME Base, NEW r \in Requests, req[r].pc \in InEntry, req' = [req EXCEPT ![r] = Advance(req[r])]
  PROVE  RequestTypes' /\ Others(r) /\ Advanced(r) /\ Shape(req'[r])
<1>1. /\ req[r] \in Request /\ Shape(req[r]) /\ req[r].status = 0 /\ req[r].next \in Nat
      /\ req[r].next \in 1..Len(req[r].body.entries) /\ Len(req[r].body.entries) \in Nat
      /\ req[r].body.entries \in Seq(Entry \cup {Malformed})
  BY EntryFacts DEF Request
<1>2. CASE req[r].next < Len(req[r].body.entries)
  <2> DEFINE p == ToNext(req[r])
  <2>1. /\ p \in Request /\ p.pc = "get" /\ p.next = req[r].next + 1 /\ p.status = req[r].status
        /\ Like(p, req[r])
    BY <1>1, ToNextEdit
  <2>2. req' = [req EXCEPT ![r] = p]
    BY <1>2 DEF Advance, ToNext
  <2> HIDE DEF p
  <2>3. req'[r] = p /\ RequestTypes' /\ Others(r)
    BY <2>1, <2>2, Replace DEF Base
  <2>4. req[r].next + 1 \in DOMAIN req[r].body.entries
    BY <1>1, <1>2
  <2>5. Shape(p)
    BY <1>1, <2>1, <2>4 DEF Shape, InEntry, Like, HasText, Accounted
  <2> QED
    BY <1>1, <1>2, <2>1, <2>3, <2>5 DEF Advanced, Same, Like
<1>3. CASE ~(req[r].next < Len(req[r].body.entries))
  <2> DEFINE p == ToEnd(req[r])
  <2>1. /\ p \in Request /\ p.pc = "done" /\ p.next = req[r].next /\ p.status = 202
        /\ Like(p, req[r])
    BY <1>1, ToEndEdit
  <2>2. req' = [req EXCEPT ![r] = p]
    BY <1>3 DEF Advance, ToEnd
  <2> HIDE DEF p
  <2>3. req'[r] = p /\ RequestTypes' /\ Others(r)
    BY <2>1, <2>2, Replace DEF Base
  <2>4. req[r].next = Len(req[r].body.entries)
    BY <1>1, <1>3
  <2>5. Shape(p)
    BY <1>1, <2>1, <2>4 DEF Shape, InEntry, Like, HasText, Accounted
  <2> QED
    BY <2>1, <2>3, <2>4, <2>5 DEF Advanced, Same, Like
<1> QED
  BY <1>2, <1>3

\* A step within an entry, which changes only what the request holds of it.
Within(r) ==
  /\ req[r].pc \in InEntry /\ req'[r].pc \in InEntry /\ Same(r)
  /\ req'[r].next = req[r].next /\ req'[r].status = 0

LEMMA GetCachedMove ==
  ASSUME Base, NEW r \in Requests, GetCached(r)
  PROVE  LET k == make_key(entry(r).msg) IN
         /\ RequestTypes' /\ Others(r) /\ Shape(req'[r]) /\ Within(r) /\ req[r].pc = "get"
         /\ k \in Words /\ entry(r) \in Entry
         /\ req'[r].pc = "tally" /\ req'[r].found = cache[k] /\ req'[r].hit = (cache[k] # NoText)
<1> DEFINE found == cache[make_key(entry(r).msg)]
           hit == found # NoText
           p == Found(req[r], "tally", found, hit)
<1>1. /\ req[r] \in Request /\ Shape(req[r]) /\ req[r].status = 0 /\ req[r].pc = "get"
      /\ entry(r) \in Entry
  BY EntryFacts, ValidIsEntry DEF GetCached, InEntry
<1>2. make_key(entry(r).msg) \in Words
  BY <1>1 DEF make_key, Entry, Message
<1>3. found \in Redactions \cup {NoText}
  BY <1>2 DEF Base, SharedTypes
<1>4. req' = [req EXCEPT ![r] = p]
  BY DEF GetCached, Found
<1> HIDE DEF found
<1>5. hit \in BOOLEAN /\ "tally" \in InEntry /\ (hit => found \in Redactions)
  BY <1>3 DEF InEntry
<1> HIDE DEF hit
<1>6. /\ p \in Request /\ p.pc = "tally" /\ p.found = found /\ p.hit = hit /\ p.next = req[r].next
      /\ p.status = req[r].status /\ Like(p, req[r])
  BY <1>1, <1>3, <1>5, FoundEdit
<1> HIDE DEF p
<1>7. req'[r] = p /\ RequestTypes' /\ Others(r)
  BY <1>4, <1>6, Replace DEF Base
<1>8. Within(r)
  BY <1>1, <1>5, <1>6, <1>7 DEF Within, Same, Like, InEntry
<1>9. req[r].body.entries[req[r].next] \in Entry
  BY <1>1 DEF entry
<1>10. Shape(p)
  BY <1>1, <1>5, <1>6, <1>9 DEF Shape, InEntry, Like, HasText, Accounted
<1> QED
  BY <1>1, <1>2, <1>6, <1>7, <1>8, <1>10 DEF found, hit

LEMMA InsertMove ==
  ASSUME Base, NEW r \in Requests, Insert(r)
  PROVE  LET m == entry(r).msg IN
         /\ RequestTypes' /\ SharedTypes' /\ Others(r) /\ Shape(req'[r]) /\ Within(r)
         /\ req[r].pc = "insert" /\ req'[r].pc = "record" /\ req'[r].hit = req[r].hit
         /\ entry(r) \in Entry /\ m \in Message
         /\ req'[r].found = redact(m) /\ cache' = [cache EXCEPT ![make_key(m)] = redact(m)]
<1> DEFINE m == entry(r).msg
           p == Filled(req[r], redact(m))
<1>1. req[r].pc = "insert"
  BY DEF Insert
<1>2. /\ req[r] \in Request /\ Shape(req[r]) /\ req[r].status = 0 /\ entry(r) \in Entry
  BY <1>1, EntryFacts DEF InEntry, Shape, entry
<1>3. m \in Message /\ make_key(m) \in Words /\ redact(m) \in Redactions
  BY <1>2 DEF Entry, Message, make_key, Redactions
<1>4. /\ req' = [req EXCEPT ![r] = p]
      /\ cache' = [cache EXCEPT ![make_key(m)] = redact(m)]
      /\ window' = window /\ opened' = opened /\ count' = count
  BY DEF Insert, quotaVars, Filled
<1>5. /\ p \in Request /\ p.pc = "record" /\ p.found = redact(m) /\ p.hit = req[r].hit
      /\ p.next = req[r].next /\ p.status = req[r].status /\ Like(p, req[r])
  BY <1>2, <1>3, FilledEdit
<1> HIDE DEF p
<1>6. req'[r] = p /\ RequestTypes' /\ Others(r)
  BY <1>4, <1>5, Replace DEF Base
<1>7. Shape(p)
  BY <1>1, <1>2, <1>3, <1>5 DEF Shape, InEntry, entry, Like, HasText, Accounted
<1>8. SharedTypes'
  BY <1>3, <1>4 DEF Base, SharedTypes
<1> QED
  BY <1>1, <1>2, <1>3, <1>4, <1>5, <1>6, <1>7, <1>8 DEF Within, Same, Like, InEntry

\* A use of one of the accounts, after which the request is one step further.
Passes(r) == CountLookup(r) \/ Record(r) \/ MeterRequest(r) \/ MeterPii(r)
Onward(q) ==
  CASE q.pc = "tally" -> IF q.hit THEN "record" ELSE "insert"
    [] q.pc = "record" -> "meter"
    [] q.pc = "meter" -> "meter_pii"
    [] q.pc = "meter_pii" -> "deliver"

LEMMA PassMove ==
  ASSUME Base, NEW r \in Requests, Passes(r)
  PROVE  /\ RequestTypes' /\ Others(r) /\ Shape(req'[r]) /\ Within(r)
         /\ req[r].pc \in {"tally", "record", "meter", "meter_pii"}
         /\ req'[r].pc = Onward(req[r])
         /\ req'[r].hit = req[r].hit /\ req'[r].found = req[r].found
<1> DEFINE to == Onward(req[r])
           p == [req[r] EXCEPT !.pc = to]
<1>1. /\ req[r].pc \in {"tally", "record", "meter", "meter_pii"}
      /\ req' = [req EXCEPT ![r] = p]
  BY DEF Passes, CountLookup, Record, MeterRequest, MeterPii, Onward
<1>2. /\ req[r] \in Request /\ Shape(req[r]) /\ req[r].status = 0
  BY <1>1, EntryFacts DEF InEntry
<1>3. /\ req[r].pc = "tally" => to = IF req[r].hit THEN "record" ELSE "insert"
      /\ req[r].pc = "record" => to = "meter"
      /\ req[r].pc = "meter" => to = "meter_pii"
      /\ req[r].pc = "meter_pii" => to = "deliver"
  BY DEF Onward
<1>4. to \in InEntry \ {"get", "tally"} /\ (to \in Accounted => HasText(req[r]))
  <2>1. req[r].hit \in BOOLEAN
    BY <1>2 DEF Request
  <2> HIDE DEF to
  <2> QED
    BY <1>1, <1>3, <2>1 DEF InEntry, Accounted, HasText
<1> HIDE DEF to
<1>5. /\ p \in Request /\ p.pc = to /\ p.found = req[r].found /\ p.hit = req[r].hit
      /\ p.next = req[r].next /\ p.status = req[r].status /\ p.tenant = req[r].tenant
      /\ p.body = req[r].body /\ p.limit = req[r].limit /\ p.window = req[r].window
  BY <1>2, <1>4 DEF Request, InEntry
<1> HIDE DEF p
<1>6. req'[r] = p /\ RequestTypes' /\ Others(r)
  BY <1>1, <1>5, Replace DEF Base
<1>7. HasText(p) => HasText(req[r])
  BY <1>4, <1>5 DEF HasText, InEntry
<1>8. Shape(p)
  BY <1>1, <1>2, <1>4, <1>5, <1>7 DEF Shape, InEntry
<1>9. Within(r)
  BY <1>1, <1>2, <1>4, <1>5, <1>6 DEF Within, Same, InEntry
<1> QED
  BY <1>1, <1>5, <1>6, <1>8, <1>9 DEF to

-----------------------------------------------------------------------------
(* Types and shapes. *)

LEMMA NoTextNoRedaction == \A x \in Redactions : x # NoText
  BY DEF Redactions, redact, NoText

LEMMA BaseStart == Init => Base
<1> SUFFICES ASSUME Init PROVE Base
  OBVIOUS
<1>1. req = [r \in Requests |-> Idle]
  BY DEF Init
<1>2. RequestTypes /\ Shapes
  BY <1>1, IdleType DEF RequestTypes, Shapes
<1>3. SharedTypes
  <2>1. 0 \in 0..MaxWindows
    BY BoundsAssumption
  <2>2. /\ window = [t \in Tenants |-> 0] /\ opened = [t \in Tenants |-> 0]
        /\ count = [t \in Tenants |-> [w \in 1..MaxWindows |-> 0]]
        /\ cache = [k \in Words |-> NoText]
    BY DEF Init
  <2> QED
    BY <2>1, <2>2 DEF SharedTypes
<1> QED
  BY <1>2, <1>3 DEF Base

LEMMA OneMoved ==
  ASSUME Base, NEW r \in Requests, RequestTypes', SharedTypes', Others(r), Shape(req'[r])
  PROVE  Base'
<1>1. Shapes'
  BY DEF Base, Shapes, Others, Shape
<1> QED
  BY <1>1 DEF Base

LEMMA SharedSame ==
  ASSUME Base, UNCHANGED <<window, opened, count, cache>> PROVE SharedTypes'
  BY DEF Base, SharedTypes

\* The steps that no request takes.
LEMMA AsideStep ==
  ASSUME Base, NEW t, NEW k, (t \in Tenants /\ (Refill(t) \/ ExpireCounter(t)))
                             \/ (k \in Words /\ Evict(k)) \/ Enrich \/ UNCHANGED vars
  PROVE  /\ Base' /\ req' = req /\ count' = count /\ hits' = hits /\ misses' = misses
         /\ costs' = costs /\ metrics' = metrics /\ sink' = sink
         /\ exported' = exported /\ checked' = checked
         /\ \A x \in Words : cache'[x] \in {cache[x], NoText}
<1> USE DEF limitVars, quotaVars, cacheVars, outVars, vars
<1>1. /\ req' = req /\ count' = count /\ hits' = hits /\ misses' = misses
      /\ costs' = costs /\ metrics' = metrics /\ sink' = sink
      /\ exported' = exported /\ checked' = checked
  BY DEF Refill, ExpireCounter, Evict, Enrich
<1>2. opened' = opened /\ (window' = window \/ (t \in Tenants /\ window' = [window EXCEPT ![t] = 0]))
  BY DEF Refill, ExpireCounter, Evict, Enrich
<1>3. cache' = cache \/ (k \in Words /\ cache' = [cache EXCEPT ![k] = NoText])
  BY DEF Refill, ExpireCounter, Evict, Enrich
<1>4. window' \in [Tenants -> 0..MaxWindows]
  <2>1. 0 \in 0..MaxWindows /\ window \in [Tenants -> 0..MaxWindows]
    BY BoundsAssumption DEF Base, SharedTypes
  <2> QED
    BY <1>2, <2>1
<1>5. /\ cache' \in [Words -> Redactions \cup {NoText}]
      /\ \A x \in Words : cache'[x] \in {cache[x], NoText}
  BY <1>3 DEF Base, SharedTypes
<1>6. SharedTypes'
  BY <1>1, <1>2, <1>4, <1>5 DEF Base, SharedTypes
<1>7. RequestTypes' /\ Shapes'
  BY <1>1 DEF Base, RequestTypes, Shapes, Shape
<1> QED
  BY <1>1, <1>5, <1>6, <1>7 DEF Base

\* A step of the system is one of a request or one aside.
Acts(r) == \/ RefuseTenant(r) \/ \E t \in Tenants, b \in Bodies : Arrive(r, t, b)
           \/ Lookup(r) \/ GetCounter(r) \/ Count(r) \/ Reject(r) \/ GetCached(r)
           \/ Insert(r) \/ Passes(r) \/ Deliver(r)

LEMMA StepCases ==
  ASSUME [Next]_vars
  PROVE  \/ \E r \in Requests : Acts(r)
         \/ \E t \in Tenants : Refill(t) \/ ExpireCounter(t)
         \/ \E k \in Words : Evict(k)
         \/ Enrich \/ UNCHANGED vars
  BY DEF Next, Acts, Passes

LEMMA DeliverMove ==
  ASSUME Base, NEW r \in Requests, Reject(r) \/ Deliver(r)
  PROVE  /\ RequestTypes' /\ Others(r) /\ Advanced(r) /\ Shape(req'[r])
         /\ req[r].pc \in InEntry
<1>1. req[r].pc \in InEntry /\ req' = [req EXCEPT ![r] = Advance(req[r])]
  BY DEF Reject, Deliver, InEntry
<1> QED
  BY <1>1, AdvanceMove

LEMMA ActBase ==
  ASSUME Base, NEW r \in Requests, Acts(r)
  PROVE  Base' /\ Others(r)
<1> USE DEF limitVars, quotaVars, cacheVars, outVars
<1>1. CASE RefuseTenant(r)
  <2>1. SharedTypes'
    BY <1>1, SharedSame DEF RefuseTenant
  <2> QED
    BY <1>1, <2>1, RefuseTenantMove, OneMoved
<1>2. ASSUME NEW t \in Tenants, NEW b \in Bodies, Arrive(r, t, b) PROVE Base' /\ Others(r)
  <2>1. SharedTypes'
    BY <1>2, SharedSame DEF Arrive
  <2> QED
    BY <1>2, <2>1, ArriveMove, OneMoved
<1>3. CASE Lookup(r)
  <2>1. SharedTypes'
    BY <1>3, SharedSame DEF Lookup
  <2> QED
    BY <1>3, <2>1, LookupMove, OneMoved
<1>4. CASE GetCounter(r)
  BY <1>4, GetCounterMove, OneMoved
<1>5. CASE Count(r)
  BY <1>5, CountMove, OneMoved
<1>6. CASE Reject(r) \/ Deliver(r)
  <2>1. SharedTypes'
    BY <1>6, SharedSame DEF Reject, Deliver
  <2> QED
    BY <1>6, <2>1, DeliverMove, OneMoved
<1>7. CASE GetCached(r)
  <2>1. SharedTypes'
    BY <1>7, SharedSame DEF GetCached
  <2> QED
    BY <1>7, <2>1, GetCachedMove, OneMoved
<1>8. CASE Insert(r)
  BY <1>8, InsertMove, OneMoved
<1>9. CASE Passes(r)
  <2>1. SharedTypes'
    BY <1>9, SharedSame DEF Passes, CountLookup, Record, MeterRequest, MeterPii
  <2> QED
    BY <1>9, <2>1, PassMove, OneMoved
<1> QED
  BY <1>1, <1>2, <1>3, <1>4, <1>5, <1>6, <1>7, <1>8, <1>9 DEF Acts

LEMMA BaseStep == Base /\ [Next]_vars => Base'
<1> SUFFICES ASSUME Base, [Next]_vars PROVE Base'
  OBVIOUS
<1>1. ASSUME NEW r \in Requests, Acts(r) PROVE Base'
  BY <1>1, ActBase
<1>2. ASSUME NEW t \in Tenants, Refill(t) \/ ExpireCounter(t) PROVE Base'
  BY <1>2, AsideStep
<1>3. ASSUME NEW k \in Words, Evict(k) PROVE Base'
  BY <1>3, AsideStep
<1>4. CASE Enrich \/ UNCHANGED vars
  BY <1>4, AsideStep
<1> QED
  BY <1>1, <1>2, <1>3, <1>4, StepCases

-----------------------------------------------------------------------------
(* The quota.  A counter is at least the number of requests it admitted,    *)
(* and the last one of those with the smallest limits was within its own.   *)

Users(t, w, l) == {r \in Requests : /\ Admitted(r) /\ req[r].tenant = t
                                    /\ req[r].window = w /\ req[r].limit <= l}

CounterBounds ==
  \A t \in Tenants, w \in 1..MaxWindows, l \in Nat :
    Cardinality(Users(t, w, l)) <= l /\ Cardinality(Users(t, w, l)) <= count[t][w]

\* Nobody else is admitted.
Unadmitted(r) == Admitted(r)' => Admitted(r) /\ Same(r)

LEMMA UsersFinite ==
  \A t, w, l : IsFiniteSet(Users(t, w, l)) /\ Cardinality(Users(t, w, l)) \in Nat
<1> TAKE t, w, l
<1>1. Users(t, w, l) \subseteq Requests
  BY DEF Users
<1>2. IsFiniteSet(Users(t, w, l))
  BY <1>1, FiniteAssumption, FS_Subset
<1> QED
  BY <1>2, FS_CardinalityType

LEMMA BoundsKept ==
  ASSUME Base, Base', CounterBounds, NEW r \in Requests, Others(r), Unadmitted(r), count' = count
  PROVE  CounterBounds'
<1> SUFFICES ASSUME NEW t \in Tenants, NEW w \in 1..MaxWindows, NEW l \in Nat
             PROVE  /\ Cardinality(Users(t, w, l)') <= l
                    /\ Cardinality(Users(t, w, l)') <= count'[t][w]
  BY DEF CounterBounds, Users
<1>1. Users(t, w, l)' \subseteq Users(t, w, l)
  BY DEF Users, Others, Unadmitted, Admitted, Same
<1>2. Cardinality(Users(t, w, l)') <= Cardinality(Users(t, w, l)) /\ Cardinality(Users(t, w, l)') \in Nat
  <2> DEFINE U == Users(t, w, l)
             V == Users(t, w, l)'
  <2>1. IsFiniteSet(U) /\ V \in SUBSET U
    BY <1>1, UsersFinite
  <2> HIDE DEF U, V
  <2>2. IsFiniteSet(V) /\ Cardinality(V) <= Cardinality(U)
    BY <2>1, FS_Subset
  <2>3. Cardinality(V) \in Nat
    BY <2>2, FS_CardinalityType
  <2> QED
    BY <2>2, <2>3 DEF U, V
<1>3. count[t][w] \in Nat /\ Cardinality(Users(t, w, l)) \in Nat
  BY UsersFinite DEF Base, SharedTypes
<1> QED
  BY <1>2, <1>3 DEF CounterBounds

LEMMA CountBounds ==
  ASSUME Base, Base', CounterBounds, NEW r \in Requests, Count(r)
  PROVE  CounterBounds'
<1> DEFINE t0 == req[r].tenant
           w0 == req[r].window
<1>1. /\ Others(r) /\ t0 \in Tenants /\ w0 \in 1..MaxWindows
      /\ count' = [count EXCEPT ![t0][w0] = count[t0][w0] + 1]
      /\ count[t0][w0] \in Nat /\ req[r].limit \in Nat
      /\ \/ Refused(r)
         \/ /\ count[t0][w0] + 1 <= req[r].limit
            /\ req'[r].pc = "get" /\ Same(r)
  <2>1. req[r].limit \in Nat
    BY DEF Base, RequestTypes, Request
  <2> QED
    BY <2>1, CountMove
<1> SUFFICES ASSUME NEW t \in Tenants, NEW w \in 1..MaxWindows, NEW l \in Nat
             PROVE  /\ Cardinality(Users(t, w, l)') <= l
                    /\ Cardinality(Users(t, w, l)') <= count'[t][w]
  BY DEF CounterBounds, Users
<1> DEFINE U == Users(t, w, l)
           V == Users(t, w, l)'
           n == count[t][w]
<1>2. /\ IsFiniteSet(U) /\ Cardinality(U) \in Nat /\ n \in Nat
      /\ Cardinality(U) <= l /\ Cardinality(U) <= n
  BY UsersFinite DEF CounterBounds, Base, SharedTypes
<1>3. V \subseteq U \cup {r}
  BY <1>1 DEF Users, Others, Admitted
<1>4. count'[t][w] = (IF t = t0 /\ w = w0 THEN n + 1 ELSE n)
  BY <1>1 DEF Base, SharedTypes
<1>5. r \in V => /\ t = t0 /\ w = w0 /\ req[r].limit <= l /\ n + 1 <= req[r].limit
  <2> SUFFICES ASSUME r \in V
               PROVE  t = t0 /\ w = w0 /\ req[r].limit <= l /\ n + 1 <= req[r].limit
    OBVIOUS
  <2>1. Admitted(r)' /\ req'[r].tenant = t /\ req'[r].window = w /\ req'[r].limit <= l
    BY DEF Users
  <2>2. ~Refused(r)
    BY <2>1 DEF Admitted, Refused, Refusals
  <2>3. count[t0][w0] + 1 <= req[r].limit /\ Same(r)
    BY <1>1, <2>2
  <2> QED
    BY <2>1, <2>3 DEF Same
<1> HIDE DEF U, V, n
<1>6. CASE r \notin V
  <2>1. V \in SUBSET U
    BY <1>3, <1>6
  <2>2. IsFiniteSet(V) /\ Cardinality(V) <= Cardinality(U)
    BY <1>2, <2>1, FS_Subset
  <2>3. Cardinality(V) \in Nat
    BY <2>2, FS_CardinalityType
  <2>4. Cardinality(V) <= l /\ Cardinality(V) <= n /\ Cardinality(V) <= n + 1
    BY <1>2, <2>2, <2>3
  <2> QED
    BY <1>4, <2>4 DEF V
<1>7. CASE r \in V
  <2>1. IsFiniteSet(U \cup {r}) /\ Cardinality(U \cup {r}) <= Cardinality(U) + 1
          /\ Cardinality(U \cup {r}) \in Nat
    <3>1. IsFiniteSet(U \cup {r}) /\ (Cardinality(U \cup {r}) = Cardinality(U)
                                      \/ Cardinality(U \cup {r}) = Cardinality(U) + 1)
      BY <1>2, FS_AddElement
    <3> QED
      BY <1>2, <3>1
  <2>2. IsFiniteSet(V) /\ Cardinality(V) <= Cardinality(U \cup {r})
    BY <1>3, <2>1, FS_Subset
  <2>3. Cardinality(V) \in Nat
    BY <2>2, FS_CardinalityType
  <2>4. Cardinality(V) <= n + 1
    BY <1>2, <2>1, <2>2, <2>3
  <2>5. n + 1 <= l /\ count'[t][w] = n + 1
    BY <1>1, <1>2, <1>4, <1>5, <1>7
  <2> QED
    BY <1>2, <2>3, <2>4, <2>5 DEF V
<1> QED
  BY <1>6, <1>7

LEMMA QuotaStep == Base /\ CounterBounds /\ [Next]_vars => CounterBounds'
<1> SUFFICES ASSUME Base, CounterBounds, [Next]_vars PROVE CounterBounds'
  OBVIOUS
<1> USE DEF limitVars, quotaVars, cacheVars, outVars
<1>0. Base'
  BY BaseStep
<1>1. ASSUME NEW r \in Requests, Acts(r) PROVE CounterBounds'
  <2>0. Others(r)
    BY <1>1, ActBase
  <2>1. CASE RefuseTenant(r)
    <3>1. count' = count
      BY <2>1 DEF RefuseTenant
    <3>2. Refused(r)
      BY <2>1, RefuseTenantMove
    <3>3. Unadmitted(r)
      BY <3>2 DEF Unadmitted, Admitted, Refused, Refusals, InEntry
    <3> QED
      BY <1>0, <2>0, <3>1, <3>3, BoundsKept
  <2>2. ASSUME NEW t \in Tenants, NEW b \in Bodies, Arrive(r, t, b) PROVE CounterBounds'
    <3>1. count' = count
      BY <2>2 DEF Arrive
    <3>2. Refused(r) \/ Accepted(r)
      BY <2>2, ArriveMove
    <3>3. Unadmitted(r)
      BY <3>2 DEF Unadmitted, Admitted, Refused, Accepted, Refusals, InEntry
    <3> QED
      BY <1>0, <2>0, <3>1, <3>3, BoundsKept
  <2>3. CASE Lookup(r) \/ GetCounter(r)
    <3>1. count' = count
      BY <2>3 DEF Lookup, GetCounter
    <3>2. req'[r].pc \in {"counter", "count"} /\ req'[r].status = req[r].status
            /\ req[r].pc \in {"lookup", "counter"}
      BY <2>3, LookupMove, GetCounterMove
    <3>3. req[r].status = 0
      BY <3>2 DEF Base, Shapes, Shape
    <3>4. Unadmitted(r)
      BY <3>2, <3>3 DEF Unadmitted, Admitted, InEntry
    <3> QED
      BY <1>0, <2>0, <3>1, <3>4, BoundsKept
  <2>4. CASE Count(r)
    BY <1>0, <2>4, CountBounds
  <2>5. CASE Reject(r) \/ Deliver(r)
    <3>1. count' = count
      BY <2>5 DEF Reject, Deliver
    <3>2. req[r].pc \in InEntry /\ Same(r)
      BY <2>5, DeliverMove DEF Advanced
    <3>3. Unadmitted(r)
      BY <3>2 DEF Unadmitted, Admitted, InEntry
    <3> QED
      BY <1>0, <2>0, <3>1, <3>3, BoundsKept
  <2>6. CASE GetCached(r) \/ Insert(r) \/ Passes(r)
    <3>1. count' = count
      BY <2>6 DEF GetCached, Insert, Passes, CountLookup, Record, MeterRequest, MeterPii, quotaVars
    <3>2. Within(r)
      BY <2>6, GetCachedMove, InsertMove, PassMove
    <3>3. Unadmitted(r)
      BY <3>2 DEF Within, Unadmitted, Admitted, InEntry
    <3> QED
      BY <1>0, <2>0, <3>1, <3>3, BoundsKept
  <2> QED
    BY <1>1, <2>1, <2>2, <2>3, <2>4, <2>5, <2>6 DEF Acts
<1>2. ASSUME req' = req, count' = count PROVE CounterBounds'
  BY <1>2 DEF CounterBounds, Users, Admitted
<1>3. ASSUME NEW t \in Tenants, Refill(t) \/ ExpireCounter(t) PROVE CounterBounds'
  BY <1>2, <1>3, AsideStep
<1>4. ASSUME NEW k \in Words, Evict(k) PROVE CounterBounds'
  BY <1>2, <1>4, AsideStep
<1>5. CASE Enrich \/ UNCHANGED vars
  BY <1>2, <1>5, AsideStep
<1> QED
  BY <1>1, <1>3, <1>4, <1>5, StepCases

LEMMA QuotaStart == Init => CounterBounds
<1> SUFFICES ASSUME Init, NEW t \in Tenants, NEW w \in 1..MaxWindows, NEW l \in Nat
             PROVE  Cardinality(Users(t, w, l)) <= l /\ Cardinality(Users(t, w, l)) <= count[t][w]
  BY DEF CounterBounds
<1>1. \A r \in Requests : req[r].pc = "idle" /\ req[r].status = 0
  BY IdleType DEF Init
<1>2. Users(t, w, l) = {}
  BY <1>1 DEF Users, Admitted
<1>3. Cardinality(Users(t, w, l)) = 0
  BY <1>2, FS_EmptySet
<1>4. count[t][w] = 0
  BY DEF Init
<1> QED
  BY <1>3, <1>4

(* Whatever the limits of requests that share a counter, however they       *)
(* interleave and whenever the cache drops a counter: of those with a limit *)
(* of at most l, check_and_increment() lets at most l pass.                 *)
THEOREM QuotaKept == Spec => []QuotaHolds
<1>1. CounterBounds => QuotaHolds
  <2>1. Limits \cup {DefaultLimit} \subseteq Nat
    BY LimitsAssumption
  <2> QED
    BY <2>1 DEF CounterBounds, QuotaHolds, Users
<1> QED
  BY <1>1, BaseStart, BaseStep, QuotaStart, QuotaStep, PTL DEF Spec

-----------------------------------------------------------------------------
(* The entries.  The records stored are exactly those of the entries that   *)
(* the requests have passed, one for each well-formed one, and everything   *)
(* that is handed on - by the cache, by a request, by the sink - is the     *)
(* redaction of a message received with the same key.                       *)

\* The entries that the request has passed.
Passed(r) == IF req[r].status = 202 THEN 1..req[r].next ELSE 1..(req[r].next - 1)
EntryAt(r, n) == req[r].body.entries[n]

StoredOnce ==
  /\ \A s \in sink : \E r \in Requests : \E n \in Passed(r) :
       s.id = <<r, n>> /\ valid_entry(EntryAt(r, n))
  /\ \A r \in Requests : \A n \in Passed(r) : valid_entry(EntryAt(r, n)) => \E s \in sink : s.id = <<r, n>>
  /\ \A s, u \in sink : s.id = u.id => s = u

BgpChecked ==
  /\ checked = exported
  /\ \A x \in exported : \E r \in Requests : \E n \in Passed(r) :
       x = <<r, n>> /\ valid_entry(EntryAt(r, n)) /\ extract_bgp_record(EntryAt(r, n))
  /\ \A r \in Requests : \A n \in Passed(r) :
       valid_entry(EntryAt(r, n)) /\ extract_bgp_record(EntryAt(r, n)) => <<r, n>> \in exported

\* x is the redaction of a message received with the key k.
Redacted(k, x) == \E m \in Received : make_key(m) = k /\ x = redact(m)

CacheRedacted == \A k \in Words : cache[k] # NoText => Redacted(k, cache[k])
FoundRedacted ==
  \A r \in Requests : HasText(req[r]) =>
                        Redacted(make_key(entry(r).msg), req[r].found)
SinkRedacted ==
  \A s \in sink : \E m \in Received : make_key(m) = make_key(s.msg) /\ s.text = redact(m).text

EntriesInd == StoredOnce /\ BgpChecked /\ CacheRedacted /\ FoundRedacted /\ SinkRedacted

\* What a step that passes no entry leaves alone.
Stays(p) == Passed(p)' = Passed(p) /\ \A n \in Passed(p) : EntryAt(p, n)' = EntryAt(p, n)

LEMMA OthersStay ==
  ASSUME NEW r \in Requests, Others(r) PROVE \A p \in Requests \ {r} : Stays(p)
  BY DEF Others, Stays, Passed, EntryAt

\* A request that has passed none.
LEMMA NonePassed ==
  ASSUME NEW r, req[r].next = 1, req[r].status # 202 PROVE Passed(r) = {}
<1>1. Passed(r) = 1..(req[r].next - 1)
  BY DEF Passed
<1>2. 1..(req[r].next - 1) = 1..(1 - 1)
  OBVIOUS
<1> QED
  BY <1>1, <1>2

LEMMA RequestStays ==
  ASSUME Base, Base', NEW r \in Requests, Acts(r), ~Reject(r), ~Deliver(r)
  PROVE  Stays(r)
<1>1. ASSUME req[r].next = 1, req[r].status # 202, req'[r].next = 1, req'[r].status # 202
      PROVE  Stays(r)
  <2>1. Passed(r) = {}
    BY <1>1, NonePassed
  <2>2. Passed(r)' = {}
    <3>1. Passed(r)' = 1..(1 - 1)
      BY <1>1 DEF Passed
    <3> QED
      BY <3>1
  <2> QED
    BY <2>1, <2>2 DEF Stays
<1>2. ASSUME req[r].pc \notin InEntry, req[r].pc # "done" PROVE req[r].next = 1 /\ req[r].status # 202
  BY <1>2 DEF Base, Shapes, Shape
<1>3. ASSUME req'[r].next = req[r].next, req'[r].status = req[r].status, req'[r].body = req[r].body
      PROVE  Stays(r)
  BY <1>3 DEF Stays, Passed, EntryAt
<1>4. CASE Refused(r) \/ Accepted(r)
  <2>1. /\ req'[r].next = 1 /\ req'[r].status # 202 /\ req[r].pc \in {"idle", "count"}
    BY <1>4 DEF Refused, Accepted, Refusals
  <2> QED
    BY <1>1, <1>2, <2>1 DEF InEntry
<1>5. CASE Within(r)
  <2>1. req'[r].next = req[r].next /\ req'[r].status = 0 /\ req'[r].body = req[r].body
    BY <1>5 DEF Within, Same
  <2>2. req[r].status = 0
    BY <1>5, EntryFacts DEF Within
  <2> QED
    BY <1>3, <2>1, <2>2
<1>6. CASE RefuseTenant(r)
  BY <1>4, <1>6, RefuseTenantMove
<1>7. CASE \E t \in Tenants, b \in Bodies : Arrive(r, t, b)
  BY <1>4, <1>7, ArriveMove
<1>8. CASE Lookup(r)
  BY <1>3, <1>8, LookupMove
<1>9. CASE GetCounter(r)
  BY <1>3, <1>9, GetCounterMove
<1>10. CASE Count(r)
  <2>1. req[r].pc = "count" /\ (Refused(r) \/ (req'[r].next = 1 /\ req'[r].status = 0))
    BY <1>10, CountMove
  <2>2. CASE req'[r].next = 1 /\ req'[r].status = 0
    BY <1>1, <1>2, <2>1, <2>2 DEF InEntry
  <2> QED
    BY <1>4, <2>1, <2>2
<1>11. CASE GetCached(r) \/ Insert(r) \/ Passes(r)
  BY <1>5, <1>11, GetCachedMove, InsertMove, PassMove
<1> QED
  BY <1>6, <1>7, <1>8, <1>9, <1>10, <1>11 DEF Acts

\* A step that passes no entry stores none.
LEMMA StoredKept ==
  ASSUME StoredOnce, BgpChecked, \A p \in Requests : Stays(p),
         sink' = sink, exported' = exported, checked' = checked
  PROVE  StoredOnce' /\ BgpChecked'
<1>1. StoredOnce'
  BY DEF StoredOnce, Stays
<1>2. BgpChecked'
  BY DEF BgpChecked, Stays
<1> QED
  BY <1>1, <1>2

\* One that passes an entry passes the next one.
LEMMA OnePassed ==
  ASSUME Base, NEW r \in Requests, Reject(r) \/ Deliver(r)
  PROVE  /\ Passed(r)' = Passed(r) \cup {req[r].next} /\ req[r].next \notin Passed(r)
         /\ \A n \in Passed(r)' : EntryAt(r, n)' = EntryAt(r, n)
         /\ EntryAt(r, req[r].next) = entry(r)
<1>1. /\ Advanced(r) /\ req[r].status = 0 /\ req[r].next \in Nat /\ req[r].next >= 1
  <2>1. Advanced(r) /\ req[r].pc \in InEntry
    BY DeliverMove
  <2> QED
    BY <2>1, EntryFacts
<1>2. Passed(r) = 1..(req[r].next - 1)
  BY <1>1 DEF Passed
<1>3. Passed(r)' = 1..req[r].next
  <2>1. CASE req'[r].status = 0 /\ req'[r].next = req[r].next + 1
    <3>1. Passed(r)' = 1..((req[r].next + 1) - 1)
      BY <2>1 DEF Passed
    <3> QED
      BY <1>1, <3>1
  <2>2. CASE req'[r].status = 202 /\ req'[r].next = req[r].next
    BY <2>2 DEF Passed
  <2> QED
    BY <1>1, <2>1, <2>2 DEF Advanced
<1>4. req'[r].body = req[r].body
  BY <1>1 DEF Advanced, Same
<1>5. 1..req[r].next = 1..(req[r].next - 1) \cup {req[r].next}
        /\ req[r].next \notin 1..(req[r].next - 1)
  <2> DEFINE n == req[r].next
  <2>1. n \in Nat /\ n >= 1
    BY <1>1
  <2> HIDE DEF n
  <2>2. 1..n = 1..(n - 1) \cup {n} /\ n \notin 1..(n - 1)
    BY <2>1
  <2> QED
    BY <2>2 DEF n
<1> QED
  BY <1>2, <1>3, <1>4, <1>5 DEF EntryAt, entry

LEMMA RejectStores ==
  ASSUME Base, StoredOnce, BgpChecked, NEW r \in Requests, Reject(r)
  PROVE  StoredOnce' /\ BgpChecked'
<1>1. /\ sink' = sink /\ exported' = exported /\ checked' = checked /\ ~valid_entry(entry(r))
  BY DEF Reject, outVars
<1>2. \A p \in Requests \ {r} : Stays(p)
  BY DeliverMove, OthersStay
<1> DEFINE k == req[r].next
<1>3. /\ Passed(r)' = Passed(r) \cup {k} /\ k \notin Passed(r)
      /\ \A n \in Passed(r)' : EntryAt(r, n)' = EntryAt(r, n)
      /\ EntryAt(r, k) = entry(r)
  BY OnePassed
<1>4. \A p \in Requests : Passed(p) \subseteq Passed(p)' /\ \A n \in Passed(p)' : EntryAt(p, n)' = EntryAt(p, n)
  BY <1>2, <1>3 DEF Stays
<1>5. \A p \in Requests : \A n \in Passed(p)' : n \in Passed(p) \/ ~valid_entry(EntryAt(p, n))
  BY <1>1, <1>2, <1>3 DEF Stays
<1> HIDE DEF k
<1>6. StoredOnce'
  BY <1>1, <1>4, <1>5 DEF StoredOnce
<1>7. BgpChecked'
  BY <1>1, <1>4, <1>5 DEF BgpChecked
<1> QED
  BY <1>6, <1>7

\* A record is stored when the request passes its entry.
LEMMA NotStoredYet ==
  ASSUME Base, StoredOnce, NEW r \in Requests, Deliver(r)
  PROVE  \A u \in sink : u.id # <<r, req[r].next>>
<1>0. PICK k : k = req[r].next
  OBVIOUS
<1>1. k \notin Passed(r)
  BY <1>0, OnePassed
<1> SUFFICES ASSUME NEW u \in sink, u.id = <<r, k>> PROVE FALSE
  BY <1>0
<1>2. PICK p \in Requests : \E n \in Passed(p) : u.id = <<p, n>>
  BY DEF StoredOnce
<1>3. PICK n \in Passed(p) : u.id = <<p, n>>
  BY <1>2
<1>4. p = r /\ n = k
  BY <1>3
<1> QED
  BY <1>1, <1>3, <1>4

LEMMA DeliverStores ==
  ASSUME Base, StoredOnce, BgpChecked, NEW r \in Requests, Deliver(r)
  PROVE  StoredOnce' /\ BgpChecked'
<1>0. PICK k : k = req[r].next
  OBVIOUS
<1> DEFINE id == <<r, k>>
           e == entry(r)
           rec == [id |-> id, tenant |-> req[r].tenant, msg |-> e.msg,
                   text |-> req[r].found.text, pii |-> req[r].found.hits, hit |-> req[r].hit]
<1>1. /\ sink' = sink \cup {rec}
      /\ exported' = IF extract_bgp_record(e) THEN exported \cup {id} ELSE exported
      /\ checked' = IF extract_bgp_record(e) THEN checked \cup {id} ELSE checked
      /\ req[r].pc = "deliver"
  BY <1>0 DEF Deliver
<1>2. valid_entry(e)
  <2>1. e \in Entry
    BY <1>1, EntryFacts DEF Shape, InEntry, entry
  <2> QED
    BY <2>1, ValidIsEntry
<1>3. \A p \in Requests \ {r} : Stays(p)
  BY DeliverMove, OthersStay
<1>4. /\ Passed(r)' = Passed(r) \cup {k} /\ k \notin Passed(r)
      /\ \A n \in Passed(r)' : EntryAt(r, n)' = EntryAt(r, n)
      /\ EntryAt(r, k) = e
  BY <1>0, OnePassed
<1>5. \A p \in Requests : Passed(p) \subseteq Passed(p)' /\ \A n \in Passed(p)' : EntryAt(p, n)' = EntryAt(p, n)
  BY <1>3, <1>4 DEF Stays
<1>6. \A p \in Requests : \A n \in Passed(p)' : n \in Passed(p) \/ (p = r /\ n = k)
  BY <1>3, <1>4 DEF Stays
<1>7. rec.id = id
  OBVIOUS
<1> HIDE DEF rec
<1>8. \A u \in sink : u.id # id
  BY <1>0, NotStoredYet
<1>9. k \in Passed(r)' /\ EntryAt(r, k)' = e
  BY <1>4
<1> HIDE DEF e
<1>10. StoredOnce'
  <2>1. ASSUME NEW u \in sink' PROVE \E p \in Requests : \E n \in Passed(p)' : u.id = <<p, n>> /\ valid_entry(EntryAt(p, n)')
    <3>1. CASE u \in sink
      BY <1>5, <3>1 DEF StoredOnce
    <3>2. CASE u = rec
      BY <1>2, <1>7, <1>9, <3>2
    <3> QED
      BY <1>1, <2>1, <3>1, <3>2
  <2>2. ASSUME NEW p \in Requests, NEW n \in Passed(p)', valid_entry(EntryAt(p, n)')
        PROVE  \E u \in sink' : u.id = <<p, n>>
    <3>1. CASE n \in Passed(p)
      BY <1>1, <1>5, <2>2, <3>1 DEF StoredOnce
    <3>2. CASE p = r /\ n = k
      BY <1>1, <1>7, <3>2
    <3> QED
      BY <1>6, <3>1, <3>2
  <2>3. ASSUME NEW u \in sink', NEW v \in sink', u.id = v.id PROVE u = v
    BY <1>1, <1>7, <1>8, <2>3 DEF StoredOnce
  <2> QED
    BY <2>1, <2>2, <2>3 DEF StoredOnce, valid_entry
<1>11. BgpChecked'
  <2>1. checked' = exported'
    BY <1>1 DEF BgpChecked
  <2>2. ASSUME NEW x \in exported'
        PROVE  \E p \in Requests : \E n \in Passed(p)' :
                 x = <<p, n>> /\ valid_entry(EntryAt(p, n)') /\ extract_bgp_record(EntryAt(p, n)')
    <3>1. CASE x \in exported
      BY <1>5, <3>1 DEF BgpChecked
    <3>2. CASE x \notin exported
      <4>1. x = id /\ extract_bgp_record(e)
        BY <1>1, <2>2, <3>2
      <4> QED
        BY <1>2, <1>9, <4>1
    <3> QED
      BY <3>1, <3>2
  <2>3. ASSUME NEW p \in Requests, NEW n \in Passed(p)',
               valid_entry(EntryAt(p, n)'), extract_bgp_record(EntryAt(p, n)')
        PROVE  <<p, n>> \in exported'
    <3>1. CASE n \in Passed(p)
      <4>1. <<p, n>> \in exported
        BY <1>5, <2>3, <3>1 DEF BgpChecked
      <4> QED
        BY <1>1, <4>1
    <3>2. CASE p = r /\ n = k
      <4>1. extract_bgp_record(e)
        BY <1>9, <2>3, <3>2
      <4> QED
        BY <1>1, <3>2, <4>1
    <3> QED
      BY <1>6, <3>1, <3>2
  <2> QED
    BY <2>1, <2>2, <2>3 DEF BgpChecked, valid_entry, extract_bgp_record
<1> QED
  BY <1>10, <1>11

\* Nothing that was received is forgotten.
LEMMA ReceivedGrows ==
  ASSUME Base, NEW r \in Requests, Acts(r) PROVE Received \subseteq Received'
<1>1. Others(r)
  BY ActBase
<1>2. req'[r].body = req[r].body \/ req[r].body.entries = <<>>
  <2>1. ASSUME req[r].pc = "idle" PROVE req[r].body.entries = <<>>
    <3>1. req[r] = Idle
      BY <2>1 DEF Base, Shapes, Shape
    <3> QED
      BY <3>1, IdleType DEF Garbage
  <2>2. CASE RefuseTenant(r) \/ \E t \in Tenants, b \in Bodies : Arrive(r, t, b)
    BY <2>1, <2>2 DEF RefuseTenant, Arrive
  <2>3. CASE Lookup(r) \/ GetCounter(r)
    BY <2>3, LookupMove, GetCounterMove
  <2>4. CASE Count(r)
    BY <2>4, CountMove DEF Refused, Same
  <2>5. CASE Reject(r) \/ Deliver(r)
    BY <2>5, DeliverMove DEF Advanced, Same
  <2>6. CASE GetCached(r) \/ Insert(r) \/ Passes(r)
    <3>1. Within(r)
      BY <2>6, GetCachedMove, InsertMove, PassMove
    <3> QED
      BY <3>1 DEF Within, Same
  <2> QED
    BY <2>2, <2>3, <2>4, <2>5, <2>6 DEF Acts
<1> SUFFICES ASSUME NEW m \in Received PROVE m \in Received'
  OBVIOUS
<1>3. PICK p \in Requests : \E n \in DOMAIN req[p].body.entries :
        req[p].body.entries[n] = [valid |-> TRUE, msg |-> m]
  BY DEF Received
<1>4. m \in Message
  BY DEF Received
<1>5. req'[p].body = req[p].body
  <2>1. req[p].body.entries # <<>>
    BY <1>3
  <2> QED
    BY <1>1, <1>2, <2>1 DEF Others
<1> QED
  BY <1>3, <1>4, <1>5 DEF Received

\* A message that a request is at has been received.
LEMMA AtReceived ==
  ASSUME Base, NEW r \in Requests, req[r].pc \in InEntry, entry(r) \in Entry
  PROVE  entry(r).msg \in Received /\ make_key(entry(r).msg) \in Words
<1>1. req[r].next \in DOMAIN req[r].body.entries
  BY EntryFacts
<1>2. entry(r).msg \in Message /\ entry(r) = [valid |-> TRUE, msg |-> entry(r).msg]
  BY ValidIsEntry
<1>3. make_key(entry(r).msg) \in Words
  BY <1>2 DEF make_key, Message
<1> QED
  BY <1>1, <1>2, <1>3 DEF Received, entry

LEMMA RedactedKept ==
  ASSUME Received \subseteq Received', NEW k, NEW x, Redacted(k, x) PROVE Redacted(k, x)'
  BY DEF Redacted, redact, make_key

LEMMA EntryKept ==
  ASSUME NEW r \in Requests, Within(r) PROVE entry(r)' = entry(r)
  BY DEF Within, Same, entry

\* What a request has found is redacted, if the request was the one to move.
LEMMA FoundStep ==
  ASSUME Base, CacheRedacted, FoundRedacted, NEW r \in Requests, Acts(r),
         Received \subseteq Received', HasText(req'[r])
  PROVE  Redacted(make_key(entry(r).msg), req[r].found)'
<1>1. GetCached(r) \/ Insert(r) \/ Passes(r)
  <2>1. ~(RefuseTenant(r) \/ \E t \in Tenants, b \in Bodies : Arrive(r, t, b))
    BY RefuseTenantMove, ArriveMove DEF Refused, Accepted, HasText, Accounted
  <2>2. ~(Lookup(r) \/ GetCounter(r) \/ Count(r))
    BY LookupMove, GetCounterMove, CountMove DEF Refused, HasText, Accounted
  <2>3. ~(Reject(r) \/ Deliver(r))
    BY DeliverMove DEF Advanced, HasText, Accounted
  <2> QED
    BY <2>1, <2>2, <2>3 DEF Acts
<1>2. Within(r)
  BY <1>1, GetCachedMove, InsertMove, PassMove
<1>3. PICK k : k = make_key(entry(r).msg)
  OBVIOUS
<1>4. PICK x : x = req'[r].found
  OBVIOUS
<1>5. make_key(entry(r).msg)' = k
  BY <1>2, <1>3, EntryKept DEF make_key
<1>6. Redacted(k, x)
  <2>1. CASE GetCached(r)
    <3>1. req'[r].found = cache[k] /\ cache[k] # NoText /\ k \in Words
      BY <1>3, <2>1, GetCachedMove DEF HasText, Accounted
    <3> QED
      BY <1>4, <3>1 DEF CacheRedacted
  <2>2. CASE Insert(r)
    <3>1. entry(r) \in Entry /\ req[r].pc \in InEntry /\ x = redact(entry(r).msg)
      BY <1>4, <2>2, InsertMove DEF InEntry
    <3>2. entry(r).msg \in Received
      BY <3>1, AtReceived
    <3> QED
      BY <1>3, <3>1, <3>2 DEF Redacted
  <2>3. CASE Passes(r)
    <3>1. /\ req[r].pc \in {"tally", "record", "meter", "meter_pii"} /\ x = req[r].found
          /\ req'[r].pc = Onward(req[r]) /\ req'[r].hit = req[r].hit
      BY <1>4, <2>3, PassMove
    <3>2. HasText(req[r])
      BY <3>1 DEF HasText, Accounted, Onward
    <3> QED
      BY <1>3, <3>1, <3>2 DEF FoundRedacted
  <2> QED
    BY <1>1, <2>1, <2>2, <2>3
<1>7. Redacted(k, x)'
  BY <1>6, RedactedKept
<1> QED
  BY <1>4, <1>5, <1>7 DEF Redacted

LEMMA RedactStep ==
  ASSUME Base, CacheRedacted, FoundRedacted, SinkRedacted, NEW r \in Requests, Acts(r)
  PROVE  CacheRedacted' /\ FoundRedacted' /\ SinkRedacted'
<1>0. Received \subseteq Received' /\ Others(r)
  BY ReceivedGrows, ActBase
<1>1. CacheRedacted'
  <2>1. CASE Insert(r)
    <3>1. PICK m : m = entry(r).msg
      OBVIOUS
    <3>2. /\ m \in Message /\ entry(r) \in Entry /\ req[r].pc \in InEntry
          /\ cache' = [cache EXCEPT ![make_key(m)] = redact(m)]
      BY <2>1, <3>1, InsertMove DEF InEntry
    <3>3. m \in Received'
      BY <1>0, <3>1, <3>2, AtReceived
    <3> SUFFICES ASSUME NEW k \in Words, cache'[k] # NoText PROVE Redacted(k, cache[k])'
      BY DEF CacheRedacted
    <3>4. CASE k = make_key(m)
      <4>1. cache'[k] = redact(m)
        BY <3>2, <3>4 DEF Base, SharedTypes
      <4> QED
        BY <3>3, <3>4, <4>1 DEF Redacted, make_key, redact
    <3>5. CASE k # make_key(m)
      <4>1. cache'[k] = cache[k]
        BY <3>2, <3>5 DEF Base, SharedTypes
      <4>2. PICK x : x = cache[k]
        OBVIOUS
      <4>3. Redacted(k, x)'
        BY <1>0, <4>1, <4>2, RedactedKept DEF CacheRedacted
      <4> QED
        BY <4>1, <4>2, <4>3 DEF Redacted
    <3> QED
      BY <3>4, <3>5
  <2>2. CASE ~Insert(r)
    <3>1. cache' = cache
      BY <2>2 DEF Acts, RefuseTenant, Arrive, Lookup, GetCounter, Count, Reject, GetCached, Passes,
                  CountLookup, Record, MeterRequest, MeterPii, Deliver, cacheVars
    <3> SUFFICES ASSUME NEW k \in Words, cache[k] # NoText PROVE Redacted(k, cache[k])'
      BY <3>1 DEF CacheRedacted
    <3>2. PICK x : x = cache[k]
      OBVIOUS
    <3>3. Redacted(k, x)'
      BY <1>0, <3>2, RedactedKept DEF CacheRedacted
    <3> QED
      BY <3>1, <3>2, <3>3 DEF Redacted
  <2> QED
    BY <2>1, <2>2
<1>2. FoundRedacted'
  <2> SUFFICES ASSUME NEW p \in Requests, HasText(req'[p])
               PROVE  Redacted(make_key(entry(p).msg), req[p].found)'
    BY DEF FoundRedacted, HasText
  <2>1. CASE p = r
    BY <1>0, <2>1, FoundStep
  <2>2. CASE p # r
    <3>1. req'[p] = req[p]
      BY <1>0, <2>2 DEF Others
    <3>2. PICK k, x : k = make_key(entry(p).msg) /\ x = req[p].found
      OBVIOUS
    <3>3. Redacted(k, x)'
      BY <1>0, <3>1, <3>2, RedactedKept DEF FoundRedacted
    <3>4. make_key(entry(p).msg)' = k /\ req'[p].found = x
      BY <3>1, <3>2 DEF make_key, entry
    <3> QED
      BY <3>3, <3>4 DEF Redacted
  <2> QED
    BY <2>1, <2>2
<1>3. SinkRedacted'
  <2> SUFFICES ASSUME NEW u \in sink'
               PROVE  \E m \in Received' : make_key(m) = make_key(u.msg) /\ u.text = redact(m).text
    BY DEF SinkRedacted, make_key, redact
  <2>1. CASE u \in sink
    BY <1>0, <2>1 DEF SinkRedacted
  <2>2. CASE u \notin sink
    <3>1. Deliver(r)
      BY <2>2 DEF Acts, RefuseTenant, Arrive, Lookup, GetCounter, Count, Reject, GetCached, Insert,
                  Passes, CountLookup, Record, MeterRequest, MeterPii, outVars
    <3>2. u.msg = entry(r).msg /\ u.text = req[r].found.text /\ req[r].pc = "deliver"
      BY <2>2, <3>1 DEF Deliver
    <3>4. HasText(req[r])
      BY <3>2 DEF HasText, Accounted
    <3>3. PICK m \in Received : make_key(m) = make_key(entry(r).msg) /\ req[r].found = redact(m)
      BY <3>4 DEF FoundRedacted, Redacted
    <3> QED
      BY <1>0, <3>2, <3>3
  <2> QED
    BY <2>1, <2>2
<1> QED
  BY <1>1, <1>2, <1>3

LEMMA EntriesStep == Base /\ EntriesInd /\ [Next]_vars => EntriesInd'
<1> SUFFICES ASSUME Base, EntriesInd, [Next]_vars PROVE EntriesInd'
  OBVIOUS
<1>0. Base'
  BY BaseStep
<1>1. ASSUME NEW r \in Requests, Acts(r) PROVE EntriesInd'
  <2>1. CacheRedacted' /\ FoundRedacted' /\ SinkRedacted'
    BY <1>1, RedactStep DEF EntriesInd
  <2>2. StoredOnce' /\ BgpChecked'
    <3>1. CASE Reject(r)
      BY <3>1, RejectStores DEF EntriesInd
    <3>2. CASE Deliver(r)
      BY <3>2, DeliverStores DEF EntriesInd
    <3>3. CASE ~Reject(r) /\ ~Deliver(r)
      <4>1. \A p \in Requests : Stays(p)
        BY <1>0, <1>1, <3>3, ActBase, OthersStay, RequestStays
      <4>2. sink' = sink /\ exported' = exported /\ checked' = checked
        BY <1>1, <3>3 DEF Acts, RefuseTenant, Arrive, Lookup, GetCounter, Count, GetCached, Insert,
                          Passes, CountLookup, Record, MeterRequest, MeterPii, outVars
      <4> QED
        BY <4>1, <4>2, StoredKept DEF EntriesInd
    <3> QED
      BY <3>1, <3>2, <3>3
  <2> QED
    BY <2>1, <2>2 DEF EntriesInd
<1>2. ASSUME req' = req, sink' = sink, exported' = exported, checked' = checked,
             \A x \in Words : cache'[x] \in {cache[x], NoText}
      PROVE  EntriesInd'
  <2>1. Received' = Received
    BY <1>2 DEF Received
  <2>2. \A k, x : Redacted(k, x) => Redacted(k, x)'
    BY <2>1, RedactedKept
  <2>3. StoredOnce' /\ BgpChecked'
    BY <1>2, StoredKept DEF EntriesInd, Stays, Passed, EntryAt
  <2>4. CacheRedacted'
    <3> SUFFICES ASSUME NEW k \in Words, cache'[k] # NoText PROVE Redacted(k, cache[k])'
      BY DEF CacheRedacted
    <3>1. cache'[k] = cache[k]
      BY <1>2
    <3>2. PICK x : x = cache[k]
      OBVIOUS
    <3>3. Redacted(k, x)'
      BY <2>2, <3>1, <3>2 DEF EntriesInd, CacheRedacted
    <3> QED
      BY <3>1, <3>2, <3>3 DEF Redacted
  <2>5. FoundRedacted'
    BY <1>2, <2>1 DEF EntriesInd, FoundRedacted, Redacted, entry, HasText
  <2>6. SinkRedacted'
    BY <1>2, <2>1 DEF EntriesInd, SinkRedacted
  <2> QED
    BY <2>3, <2>4, <2>5, <2>6 DEF EntriesInd
<1>3. ASSUME NEW t \in Tenants, Refill(t) \/ ExpireCounter(t) PROVE EntriesInd'
  BY <1>2, <1>3, AsideStep
<1>4. ASSUME NEW k \in Words, Evict(k) PROVE EntriesInd'
  BY <1>2, <1>4, AsideStep
<1>5. CASE Enrich \/ UNCHANGED vars
  BY <1>2, <1>5, AsideStep
<1> QED
  BY <1>1, <1>3, <1>4, <1>5, StepCases

LEMMA EntriesStart == Init => EntriesInd
<1> SUFFICES ASSUME Init PROVE EntriesInd
  OBVIOUS
<1>1. \A r \in Requests : req[r].pc = "idle" /\ req[r].status = 0 /\ req[r].next = 1
  BY IdleType DEF Init
<1>2. \A r \in Requests : Passed(r) = {}
  BY <1>1, NonePassed
<1>3. sink = {} /\ exported = {} /\ checked = {} /\ \A k \in Words : cache[k] = NoText
  BY DEF Init
<1>4. StoredOnce /\ BgpChecked
  BY <1>2, <1>3 DEF StoredOnce, BgpChecked
<1>5. CacheRedacted /\ FoundRedacted /\ SinkRedacted
  BY <1>1, <1>3 DEF CacheRedacted, FoundRedacted, SinkRedacted, HasText, Accounted
<1> QED
  BY <1>4, <1>5 DEF EntriesInd

(* For every number of concurrent requests and every cache: each            *)
(* well-formed entry of an accepted request is stored, exported and checked *)
(* once, and what is stored was redacted, perhaps for another request.      *)
THEOREM EveryEntryStored == Spec => []EntriesStored
<1>1. Base /\ EntriesInd => EntriesStored
  <2> SUFFICES ASSUME Base, EntriesInd PROVE EntriesStored
    OBVIOUS
  <2>1. ASSUME NEW r \in Requests, req[r].status = 202, NEW n \in DOMAIN req[r].body.entries
        PROVE  /\ Cardinality({u \in sink : u.id = <<r, n>>})
                    = (IF valid_entry(EntryAt(r, n)) THEN 1 ELSE 0)
               /\ <<r, n>> \in exported <=> valid_entry(EntryAt(r, n)) /\ extract_bgp_record(EntryAt(r, n))
               /\ <<r, n>> \in checked <=> <<r, n>> \in exported
    <3>1. n \in Passed(r)
      <4>1. req[r] \in Request /\ req[r].next = Len(req[r].body.entries)
        BY <2>1 DEF Base, RequestTypes, Shapes, Shape
      <4>2. req[r].body.entries \in Seq(Entry \cup {Malformed})
        BY <4>1, EntriesType DEF Request
      <4> QED
        BY <2>1, <4>1, <4>2 DEF Passed
    <3> DEFINE U == {u \in sink : u.id = <<r, n>>}
    <3>2. CASE valid_entry(EntryAt(r, n))
      <4>1. PICK u \in sink : u.id = <<r, n>>
        BY <3>1, <3>2 DEF EntriesInd, StoredOnce
      <4>2. U = {u}
        BY <4>1 DEF EntriesInd, StoredOnce
      <4>3. Cardinality(U) = 1
        BY <4>2, FS_Singleton
      <4>4. <<r, n>> \in exported <=> extract_bgp_record(EntryAt(r, n))
        <5>1. ASSUME <<r, n>> \in exported PROVE extract_bgp_record(EntryAt(r, n))
          <6>1. PICK p \in Requests : \E k \in Passed(p) :
                  <<r, n>> = <<p, k>> /\ extract_bgp_record(EntryAt(p, k))
            BY <5>1 DEF EntriesInd, BgpChecked
          <6> QED
            BY <6>1
        <5>2. ASSUME extract_bgp_record(EntryAt(r, n)) PROVE <<r, n>> \in exported
          BY <3>1, <3>2, <5>2 DEF EntriesInd, BgpChecked
        <5> QED
          BY <5>1, <5>2
      <4> QED
        BY <3>2, <4>3, <4>4 DEF EntriesInd, BgpChecked
    <3>3. CASE ~valid_entry(EntryAt(r, n))
      <4>1. U = {}
        <5> SUFFICES ASSUME NEW u \in sink, u.id = <<r, n>> PROVE FALSE
          OBVIOUS
        <5>1. PICK p \in Requests : \E k \in Passed(p) : u.id = <<p, k>> /\ valid_entry(EntryAt(p, k))
          BY DEF EntriesInd, StoredOnce
        <5> QED
          BY <3>3, <5>1
      <4>2. Cardinality(U) = 0
        BY <4>1, FS_EmptySet
      <4>3. <<r, n>> \notin exported
        <5> SUFFICES ASSUME <<r, n>> \in exported PROVE FALSE
          OBVIOUS
        <5>1. PICK p \in Requests : \E k \in Passed(p) :
                <<r, n>> = <<p, k>> /\ valid_entry(EntryAt(p, k))
          BY DEF EntriesInd, BgpChecked
        <5> QED
          BY <3>3, <5>1
      <4> QED
        BY <3>3, <4>2, <4>3 DEF EntriesInd, BgpChecked
    <3> QED
      BY <3>2, <3>3
  <2>2. \A u \in sink : \E m \in Received : make_key(m) = make_key(u.msg) /\ u.text = redact(m).text
    BY DEF EntriesInd, SinkRedacted
  <2> QED
    BY <2>1, <2>2 DEF EntriesStored, EntryAt
<1> QED
  BY <1>1, BaseStart, BaseStep, EntriesStart, EntriesStep, PTL DEF Spec

-----------------------------------------------------------------------------
(* Sums.  A sum is the size of a union of disjoint pieces.                  *)

Piece(x, f) == {x} \X (1..f[x])
Pieces(S, f) == UNION {Piece(x, f) : x \in S}

LEMMA PiecesOf ==
  ASSUME NEW S, NEW f
  PROVE  \A z : z \in Pieces(S, f) <=> \E x \in S : z \in Piece(x, f)
  BY DEF Pieces

LEMMA PieceSize ==
  ASSUME NEW x, NEW f, f[x] \in Nat
  PROVE  IsFiniteSet(Piece(x, f)) /\ Cardinality(Piece(x, f)) = f[x]
<1> DEFINE n == f[x]
<1>1. n \in Nat
  OBVIOUS
<1> HIDE DEF n
<1>2. IsFiniteSet(1..n) /\ Cardinality(1..n) = n
  BY <1>1, FS_Interval
<1>3. IsFiniteSet({x}) /\ Cardinality({x}) = 1
  BY FS_Singleton
<1>4. IsFiniteSet({x} \X (1..n)) /\ Cardinality({x} \X (1..n)) = 1 * Cardinality(1..n)
  BY <1>2, <1>3, FS_Product
<1>5. 1 * Cardinality(1..n) = n
  BY <1>1, <1>2
<1> QED
  BY <1>4, <1>5 DEF Piece, n

LEMMA SumType ==
  ASSUME NEW S, IsFiniteSet(S), NEW f, \A x \in S : f[x] \in Nat
  PROVE  IsFiniteSet(Pieces(S, f)) /\ SumOver(S, f) = Cardinality(Pieces(S, f)) /\ SumOver(S, f) \in Nat
<1> DEFINE g == [x \in S |-> Piece(x, f)]
           T == {Piece(x, f) : x \in S}
<1>1. IsFiniteSet(T)
  <2>1. g \in Surjection(S, T)
    BY DEF Surjection
  <2> HIDE DEF T, g
  <2> QED
    BY <2>1, FS_Surjection
<1>2. \A p \in T : IsFiniteSet(p)
  BY PieceSize
<1>3. IsFiniteSet(UNION T)
  <2> HIDE DEF T
  <2> QED
    BY <1>1, <1>2, FS_UNION
<1>4. IsFiniteSet(Pieces(S, f))
  BY <1>3 DEF Pieces
<1>5. SumOver(S, f) = Cardinality(Pieces(S, f))
  BY DEF SumOver, Pieces, Piece
<1> QED
  BY <1>4, <1>5, FS_CardinalityType

LEMMA SumEmpty == \A f : SumOver({}, f) = 0
<1> TAKE f
<1>1. UNION {{x} \X (1..f[x]) : x \in {}} = {}
  OBVIOUS
<1> QED
  BY <1>1, FS_EmptySet DEF SumOver

LEMMA SumSame ==
  ASSUME NEW S, NEW f, NEW g, \A x \in S : f[x] = g[x]
  PROVE  SumOver(S, f) = SumOver(S, g)
<1>1. {{x} \X (1..f[x]) : x \in S} = {{x} \X (1..g[x]) : x \in S}
  OBVIOUS
<1> QED
  BY <1>1 DEF SumOver

LEMMA SumPut ==
  ASSUME NEW S, IsFiniteSet(S), NEW x, x \notin S, NEW f, \A y \in S \cup {x} : f[y] \in Nat
  PROVE  SumOver(S \cup {x}, f) = SumOver(S, f) + f[x]
<1> DEFINE P == Pieces(S, f)
           Q == Piece(x, f)
<1>1. IsFiniteSet(S \cup {x})
  BY FS_AddElement
<1>2. SumOver(S \cup {x}, f) = Cardinality(Pieces(S \cup {x}, f))
  BY <1>1, SumType
<1>3. SumOver(S, f) = Cardinality(P) /\ IsFiniteSet(P) /\ Cardinality(P) \in Nat
  BY SumType
<1>4. IsFiniteSet(Q) /\ Cardinality(Q) = f[x] /\ f[x] \in Nat
  BY PieceSize
<1>5. Pieces(S \cup {x}, f) = P \cup Q
  BY DEF Pieces
<1>6. P \cap Q = {}
  <2> SUFFICES ASSUME NEW z \in P, z \in Q PROVE FALSE
    OBVIOUS
  <2>1. PICK y \in S : z \in Piece(y, f)
    BY PiecesOf
  <2> QED
    BY <2>1 DEF Piece
<1> HIDE DEF P, Q
<1>7. Cardinality(P \cup Q) = Cardinality(P) + Cardinality(Q) - Cardinality(P \cap Q)
  BY <1>3, <1>4, FS_Union
<1>8. Cardinality(P \cap Q) = 0
  BY <1>6, FS_EmptySet
<1>9. Cardinality(P \cup Q) = Cardinality(P) + f[x]
  <2> DEFINE n == f[x]
  <2>1. Cardinality(Q) = n /\ n \in Nat
    BY <1>4
  <2> HIDE DEF n
  <2>2. Cardinality(P \cup Q) = Cardinality(P) + n
    BY <1>3, <1>7, <1>8, <2>1
  <2> QED
    BY <2>2 DEF n
<1> QED
  BY <1>2, <1>3, <1>5, <1>9

LEMMA SumChange ==
  ASSUME NEW S, IsFiniteSet(S), NEW x \in S, NEW d \in Nat, NEW f, NEW g,
         \A y \in S : f[y] \in Nat, \A y \in S \ {x} : g[y] = f[y], g[x] = f[x] + d
  PROVE  SumOver(S, g) = SumOver(S, f) + d
<1> DEFINE R == S \ {x}
<1>1. IsFiniteSet(R) /\ x \notin R /\ S = R \cup {x}
  BY FS_RemoveElement
<1>2. \A y \in R \cup {x} : f[y] \in Nat /\ g[y] \in Nat
  OBVIOUS
<1>3. \A y \in R : f[y] = g[y]
  OBVIOUS
<1> HIDE DEF R
<1>4. SumOver(R \cup {x}, f) = SumOver(R, f) + f[x]
  BY <1>1, <1>2, SumPut
<1>5. SumOver(R \cup {x}, g) = SumOver(R, g) + g[x]
  BY <1>1, <1>2, SumPut
<1>6. SumOver(R, f) = SumOver(R, g) /\ SumOver(R, f) \in Nat
  BY <1>1, <1>2, <1>3, SumSame, SumType
<1>7. f[x] \in Nat
  BY <1>1, <1>2
<1> QED
  BY <1>1, <1>4, <1>5, <1>6, <1>7

LEMMA SumTake ==
  ASSUME NEW S, IsFiniteSet(S), NEW x \in S, NEW f, \A y \in S : f[y] \in Nat
  PROVE  SumOver(S, f) = SumOver(S \ {x}, f) + f[x]
<1> DEFINE R == S \ {x}
<1>1. IsFiniteSet(R) /\ x \notin R /\ S = R \cup {x}
  BY FS_RemoveElement
<1> HIDE DEF R
<1>2. SumOver(R \cup {x}, f) = SumOver(R, f) + f[x]
  BY <1>1, SumPut
<1> QED
  BY <1>1, <1>2 DEF R

-----------------------------------------------------------------------------
(* The accounts.  An entry that has passed one of them and not the next is  *)
(* in one of these sets: found or not found and about to be recorded, about *)
(* to be inserted, recorded and about to be metered, recorded and about to  *)
(* be stored.  A step moves one request from one set to another and adds as *)
(* much to the account it passes.                                           *)

Bill(f) == [t \in Tenants |-> costs[t][f]]
RecordingHits == {r \in Requests : req[r].pc = "record" /\ req[r].hit}
RecordingMisses == {r \in Requests : req[r].pc = "record" /\ ~req[r].hit}
Inserting == {r \in Requests : req[r].pc = "insert"}
Stored(t) == {s \in sink : s.tenant = t}
Metering == {r \in Requests : req[r].pc = "meter"}
MeteringPii == {r \in Requests : req[r].pc \in {"meter", "meter_pii"}}
Due(t) == {r \in Requests : req[r].pc \in {"meter", "meter_pii", "deliver"} /\ req[r].tenant = t}
PiiOf(S) == [s \in S |-> s.pii]
HeldOf(S) == [r \in S |-> req[r].found.hits]

AccountTypes ==
  /\ hits \in Nat /\ misses \in Nat /\ costs \in [Tenants -> Stats]
  /\ metrics \in [requests: Nat, pii: Nat, exceeded: Nat, warnings: Nat]
  /\ IsFiniteSet(sink) /\ \A s \in sink : s.pii \in Nat

\* What is about to be inserted was a miss.
InsertMissed == \A r \in Requests : req[r].pc = "insert" => req[r].hit = FALSE

CacheCounts ==
  /\ hits = SumOver(Tenants, Bill("hits")) + Cardinality(RecordingHits)
  /\ misses = SumOver(Tenants, Bill("misses")) + Cardinality(RecordingMisses)
              + Cardinality(Inserting)

Totals ==
  /\ SumOver(Tenants, Bill("requests")) = metrics.requests + Cardinality(Metering)
  /\ SumOver(Tenants, Bill("pii")) = metrics.pii + SumOver(MeteringPii, HeldOf(MeteringPii))

BillOf(t) ==
  /\ costs[t].requests = Cardinality(Stored(t)) + Cardinality(Due(t))
  /\ costs[t].pii = SumOver(Stored(t), PiiOf(Stored(t))) + SumOver(Due(t), HeldOf(Due(t)))

Bills == \A t \in Tenants : BillOf(t)

AccountsInd == AccountTypes /\ InsertMissed /\ CacheCounts /\ Totals /\ Bills

LEMMA RedactionHits == \A x \in Redactions : x.hits \in Nat
<1> SUFFICES ASSUME NEW m \in Message PROVE redact(m).hits \in Nat
  BY DEF Redactions
<1>1. Recognised(m) \subseteq {"iban", "mail"}
  BY DEF Recognised, Personal
<1>2. IsFiniteSet({"iban", "mail"})
  <2>1. IsFiniteSet({"iban"} \cup {"mail"})
    BY FS_Singleton, FS_AddElement
  <2>2. {"iban"} \cup {"mail"} = {"iban", "mail"}
    OBVIOUS
  <2> QED
    BY <2>1, <2>2
<1>3. Cardinality(Recognised(m)) \in Nat
  BY <1>1, <1>2, FS_Subset, FS_CardinalityType
<1> QED
  BY <1>3 DEF redact

LEMMA AccountSets ==
  /\ IsFiniteSet(RecordingHits) /\ Cardinality(RecordingHits) \in Nat
  /\ IsFiniteSet(RecordingMisses) /\ Cardinality(RecordingMisses) \in Nat
  /\ IsFiniteSet(Inserting) /\ Cardinality(Inserting) \in Nat
  /\ IsFiniteSet(Metering) /\ Cardinality(Metering) \in Nat
  /\ IsFiniteSet(MeteringPii) /\ Cardinality(MeteringPii) \in Nat
  /\ \A t : IsFiniteSet(Due(t)) /\ Cardinality(Due(t)) \in Nat
<1>1. \A S \in SUBSET Requests : IsFiniteSet(S) /\ Cardinality(S) \in Nat
  BY FiniteAssumption, FS_Subset, FS_CardinalityType
<1> QED
  BY <1>1 DEF RecordingHits, RecordingMisses, Inserting, Metering, MeteringPii, Due

LEMMA StoredFinite ==
  ASSUME AccountTypes
  PROVE  \A t : IsFiniteSet(Stored(t)) /\ Cardinality(Stored(t)) \in Nat
<1>1. \A S \in SUBSET sink : IsFiniteSet(S) /\ Cardinality(S) \in Nat
  BY FS_Subset, FS_CardinalityType DEF AccountTypes
<1> QED
  BY <1>1 DEF Stored

\* A field of the bills, summed over the tenants.
LEMMA BillSum ==
  ASSUME AccountTypes
  PROVE  \A f \in {"requests", "pii", "hits", "misses"} :
           /\ \A t \in Tenants : Bill(f)[t] = costs[t][f] /\ Bill(f)[t] \in Nat
           /\ SumOver(Tenants, Bill(f)) \in Nat
<1> TAKE f \in {"requests", "pii", "hits", "misses"}
<1>1. \A t \in Tenants : Bill(f)[t] = costs[t][f] /\ Bill(f)[t] \in Nat
  BY DEF AccountTypes, Bill, Stats
<1> QED
  BY <1>1, SumType, FiniteAssumption

\* What has been recorded is known to hold a number of hits.
LEMMA DueHits ==
  ASSUME Base, NEW S \in SUBSET Requests,
         \A r \in S : req[r].pc \in {"meter", "meter_pii", "deliver"}
  PROVE  \A r \in S : HeldOf(S)[r] = req[r].found.hits /\ req[r].found.hits \in Nat
<1> SUFFICES ASSUME NEW r \in S PROVE req[r].found.hits \in Nat
  BY DEF HeldOf
<1>1. HasText(req[r])
  BY DEF HasText, Accounted
<1>2. req[r].found \in Redactions
  BY <1>1 DEF Base, Shapes, Shape
<1> QED
  BY <1>2, RedactionHits

LEMMA AccountsStart == Init => AccountsInd
<1> SUFFICES ASSUME Init PROVE AccountsInd
  OBVIOUS
<1>1. \A r \in Requests : req[r].pc = "idle"
  BY IdleType DEF Init
<1>2. /\ RecordingHits = {} /\ RecordingMisses = {} /\ Inserting = {} /\ InsertMissed
      /\ Metering = {} /\ MeteringPii = {}
      /\ \A t : Due(t) = {} /\ Stored(t) = {}
  BY <1>1 DEF Init, RecordingHits, RecordingMisses, Inserting, Metering, MeteringPii, Due, Stored,
              InsertMissed
<1>3. AccountTypes
  <2>1. NoStats \in Stats
    BY DEF NoStats, Stats
  <2> QED
    BY <2>1, FS_EmptySet DEF Init, AccountTypes
<1>4. \A f \in {"requests", "pii", "hits", "misses"} : SumOver(Tenants, Bill(f)) = 0
  <2> SUFFICES ASSUME NEW f \in {"requests", "pii", "hits", "misses"} PROVE SumOver(Tenants, Bill(f)) = 0
    OBVIOUS
  <2>1. \A t \in Tenants : Bill(f)[t] = 0
    BY DEF Bill, Init, NoStats
  <2>2. UNION {{x} \X (1..Bill(f)[x]) : x \in Tenants} = {}
    BY <2>1
  <2> QED
    BY <2>2, FS_EmptySet DEF SumOver
<1>5. Cardinality({}) = 0 /\ \A f : SumOver({}, f) = 0
  BY FS_EmptySet, SumEmpty
<1>6. CacheCounts
  BY <1>2, <1>4, <1>5 DEF Init, CacheCounts
<1>7. Totals
  BY <1>2, <1>4, <1>5 DEF Init, Totals
<1>8. Bills
  <2>1. \A t \in Tenants : costs[t].requests = 0 /\ costs[t].pii = 0
    BY DEF Init, NoStats
  <2>2. \A t \in Tenants : /\ Cardinality(Stored(t)) = 0 /\ Cardinality(Due(t)) = 0
                          /\ SumOver(Stored(t), PiiOf(Stored(t))) = 0
                          /\ SumOver(Due(t), HeldOf(Due(t))) = 0
    BY <1>2, <1>5
  <2> QED
    BY <2>1, <2>2 DEF Bills, BillOf
<1> QED
  BY <1>2, <1>3, <1>6, <1>7, <1>8 DEF AccountsInd

\* What the invariant says of the accounts as they are stated.
LEMMA AccountsMean == AccountsInd => AccountsAgree
<1> SUFFICES ASSUME AccountsInd PROVE AccountsAgree
  OBVIOUS
<1>1. \A f \in {"requests", "pii", "hits", "misses"} : summary[f] = SumOver(Tenants, Bill(f))
  BY DEF summary, Bill
<1>2. /\ RecordingHits = {r \in At("record") : req[r].hit}
      /\ RecordingMisses = {r \in At("record") : ~req[r].hit}
      /\ Inserting = At("insert") /\ Metering = At("meter")
      /\ MeteringPii = At("meter") \cup At("meter_pii")
      /\ \A t : Due(t) = {r \in MeteringPii \cup At("deliver") : req[r].tenant = t}
  BY DEF RecordingHits, RecordingMisses, Inserting, Metering, MeteringPii, Due, At
<1>3. ASSUME NEW t \in Tenants
      PROVE  LET stored == {s \in sink : s.tenant = t}
                 due == {r \in MeteringPii \cup At("deliver") : req[r].tenant = t}
             IN /\ costs[t].requests = Cardinality(stored) + Cardinality(due)
                /\ costs[t].pii = SumOver(stored, [s \in stored |-> s.pii])
                                  + SumOver(due, [r \in due |-> req[r].found.hits])
  BY <1>2 DEF AccountsInd, Bills, BillOf, Stored, PiiOf, HeldOf
<1>4. /\ hits = summary["hits"] + Cardinality({r \in At("record") : req[r].hit})
      /\ misses = summary["misses"] + Cardinality({r \in At("record") : ~req[r].hit})
                                    + Cardinality(At("insert"))
  BY <1>1, <1>2 DEF AccountsInd, CacheCounts
<1>5. /\ summary["requests"] = metrics.requests + Cardinality(At("meter"))
      /\ summary["pii"] = metrics.pii
                           + SumOver(MeteringPii, [r \in MeteringPii |-> req[r].found.hits])
  BY <1>1, <1>2 DEF AccountsInd, Totals, HeldOf
<1> QED
  BY <1>2, <1>3, <1>4, <1>5 DEF AccountsAgree

\* A step that touches neither the accounts nor what is on its way to them.
AccountBusy == {"insert", "record", "meter", "meter_pii", "deliver"}

LEMMA QuietAccounts ==
  ASSUME Base, Base', AccountsInd,
         \A p \in Requests : req'[p] = req[p]
                             \/ (req[p].pc \notin AccountBusy /\ req'[p].pc \notin AccountBusy),
         hits' = hits, misses' = misses, costs' = costs, sink' = sink,
         metrics' \in [requests: Nat, pii: Nat, exceeded: Nat, warnings: Nat],
         metrics'.requests = metrics.requests, metrics'.pii = metrics.pii
  PROVE  AccountsInd'
<1>1. /\ RecordingHits' = RecordingHits /\ RecordingMisses' = RecordingMisses
      /\ Inserting' = Inserting /\ Metering' = Metering
      /\ MeteringPii' = MeteringPii /\ \A r \in MeteringPii : req'[r] = req[r]
  BY DEF RecordingHits, RecordingMisses, Inserting, Metering, MeteringPii, AccountBusy
<1>2. InsertMissed'
  BY DEF AccountsInd, InsertMissed, AccountBusy
<1>3. AccountTypes'
  BY DEF AccountsInd, AccountTypes
<1>4. \A f : Bill(f)' = Bill(f)
  BY DEF Bill
<1>5. CacheCounts' /\ Totals'
  BY <1>1, <1>4 DEF AccountsInd, CacheCounts, Totals, HeldOf
<1>6. ASSUME NEW t \in Tenants PROVE BillOf(t)'
  <2>1. Stored(t)' = Stored(t) /\ PiiOf(Stored(t))' = PiiOf(Stored(t))
    BY DEF Stored, PiiOf
  <2>2. Due(t)' = Due(t) /\ \A r \in Due(t) : req'[r] = req[r]
    BY DEF Due, AccountBusy
  <2>3. HeldOf(Due(t))' = HeldOf(Due(t))
    BY <2>2 DEF HeldOf
  <2> QED
    BY <2>1, <2>2, <2>3 DEF AccountsInd, Bills, BillOf
<1> QED
  BY <1>2, <1>3, <1>5, <1>6 DEF AccountsInd, Bills

\* The request is none of the others.
LEMMA SetGains ==
  ASSUME NEW A, IsFiniteSet(A), Cardinality(A) \in Nat, NEW x, x \notin A
  PROVE  Cardinality(A \cup {x}) = Cardinality(A) + 1
  BY FS_AddElement

LEMMA SetLoses ==
  ASSUME NEW A, IsFiniteSet(A), Cardinality(A) \in Nat, NEW x \in A
  PROVE  Cardinality(A) = Cardinality(A \ {x}) + 1 /\ Cardinality(A \ {x}) \in Nat
<1>1. IsFiniteSet(A \ {x}) /\ Cardinality(A \ {x}) = Cardinality(A) - 1
  BY FS_RemoveElement
<1>2. Cardinality(A \ {x}) \in Nat
  BY <1>1, FS_CardinalityType
<1> QED
  BY <1>1, <1>2

\* A step that leaves the bills alone, before they are written or after.
LEMMA BillsKept ==
  ASSUME Base, AccountsInd, NEW r \in Requests, Others(r),
         \/ /\ req[r].pc \notin {"meter", "meter_pii", "deliver"}
            /\ req'[r].pc \notin {"meter", "meter_pii", "deliver"}
         \/ /\ req[r].pc \in {"meter", "meter_pii", "deliver"}
            /\ req'[r].pc \in {"meter", "meter_pii", "deliver"}
            /\ req'[r].tenant = req[r].tenant /\ req'[r].found = req[r].found,
         costs' = costs, sink' = sink
  PROVE  Bills'
<1> SUFFICES ASSUME NEW t \in Tenants PROVE BillOf(t)'
  BY DEF Bills
<1>1. Stored(t)' = Stored(t) /\ PiiOf(Stored(t))' = PiiOf(Stored(t))
  BY DEF Stored, PiiOf
<1>2. Due(t)' = Due(t) /\ \A p \in Due(t) : req'[p].found = req[p].found
  BY DEF Due, Others
<1>3. HeldOf(Due(t))' = HeldOf(Due(t))
  BY <1>2 DEF HeldOf
<1> QED
  BY <1>1, <1>2, <1>3 DEF AccountsInd, Bills, BillOf

\* One that leaves the metrics alone, and what is on its way to them.
LEMMA TotalsKept ==
  ASSUME Base, AccountsInd, NEW r \in Requests, Others(r),
         req[r].pc \notin {"meter", "meter_pii"}, req'[r].pc \notin {"meter", "meter_pii"},
         costs' = costs, metrics' = metrics
  PROVE  Totals'
<1>1. /\ Metering' = Metering /\ MeteringPii' = MeteringPii
      /\ \A p \in MeteringPii : req'[p] = req[p]
  BY DEF Metering, MeteringPii, Others
<1>2. \A f : Bill(f)' = Bill(f)
  BY DEF Bill
<1>3. HeldOf(MeteringPii)' = HeldOf(MeteringPii)
  BY <1>1 DEF HeldOf
<1> QED
  BY <1>1, <1>2, <1>3 DEF AccountsInd, Totals

LEMMA CountLookupAccounts ==
  ASSUME Base, Base', AccountsInd, NEW r \in Requests, CountLookup(r)
  PROVE  AccountsInd'
<1>1. /\ Others(r) /\ req[r].pc = "tally" /\ costs' = costs /\ sink' = sink /\ metrics' = metrics
      /\ \/ /\ req'[r].pc = "record" /\ req'[r].hit = TRUE /\ hits' = hits + 1 /\ misses' = misses
         \/ /\ req'[r].pc = "insert" /\ req'[r].hit = FALSE /\ hits' = hits /\ misses' = misses + 1
  <2>1. req[r].hit \in BOOLEAN
    BY DEF Base, RequestTypes, Request
  <2> QED
    BY <2>1, PassMove DEF CountLookup, Passes, Onward, outVars
<1>2. Bills'
  BY <1>1, BillsKept
<1>3. AccountTypes' /\ InsertMissed'
  BY <1>1 DEF AccountsInd, AccountTypes, InsertMissed, Others
<1>4. \A f : Bill(f)' = Bill(f)
  BY <1>1 DEF Bill
<1>5. Totals'
  BY <1>1, TotalsKept
<1>6. r \notin RecordingHits /\ r \notin RecordingMisses /\ r \notin Inserting
  BY <1>1 DEF RecordingHits, RecordingMisses, Inserting
<1>7. CASE req'[r].pc = "record"
  <2>1. /\ RecordingHits' = RecordingHits \cup {r} /\ RecordingMisses' = RecordingMisses
        /\ Inserting' = Inserting
    BY <1>1, <1>7 DEF RecordingHits, RecordingMisses, Inserting, Others
  <2>2. Cardinality(RecordingHits \cup {r}) = Cardinality(RecordingHits) + 1
    BY <1>6, AccountSets, SetGains
  <2>3. SumOver(Tenants, Bill("hits")) \in Nat
    BY BillSum DEF AccountsInd
  <2>4. CacheCounts'
    BY <1>1, <1>4, <1>7, <2>1, <2>2, <2>3, AccountSets DEF AccountsInd, CacheCounts
  <2> QED
    BY <1>2, <1>3, <1>5, <2>4 DEF AccountsInd
<1>8. CASE req'[r].pc = "insert"
  <2>1. /\ RecordingHits' = RecordingHits /\ RecordingMisses' = RecordingMisses
        /\ Inserting' = Inserting \cup {r}
    BY <1>1, <1>8 DEF RecordingHits, RecordingMisses, Inserting, Others
  <2>2. Cardinality(Inserting \cup {r}) = Cardinality(Inserting) + 1
    BY <1>6, AccountSets, SetGains
  <2>3. SumOver(Tenants, Bill("misses")) \in Nat
    BY BillSum DEF AccountsInd
  <2>4. CacheCounts'
    BY <1>1, <1>4, <1>8, <2>1, <2>2, <2>3, AccountSets DEF AccountsInd, CacheCounts
  <2> QED
    BY <1>2, <1>3, <1>5, <2>4 DEF AccountsInd
<1> QED
  BY <1>1, <1>7, <1>8

LEMMA InsertAccounts ==
  ASSUME Base, Base', AccountsInd, NEW r \in Requests, Insert(r)
  PROVE  AccountsInd'
<1>1. /\ Others(r) /\ req[r].pc = "insert" /\ req'[r].pc = "record" /\ req'[r].hit = req[r].hit
      /\ costs' = costs /\ sink' = sink /\ metrics' = metrics /\ hits' = hits /\ misses' = misses
  BY InsertMove DEF Insert, outVars
<1>2. Bills'
  BY <1>1, BillsKept
<1>3. AccountTypes' /\ InsertMissed' /\ req[r].hit = FALSE
  BY <1>1 DEF AccountsInd, AccountTypes, InsertMissed, Others
<1>4. \A f : Bill(f)' = Bill(f)
  BY <1>1 DEF Bill
<1>5. Totals'
  BY <1>1, TotalsKept
<1>6. r \notin RecordingMisses /\ r \in Inserting
  BY <1>1 DEF RecordingMisses, Inserting
<1>7. /\ RecordingHits' = RecordingHits /\ RecordingMisses' = RecordingMisses \cup {r}
      /\ Inserting' = Inserting \ {r}
  BY <1>1, <1>3 DEF RecordingHits, RecordingMisses, Inserting, Others
<1>8. /\ Cardinality(RecordingMisses \cup {r}) = Cardinality(RecordingMisses) + 1
      /\ Cardinality(Inserting) = Cardinality(Inserting \ {r}) + 1 /\ Cardinality(Inserting \ {r}) \in Nat
  BY <1>6, AccountSets, SetGains, SetLoses
<1>9. SumOver(Tenants, Bill("misses")) \in Nat
  BY BillSum DEF AccountsInd
<1>10. CacheCounts'
  BY <1>1, <1>4, <1>7, <1>8, <1>9, AccountSets DEF AccountsInd, CacheCounts
<1> QED
  BY <1>2, <1>3, <1>5, <1>10 DEF AccountsInd

\* CostTracker::record() adds to the four fields of one bill.
Added(f, pii, hit) ==
  IF f = "requests" THEN 1 ELSE IF f = "pii" THEN pii
  ELSE IF (f = "hits") <=> hit THEN 1 ELSE 0

LEMMA RecordedAdds ==
  ASSUME NEW s \in Stats, NEW pii \in Nat, NEW hit \in BOOLEAN
  PROVE  /\ Recorded(s, pii, hit) \in Stats
         /\ \A f \in {"requests", "pii", "hits", "misses"} :
              Added(f, pii, hit) \in Nat /\ Recorded(s, pii, hit)[f] = s[f] + Added(f, pii, hit)
<1>1. CASE hit = TRUE
  BY <1>1 DEF Stats, Recorded, Added
<1>2. CASE hit = FALSE
  BY <1>2 DEF Stats, Recorded, Added
<1> QED
  BY <1>1, <1>2

LEMMA RecordBills ==
  ASSUME Base, AccountsInd, NEW r \in Requests, Record(r)
  PROVE  /\ req[r].tenant \in Tenants /\ req[r].found.hits \in Nat /\ req[r].hit \in BOOLEAN
         /\ costs' \in [Tenants -> Stats]
         /\ \A f \in {"requests", "pii", "hits", "misses"} :
              LET d == Added(f, req[r].found.hits, req[r].hit) IN
              /\ d \in Nat
              /\ \A t \in Tenants \ {req[r].tenant} : costs'[t] = costs[t]
              /\ costs'[req[r].tenant][f] = costs[req[r].tenant][f] + d
              /\ SumOver(Tenants, Bill(f)') = SumOver(Tenants, Bill(f)) + d
<1> DEFINE t0 == req[r].tenant
           h == req[r].found.hits
           b == req[r].hit
           c == Recorded(costs[t0], h, b)
<1>1. t0 \in Tenants /\ b \in BOOLEAN /\ req[r].found \in Redactions
  <2>1. HasText(req[r])
    BY DEF Record, HasText, Accounted
  <2> QED
    BY <2>1 DEF Base, RequestTypes, Request, Shapes, Shape
<1>2. h \in Nat
  BY <1>1, RedactionHits
<1>3. costs' = [costs EXCEPT ![t0] = c]
  BY DEF Record
<1>4. costs \in [Tenants -> Stats] /\ costs[t0] \in Stats /\ AccountTypes
  BY <1>1 DEF AccountsInd, AccountTypes
<1> HIDE DEF t0, h, b
<1>5. c \in Stats /\ \A f \in {"requests", "pii", "hits", "misses"} :
                       Added(f, h, b) \in Nat /\ c[f] = costs[t0][f] + Added(f, h, b)
  BY <1>1, <1>2, <1>4, RecordedAdds
<1> HIDE DEF c
<1>6. costs' \in [Tenants -> Stats] /\ costs'[t0] = c /\ \A t \in Tenants \ {t0} : costs'[t] = costs[t]
  BY <1>1, <1>3, <1>4, <1>5
<1>7. ASSUME NEW f \in {"requests", "pii", "hits", "misses"}
      PROVE  SumOver(Tenants, Bill(f)') = SumOver(Tenants, Bill(f)) + Added(f, h, b)
  <2> DEFINE F == Bill(f)
             G == Bill(f)'
             d == Added(f, h, b)
  <2>1. \A t \in Tenants : F[t] \in Nat /\ F[t] = costs[t][f]
    BY <1>4, BillSum
  <2>2. \A t \in Tenants : G[t] = costs'[t][f]
    BY DEF Bill
  <2>3. \A t \in Tenants \ {t0} : G[t] = F[t]
    BY <1>6, <2>1, <2>2
  <2>4. G[t0] = F[t0] + d /\ d \in Nat
    BY <1>1, <1>5, <1>6, <2>1, <2>2
  <2> HIDE DEF F, G, d
  <2>5. SumOver(Tenants, G) = SumOver(Tenants, F) + d
    <3>1. IsFiniteSet(Tenants) /\ t0 \in Tenants /\ d \in Nat
      BY <1>1, <2>4, FiniteAssumption
    <3>2. \A t \in Tenants : F[t] \in Nat
      BY <2>1
    <3>3. G[t0] = F[t0] + d
      BY <2>4
    <3> QED
      BY ONLY <2>3, <3>1, <3>2, <3>3, SumChange
  <2> QED
    BY <2>5 DEF F, G, d
<1> QED
  BY <1>1, <1>2, <1>5, <1>6, <1>7 DEF t0, h, b

LEMMA RecordAccounts ==
  ASSUME Base, Base', AccountsInd, NEW r \in Requests, Record(r)
  PROVE  AccountsInd'
<1>0. PICK t0, h, b : t0 = req[r].tenant /\ h = req[r].found.hits /\ b = req[r].hit
  OBVIOUS
<1>1. /\ Others(r) /\ req[r].pc = "record" /\ req'[r].pc = "meter" /\ Same(r)
      /\ req'[r].hit = req[r].hit /\ req'[r].found = req[r].found
      /\ sink' = sink /\ hits' = hits /\ misses' = misses /\ metrics' = metrics
  BY <1>0, PassMove DEF Record, Passes, Onward, outVars, cacheVars, Within
<1>2. /\ t0 \in Tenants /\ h \in Nat /\ b \in BOOLEAN /\ costs' \in [Tenants -> Stats]
      /\ \A t \in Tenants \ {t0} : costs'[t] = costs[t]
      /\ costs'[t0].requests = costs[t0].requests + 1
      /\ costs'[t0].pii = costs[t0].pii + h
      /\ SumOver(Tenants, Bill("requests")') = SumOver(Tenants, Bill("requests")) + 1
      /\ SumOver(Tenants, Bill("pii")') = SumOver(Tenants, Bill("pii")) + h
      /\ SumOver(Tenants, Bill("hits")') = SumOver(Tenants, Bill("hits")) + (IF b THEN 1 ELSE 0)
      /\ SumOver(Tenants, Bill("misses")') = SumOver(Tenants, Bill("misses")) + (IF b THEN 0 ELSE 1)
  BY <1>0, RecordBills DEF Added
<1>3. /\ AccountTypes
      /\ metrics \in [requests: Nat, pii: Nat, exceeded: Nat, warnings: Nat]
      /\ costs \in [Tenants -> Stats]
  BY DEF AccountsInd, AccountTypes
<1>5. AccountTypes'
  BY <1>1, <1>2 DEF AccountsInd, AccountTypes
<1>6. InsertMissed'
  BY <1>1 DEF AccountsInd, InsertMissed, Others
<1>7. Totals'
  <2> DEFINE D == MeteringPii
             F == HeldOf(MeteringPii)
             E == MeteringPii'
             G == HeldOf(MeteringPii)'
  <2>1. /\ Metering' = Metering \cup {r} /\ r \notin Metering
        /\ E = D \cup {r} /\ r \notin D /\ \A p \in D : req'[p] = req[p]
    BY <1>1 DEF Metering, MeteringPii, Others
  <2>2. Cardinality(Metering \cup {r}) = Cardinality(Metering) + 1 /\ Cardinality(Metering) \in Nat
    BY <2>1, AccountSets, SetGains
  <2>3. \A p \in D : F[p] \in Nat /\ F[p] = req[p].found.hits
    BY DueHits DEF MeteringPii
  <2>4. \A p \in D : G[p] = F[p]
    BY <2>1, <2>3 DEF HeldOf
  <2>5. G[r] = h
    BY <1>0, <1>1, <2>1 DEF HeldOf
  <2>6. IsFiniteSet(D)
    BY AccountSets
  <2>7. metrics.requests \in Nat /\ metrics.pii \in Nat
    BY <1>3
  <2>8. /\ SumOver(Tenants, Bill("requests")) = metrics.requests + Cardinality(Metering)
        /\ SumOver(Tenants, Bill("pii")) = metrics.pii + SumOver(D, F)
    BY DEF AccountsInd, Totals
  <2> HIDE DEF D, F, E, G
  <2>9. SumOver(D, F) = SumOver(D, G) /\ SumOver(D, F) \in Nat
    BY <2>3, <2>4, <2>6, SumSame, SumType
  <2>10. SumOver(E, G) = SumOver(D, F) + h
    <3>1. \A p \in D \cup {r} : G[p] \in Nat
      BY <1>2, <2>3, <2>4, <2>5
    <3>2. SumOver(D \cup {r}, G) = SumOver(D, G) + G[r]
      BY <2>1, <2>6, <3>1, SumPut
    <3> QED
      BY <2>1, <2>5, <2>9, <3>2
  <2>11. SumOver(Tenants, Bill("requests")') = metrics.requests + Cardinality(Metering')
    BY <1>2, <2>1, <2>2, <2>7, <2>8
  <2>12. SumOver(Tenants, Bill("pii")') = metrics.pii + SumOver(E, G)
    BY <1>2, <2>7, <2>8, <2>9, <2>10
  <2> QED
    BY <1>1, <2>11, <2>12 DEF Totals, E, G
<1>8. CacheCounts'
  <2>1. /\ SumOver(Tenants, Bill("hits")) \in Nat /\ SumOver(Tenants, Bill("misses")) \in Nat
    BY <1>3, BillSum
  <2>2. Inserting' = Inserting
    BY <1>1 DEF Inserting, Others
  <2>3. CASE b = TRUE
    <3>1. /\ RecordingHits' = RecordingHits \ {r} /\ r \in RecordingHits
          /\ RecordingMisses' = RecordingMisses
      BY <1>0, <1>1, <2>3 DEF RecordingHits, RecordingMisses, Others
    <3>2. /\ Cardinality(RecordingHits) = Cardinality(RecordingHits \ {r}) + 1
          /\ Cardinality(RecordingHits \ {r}) \in Nat
      BY <3>1, AccountSets, SetLoses
    <3>3. /\ SumOver(Tenants, Bill("hits")') = SumOver(Tenants, Bill("hits")) + 1
          /\ SumOver(Tenants, Bill("misses")') = SumOver(Tenants, Bill("misses"))
      BY <1>2, <2>1, <2>3
    <3> QED
      BY <1>1, <2>1, <2>2, <3>1, <3>2, <3>3, AccountSets DEF AccountsInd, CacheCounts
  <2>4. CASE b = FALSE
    <3>1. /\ RecordingMisses' = RecordingMisses \ {r} /\ r \in RecordingMisses
          /\ RecordingHits' = RecordingHits
      BY <1>0, <1>1, <2>4 DEF RecordingHits, RecordingMisses, Others
    <3>2. /\ Cardinality(RecordingMisses) = Cardinality(RecordingMisses \ {r}) + 1
          /\ Cardinality(RecordingMisses \ {r}) \in Nat
      BY <3>1, AccountSets, SetLoses
    <3>3. /\ SumOver(Tenants, Bill("hits")') = SumOver(Tenants, Bill("hits"))
          /\ SumOver(Tenants, Bill("misses")') = SumOver(Tenants, Bill("misses")) + 1
      BY <1>2, <2>1, <2>4
    <3> QED
      BY <1>1, <2>1, <2>2, <3>1, <3>2, <3>3, AccountSets DEF AccountsInd, CacheCounts
  <2> QED
    BY <1>2, <2>3, <2>4
<1>9. ASSUME NEW t \in Tenants PROVE BillOf(t)'
  <2>1. Stored(t)' = Stored(t) /\ PiiOf(Stored(t))' = PiiOf(Stored(t))
    BY <1>1 DEF Stored, PiiOf
  <2>2. \A p \in Due(t) : p # r /\ req'[p] = req[p]
    BY <1>1 DEF Due, Others
  <2>3. BillOf(t)
    BY DEF AccountsInd, Bills
  <2>4. CASE t # t0
    <3>1. Due(t)' = Due(t)
      BY <1>0, <1>1, <2>4 DEF Due, Others, Same
    <3>2. HeldOf(Due(t))' = HeldOf(Due(t))
      BY <2>2, <3>1 DEF HeldOf
    <3> QED
      BY <1>2, <2>1, <2>3, <2>4, <3>1, <3>2 DEF BillOf
  <2>5. CASE t = t0
    <3> DEFINE D == Due(t)
               F == HeldOf(Due(t))
               E == Due(t)'
               G == HeldOf(Due(t))'
    <3>1. E = D \cup {r} /\ r \notin D
      BY <1>0, <1>1, <2>5 DEF Due, Others, Same
    <3>2. \A p \in D : F[p] \in Nat /\ G[p] = F[p]
      BY <2>2, <3>1, DueHits DEF HeldOf, Due
    <3>3. G[r] = h
      BY <1>0, <1>1, <3>1 DEF HeldOf
    <3>4. IsFiniteSet(D) /\ Cardinality(D) \in Nat
      BY AccountSets
    <3>5. Stored(t) = Stored(t)' /\ Cardinality(Stored(t)) \in Nat /\ IsFiniteSet(Stored(t))
      BY <1>3, <2>1, StoredFinite
    <3>6. SumOver(Stored(t), PiiOf(Stored(t))) \in Nat
      <4>1. \A u \in Stored(t) : PiiOf(Stored(t))[u] \in Nat
        BY <1>3 DEF Stored, PiiOf, AccountTypes
      <4> QED
        BY <3>5, <4>1, SumType
    <3>7. costs[t].requests \in Nat /\ costs[t].pii \in Nat
      BY <1>3 DEF Stats
    <3> HIDE DEF D, F, E, G
    <3>8. SumOver(D, F) = SumOver(D, G) /\ SumOver(D, F) \in Nat
      BY <3>2, <3>4, SumSame, SumType
    <3>9. SumOver(E, G) = SumOver(D, F) + h
      <4>1. SumOver(D \cup {r}, G) = SumOver(D, G) + G[r]
        <5>1. \A p \in D \cup {r} : G[p] \in Nat
          BY <1>2, <3>2, <3>3
        <5> QED
          BY <3>1, <3>4, <5>1, SumPut
      <4> QED
        BY <3>1, <3>3, <3>8, <4>1
    <3>10. Cardinality(E) = Cardinality(D) + 1
      BY <3>1, <3>4, SetGains
    <3>11. costs[t].requests = Cardinality(Stored(t)) + Cardinality(D)
             /\ costs[t].pii = SumOver(Stored(t), PiiOf(Stored(t))) + SumOver(D, F)
      BY <2>3 DEF BillOf, D, F
    <3>12. costs'[t].requests = Cardinality(Stored(t)) + Cardinality(E)
      BY <1>2, <2>5, <3>4, <3>5, <3>7, <3>10, <3>11
    <3>13. costs'[t].pii = SumOver(Stored(t), PiiOf(Stored(t))) + SumOver(E, G)
      BY <1>2, <2>5, <3>6, <3>7, <3>8, <3>9, <3>11
    <3> QED
      BY <2>1, <3>12, <3>13 DEF BillOf, E, G
  <2> QED
    BY <2>4, <2>5
<1> QED
  BY <1>5, <1>6, <1>7, <1>8, <1>9 DEF AccountsInd, Bills

\* The metrics catch up, first with the number of requests.
LEMMA MeterRequestAccounts ==
  ASSUME Base, Base', AccountsInd, NEW r \in Requests, MeterRequest(r)
  PROVE  AccountsInd'
<1>1. /\ Others(r) /\ req[r].pc = "meter" /\ req'[r].pc = "meter_pii" /\ Same(r)
      /\ req'[r].found = req[r].found /\ costs' = costs /\ sink' = sink
      /\ hits' = hits /\ misses' = misses /\ metrics' = [metrics EXCEPT !.requests = @ + 1]
  BY PassMove DEF MeterRequest, Passes, Onward, outVars, cacheVars, Within
<1>2. metrics \in [requests: Nat, pii: Nat, exceeded: Nat, warnings: Nat]
  BY DEF AccountsInd, AccountTypes
<1>3. /\ metrics' \in [requests: Nat, pii: Nat, exceeded: Nat, warnings: Nat]
      /\ metrics'.requests = metrics.requests + 1 /\ metrics'.pii = metrics.pii
  BY <1>1, <1>2
<1>4. AccountTypes' /\ InsertMissed'
  BY <1>1, <1>3 DEF AccountsInd, AccountTypes, InsertMissed, Others
<1>5. /\ RecordingHits' = RecordingHits /\ RecordingMisses' = RecordingMisses
      /\ Inserting' = Inserting /\ \A f : Bill(f)' = Bill(f)
  BY <1>1 DEF RecordingHits, RecordingMisses, Inserting, Others, Bill
<1>6. CacheCounts'
  BY <1>1, <1>5 DEF AccountsInd, CacheCounts
<1>7. Bills'
  BY <1>1, BillsKept DEF Same
<1>8. Totals'
  <2>1. /\ Metering' = Metering \ {r} /\ r \in Metering /\ MeteringPii' = MeteringPii
        /\ \A p \in MeteringPii : req'[p].found = req[p].found
    BY <1>1 DEF Metering, MeteringPii, Others
  <2>2. /\ Cardinality(Metering) = Cardinality(Metering \ {r}) + 1
        /\ Cardinality(Metering \ {r}) \in Nat
    BY <2>1, AccountSets, SetLoses
  <2>3. HeldOf(MeteringPii)' = HeldOf(MeteringPii)
    BY <2>1 DEF HeldOf
  <2>4. metrics.requests \in Nat
    BY <1>2
  <2>5. metrics'.requests + Cardinality(Metering') = metrics.requests + Cardinality(Metering)
    BY <1>3, <2>1, <2>2, <2>4
  <2> QED
    BY <1>3, <1>5, <2>1, <2>3, <2>5 DEF AccountsInd, Totals
<1> QED
  BY <1>4, <1>6, <1>7, <1>8 DEF AccountsInd

\* Then with what was redacted.
LEMMA MeterPiiAccounts ==
  ASSUME Base, Base', AccountsInd, NEW r \in Requests, MeterPii(r)
  PROVE  AccountsInd'
<1>0. PICK h : h = req[r].found.hits
  OBVIOUS
<1>1. /\ Others(r) /\ req[r].pc = "meter_pii" /\ req'[r].pc = "deliver" /\ Same(r)
      /\ req'[r].found = req[r].found /\ costs' = costs /\ sink' = sink
      /\ hits' = hits /\ misses' = misses /\ metrics' = [metrics EXCEPT !.pii = @ + h]
  BY <1>0, PassMove DEF MeterPii, Passes, Onward, outVars, cacheVars, Within
<1>2. metrics \in [requests: Nat, pii: Nat, exceeded: Nat, warnings: Nat] /\ h \in Nat
  <2>1. h \in Nat
    <3>1. HasText(req[r])
      BY <1>1 DEF HasText, Accounted
    <3> QED
      BY <1>0, <3>1, RedactionHits DEF Base, Shapes, Shape
  <2> QED
    BY <2>1 DEF AccountsInd, AccountTypes
<1>3. /\ metrics' \in [requests: Nat, pii: Nat, exceeded: Nat, warnings: Nat]
      /\ metrics'.requests = metrics.requests /\ metrics'.pii = metrics.pii + h
  BY <1>1, <1>2
<1>4. AccountTypes' /\ InsertMissed'
  BY <1>1, <1>3 DEF AccountsInd, AccountTypes, InsertMissed, Others
<1>5. /\ RecordingHits' = RecordingHits /\ RecordingMisses' = RecordingMisses
      /\ Inserting' = Inserting /\ \A f : Bill(f)' = Bill(f)
  BY <1>1 DEF RecordingHits, RecordingMisses, Inserting, Others, Bill
<1>6. CacheCounts'
  BY <1>1, <1>5 DEF AccountsInd, CacheCounts
<1>7. Bills'
  BY <1>1, BillsKept DEF Same
<1>8. Totals'
  <2> DEFINE D == MeteringPii
             F == HeldOf(MeteringPii)
             E == MeteringPii'
             G == HeldOf(MeteringPii)'
  <2>1. /\ Metering' = Metering /\ E = D \ {r} /\ r \in D
        /\ \A p \in E : req'[p] = req[p]
    BY <1>1 DEF Metering, MeteringPii, Others
  <2>2. \A p \in D : F[p] \in Nat /\ F[p] = req[p].found.hits
    BY DueHits DEF MeteringPii
  <2>3. F[r] = h /\ \A p \in E : G[p] = F[p]
    BY <1>0, <2>1, <2>2 DEF HeldOf
  <2>4. IsFiniteSet(D) /\ metrics.pii \in Nat
    BY <1>2, AccountSets
  <2>5. /\ SumOver(Tenants, Bill("requests")) = metrics.requests + Cardinality(Metering)
        /\ SumOver(Tenants, Bill("pii")) = metrics.pii + SumOver(D, F)
    BY DEF AccountsInd, Totals
  <2> HIDE DEF D, F, E, G
  <2>6. SumOver(D, F) = SumOver(D \ {r}, F) + F[r]
    BY <2>1, <2>2, <2>4, SumTake
  <2>7. SumOver(E, F) = SumOver(E, G) /\ SumOver(E, F) \in Nat
    <3>1. IsFiniteSet(E)
      BY <2>1, <2>4, FS_RemoveElement
    <3> QED
      BY <2>1, <2>2, <2>3, <3>1, SumSame, SumType
  <2>8. SumOver(Tenants, Bill("pii")) = metrics'.pii + SumOver(E, G)
    BY <1>2, <1>3, <2>1, <2>3, <2>4, <2>5, <2>6, <2>7
  <2> QED
    BY <1>3, <1>5, <2>1, <2>5, <2>8 DEF Totals, E, G
<1> QED
  BY <1>4, <1>6, <1>7, <1>8 DEF AccountsInd

LEMMA DeliverAccounts ==
  ASSUME Base, Base', StoredOnce, AccountsInd, NEW r \in Requests, Deliver(r)
  PROVE  AccountsInd'
<1>0. PICK t0, h : t0 = req[r].tenant /\ h = req[r].found.hits
  OBVIOUS
<1> DEFINE rec == [id |-> <<r, req[r].next>>, tenant |-> t0, msg |-> entry(r).msg,
                   text |-> req[r].found.text, pii |-> h, hit |-> req[r].hit]
<1>1. /\ Others(r) /\ req[r].pc = "deliver" /\ req'[r].pc \in {"get", "done"}
      /\ costs' = costs /\ hits' = hits /\ misses' = misses /\ metrics' = metrics
      /\ sink' = sink \cup {rec}
  BY <1>0, DeliverMove DEF Deliver, cacheVars, Advanced
<1>2. rec.tenant = t0 /\ rec.pii = h /\ rec.id = <<r, req[r].next>>
  OBVIOUS
<1> HIDE DEF rec
<1>3. rec \notin sink
  BY <1>2, NotStoredYet
<1>4. h \in Nat /\ t0 \in Tenants
  <2>1. req[r].found \in Redactions /\ t0 \in Tenants
    BY <1>0, <1>1 DEF Base, Shapes, Shape, RequestTypes, Request, HasText, Accounted
  <2> QED
    BY <1>0, <2>1, RedactionHits
<1>5. AccountTypes /\ IsFiniteSet(sink)
  BY DEF AccountsInd, AccountTypes
<1>6. AccountTypes'
  <2>1. IsFiniteSet(sink')
    BY <1>1, <1>5, FS_AddElement
  <2> QED
    BY <1>1, <1>2, <1>4, <2>1 DEF AccountsInd, AccountTypes
<1>7. InsertMissed'
  BY <1>1 DEF AccountsInd, InsertMissed, Others
<1>8. CacheCounts' /\ Totals'
  <2>1. /\ RecordingHits' = RecordingHits /\ RecordingMisses' = RecordingMisses
        /\ Inserting' = Inserting
    BY <1>1 DEF RecordingHits, RecordingMisses, Inserting, Others
  <2>2. \A f : Bill(f)' = Bill(f)
    BY <1>1 DEF Bill
  <2>3. Totals'
    BY <1>1, TotalsKept
  <2> QED
    BY <1>1, <2>1, <2>2, <2>3 DEF AccountsInd, CacheCounts
<1>9. ASSUME NEW t \in Tenants PROVE BillOf(t)'
  <2>1. \A p \in Due(t) \ {r} : req'[p] = req[p]
    BY <1>1 DEF Due, Others
  <2>2. BillOf(t)
    BY DEF AccountsInd, Bills
  <2>3. CASE t # t0
    <3>1. Due(t)' = Due(t) /\ r \notin Due(t) /\ Stored(t)' = Stored(t)
      BY <1>0, <1>1, <1>2, <2>3 DEF Due, Others, Stored
    <3>2. HeldOf(Due(t))' = HeldOf(Due(t))
      BY <2>1, <3>1 DEF HeldOf
    <3>3. PiiOf(Stored(t))' = PiiOf(Stored(t))
      BY <3>1 DEF PiiOf
    <3> QED
      BY <1>1, <2>2, <3>1, <3>2, <3>3 DEF BillOf
  <2>4. CASE t = t0
    <3> DEFINE D == Due(t)
               F == HeldOf(Due(t))
               E == Due(t)'
               G == HeldOf(Due(t))'
               S == Stored(t)
               P == PiiOf(Stored(t))
               T == Stored(t)'
               Q == PiiOf(Stored(t))'
    <3>1. E = D \ {r} /\ r \in D
      BY <1>0, <1>1, <2>4 DEF Due, Others
    <3>2. \A p \in D : F[p] \in Nat
      BY DueHits DEF Due
    <3>3. F[r] = h /\ \A p \in E : G[p] = F[p]
      BY <1>0, <2>1, <3>1 DEF HeldOf
    <3>4. T = S \cup {rec} /\ rec \notin S
      BY <1>1, <1>2, <1>3, <2>4 DEF Stored
    <3>5. \A u \in S : P[u] \in Nat /\ Q[u] = P[u]
      BY <1>5, <3>4 DEF Stored, PiiOf, AccountTypes
    <3>6. Q[rec] = h
      BY <1>2, <3>4 DEF PiiOf
    <3>7. IsFiniteSet(D) /\ Cardinality(D) \in Nat /\ IsFiniteSet(S) /\ Cardinality(S) \in Nat
      BY <1>5, AccountSets, StoredFinite
    <3>8. costs[t].requests = Cardinality(S) + Cardinality(D)
            /\ costs[t].pii = SumOver(S, P) + SumOver(D, F)
      BY <2>2 DEF BillOf
    <3> HIDE DEF D, F, E, G, S, P, T, Q
    <3>9. IsFiniteSet(E)
      BY <3>1, <3>7, FS_RemoveElement
    <3>10. SumOver(D, F) = SumOver(E, F) + h /\ SumOver(E, F) = SumOver(E, G) /\ SumOver(E, F) \in Nat
      <4>1. SumOver(D, F) = SumOver(D \ {r}, F) + F[r]
        BY <3>1, <3>2, <3>7, SumTake
      <4>2. SumOver(E, F) = SumOver(E, G)
        BY <3>3, SumSame
      <4>3. SumOver(E, F) \in Nat
        BY <3>1, <3>2, <3>9, SumType
      <4> QED
        BY <3>1, <3>3, <4>1, <4>2, <4>3
    <3>11. SumOver(T, Q) = SumOver(S, P) + h /\ SumOver(S, P) \in Nat
      <4>1. \A u \in S \cup {rec} : Q[u] \in Nat
        BY <1>4, <3>5, <3>6
      <4>2. SumOver(S \cup {rec}, Q) = SumOver(S, Q) + Q[rec]
        BY <3>4, <3>7, <4>1, SumPut
      <4>3. SumOver(S, P) = SumOver(S, Q) /\ SumOver(S, P) \in Nat
        BY <3>5, <3>7, SumSame, SumType
      <4> QED
        BY <3>4, <3>6, <4>2, <4>3
    <3>12. /\ Cardinality(D) = Cardinality(D \ {r}) + 1 /\ Cardinality(D \ {r}) \in Nat
           /\ Cardinality(S \cup {rec}) = Cardinality(S) + 1
      BY <3>1, <3>4, <3>7, SetGains, SetLoses
    <3>13. costs[t].requests = Cardinality(T) + Cardinality(E)
      BY <3>1, <3>4, <3>7, <3>8, <3>12
    <3>14. costs[t].pii = SumOver(T, Q) + SumOver(E, G)
      BY <1>4, <3>8, <3>10, <3>11
    <3> QED
      BY <1>1, <3>13, <3>14 DEF BillOf, E, G, T, Q
  <2> QED
    BY <2>3, <2>4
<1> QED
  BY <1>6, <1>7, <1>8, <1>9 DEF AccountsInd, Bills

LEMMA AccountsStep == Base /\ StoredOnce /\ AccountsInd /\ [Next]_vars => AccountsInd'
<1> SUFFICES ASSUME Base, StoredOnce, AccountsInd, [Next]_vars PROVE AccountsInd'
  OBVIOUS
<1> USE DEF limitVars, quotaVars, cacheVars, outVars
<1>0. Base' /\ metrics \in [requests: Nat, pii: Nat, exceeded: Nat, warnings: Nat]
  BY BaseStep DEF AccountsInd, AccountTypes
<1>1. ASSUME NEW r \in Requests, Acts(r) PROVE AccountsInd'
  <2>0. Others(r)
    BY <1>1, ActBase
  <2>1. ASSUME hits' = hits, misses' = misses, costs' = costs, sink' = sink, metrics' = metrics,
               req[r].pc \notin AccountBusy, req'[r].pc \notin AccountBusy
        PROVE  AccountsInd'
    <3>1. \A p \in Requests : req'[p] = req[p]
                              \/ (req[p].pc \notin AccountBusy /\ req'[p].pc \notin AccountBusy)
      BY <2>0, <2>1 DEF Others
    <3> QED
      BY <1>0, <2>1, <3>1, QuietAccounts
  <2>2. CASE RefuseTenant(r)
    BY <2>1, <2>2, RefuseTenantMove DEF RefuseTenant, Refused, AccountBusy
  <2>3. ASSUME NEW t \in Tenants, NEW b \in Bodies, Arrive(r, t, b) PROVE AccountsInd'
    <3>1. Refused(r) \/ Accepted(r)
      BY <2>3, ArriveMove
    <3>2. req[r].pc \notin AccountBusy /\ req'[r].pc \notin AccountBusy
      BY <3>1 DEF Refused, Accepted, AccountBusy
    <3>3. hits' = hits /\ misses' = misses /\ costs' = costs /\ sink' = sink /\ metrics' = metrics
      BY <2>3 DEF Arrive
    <3> QED
      BY <2>1, <3>2, <3>3
  <2>4. CASE Lookup(r)
    BY <2>1, <2>4, LookupMove DEF Lookup, AccountBusy
  <2>5. CASE GetCounter(r)
    BY <2>1, <2>5, GetCounterMove DEF GetCounter, AccountBusy
  <2>6. CASE Count(r)
    <3>1. req[r].pc \notin AccountBusy /\ req'[r].pc \notin AccountBusy
      BY <2>6, CountMove DEF Refused, AccountBusy
    <3>2. \A p \in Requests : req'[p] = req[p]
                              \/ (req[p].pc \notin AccountBusy /\ req'[p].pc \notin AccountBusy)
      BY <2>0, <3>1 DEF Others
    <3>3. hits' = hits /\ misses' = misses /\ costs' = costs /\ sink' = sink
      BY <2>6 DEF Count
    <3>4. \/ metrics' = [metrics EXCEPT !.exceeded = @ + 1]
          \/ metrics' = [metrics EXCEPT !.warnings = @ + 1]
          \/ metrics' = metrics
      BY <2>6 DEF Count
    <3>5. /\ metrics' \in [requests: Nat, pii: Nat, exceeded: Nat, warnings: Nat]
          /\ metrics'.requests = metrics.requests /\ metrics'.pii = metrics.pii
      BY <1>0, <3>4
    <3> QED
      BY <1>0, <3>2, <3>3, <3>5, QuietAccounts
  <2>7. CASE Reject(r)
    <3>1. Advanced(r) /\ req[r].pc = "get"
      BY <2>7, DeliverMove DEF Reject
    <3>2. req[r].pc \notin AccountBusy /\ req'[r].pc \notin AccountBusy
      BY <3>1 DEF Advanced, AccountBusy
    <3>3. hits' = hits /\ misses' = misses /\ costs' = costs /\ sink' = sink /\ metrics' = metrics
      BY <2>7 DEF Reject
    <3> QED
      BY <2>1, <3>2, <3>3
  <2>8. CASE GetCached(r)
    <3>1. req[r].pc \notin AccountBusy /\ req'[r].pc \notin AccountBusy
      BY <2>8, GetCachedMove DEF AccountBusy
    <3> QED
      BY <2>1, <2>8, <3>1 DEF GetCached
  <2>9. CASE Insert(r)
    BY <1>0, <2>9, InsertAccounts
  <2>10. CASE Passes(r)
    BY <1>0, <2>10, CountLookupAccounts, RecordAccounts, MeterRequestAccounts, MeterPiiAccounts
       DEF Passes
  <2>11. CASE Deliver(r)
    BY <1>0, <2>11, DeliverAccounts
  <2> QED
    BY <1>1, <2>2, <2>3, <2>4, <2>5, <2>6, <2>7, <2>8, <2>9, <2>10, <2>11 DEF Acts
<1>2. ASSUME req' = req, hits' = hits, misses' = misses, costs' = costs, metrics' = metrics, sink' = sink
      PROVE  AccountsInd'
  BY <1>0, <1>2, QuietAccounts
<1>3. ASSUME NEW t \in Tenants, Refill(t) \/ ExpireCounter(t) PROVE AccountsInd'
  BY <1>2, <1>3, AsideStep
<1>4. ASSUME NEW k \in Words, Evict(k) PROVE AccountsInd'
  BY <1>2, <1>4, AsideStep
<1>5. CASE Enrich \/ UNCHANGED vars
  BY <1>2, <1>5, AsideStep
<1> QED
  BY <1>1, <1>3, <1>4, <1>5, StepCases

(* Whatever the requests interleave: the cache's statistics, the tenants'   *)
(* bills, the metrics and the stored records differ by exactly the entries  *)
(* that are between two of them.                                            *)
THEOREM AccountsBalance == Spec => []AccountsAgree
<1>1. Base /\ EntriesInd => StoredOnce
  BY DEF EntriesInd
<1> QED
  BY <1>1, AccountsMean, AccountsStart, AccountsStep, BaseStart, BaseStep,
     EntriesStart, EntriesStep, PTL DEF Spec
=============================================================================
