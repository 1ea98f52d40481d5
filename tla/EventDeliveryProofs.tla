------------------------- MODULE EventDeliveryProofs -------------------------
(***************************************************************************)
(* Proofs about EventDelivery for every number of events, workers,         *)
(* gateways and faults.                                                    *)
(*                                                                         *)
(* No silent loss rests on two facts: an event that is disposed of stays   *)
(* so (DisposedStays), and a subscriber acknowledges only what it has      *)
(* disposed of (AckedDisposed).                                            *)
(***************************************************************************)
EXTENDS EventDelivery, SequenceFacts, FiniteSetTheorems, TLAPS

\* What the assumptions say of the bounds.
LEMMA Constants ==
  /\ NumEvents \in Nat /\ OutboxCapacity \in Nat /\ OutboxCapacity >= 1
  /\ BatchSize \in Nat /\ BatchSize >= 1
  /\ ChannelCapacity \in Nat /\ ChannelCapacity >= 1
  /\ MaxFaults \in Nat /\ Unreadable \subseteq Events /\ None \notin Events
  BY EventsAssumption, SizesAssumption, SetsAssumption DEF Events

\* The elements of a sequence of events are events.
LEMMA EventSeq ==
  ASSUME NEW s \in Seq(Events)
  PROVE  Range(s) \subseteq Events /\ Len(s) \in Nat
  BY DEF Range

\* The empty sequence.
LEMMA EmptyQueue == <<>> \in Seq(Events) /\ Len(<<>>) = 0
  OBVIOUS

-----------------------------------------------------------------------------
\* The steps of bgp_stream keep the types.
LEMMA FeedTypes ==
  ASSUME TypeOK, Feed \/ FeedCrash \/ \E w \in Workers : WorkerStep(w)
  PROVE  TypeOK'
<1> USE DEF feedVars, serverVars, subVars, detVars
<1>1. CASE Feed
  <2>1. /\ read + 1 \in Events /\ read' \in 0..NumEvents
    BY <1>1, Constants DEF TypeOK, Feed, Events
  <2>2. Append(outbox, read + 1) \in Seq(Events) /\ Len(Append(outbox, read + 1)) = Len(outbox) + 1
        /\ Len(outbox) \in Nat
    BY <2>1 DEF TypeOK
  <2>3. outbox' \in Seq(Events) /\ Len(outbox') <= OutboxCapacity /\ dropped' \subseteq Events
    <3>1. CASE Len(outbox) < OutboxCapacity
      <4>1. outbox' = Append(outbox, read + 1) /\ dropped' = dropped BY <1>1, <3>1 DEF Feed
      <4> QED BY <2>2, <3>1, <4>1, Constants DEF TypeOK
    <3>2. CASE ~(Len(outbox) < OutboxCapacity)
      BY <1>1, <2>1, <3>2 DEF TypeOK, Feed
    <3> QED BY <3>1, <3>2
  <2> QED BY <1>1, <2>1, <2>3 DEF TypeOK, Feed
<1>2. CASE FeedCrash
  <2>1. lost' \subseteq Events
    BY <1>2, EventSeq DEF TypeOK, FeedCrash
  <2>2. /\ wbatch' \in [Workers -> Seq(Events)] /\ \A w \in Workers : Len(wbatch'[w]) = 0
        /\ outbox' \in Seq(Events) /\ Len(outbox') = 0
        /\ wpc' \in [Workers -> {"collect", "publish"}] /\ \A w \in Workers : wpc'[w] = "collect"
        /\ faults' \in 0..MaxFaults
    BY <1>2, EmptyQueue, Constants DEF TypeOK, FeedCrash
  <2> QED BY <1>2, <2>1, <2>2, Constants DEF TypeOK, FeedCrash
<1>3. ASSUME NEW w \in Workers, Collect(w) PROVE TypeOK'
  <2>1. /\ outbox' \in Seq(Events) /\ Len(outbox') = Len(outbox) - 1 /\ Head(outbox) \in Events
        /\ Len(outbox) \in Nat
    BY <1>3, HeadAndTail DEF TypeOK, Collect
  <2>2. /\ Append(wbatch[w], Head(outbox)) \in Seq(Events)
        /\ Len(Append(wbatch[w], Head(outbox))) = Len(wbatch[w]) + 1
        /\ Len(wbatch[w]) \in Nat
    <3>1. wbatch[w] \in Seq(Events) BY DEF TypeOK
    <3> QED BY <2>1, <3>1
  <2>3. wbatch' \in [Workers -> Seq(Events)] /\ wpc' \in [Workers -> {"collect", "publish"}]
    BY <1>3, <2>2 DEF TypeOK, Collect
  <2>4. ASSUME NEW v \in Workers
        PROVE  /\ wpc'[v] = "collect" => Len(wbatch'[v]) < BatchSize
               /\ wpc'[v] = "publish" => Len(wbatch'[v]) \in 1..BatchSize
    <3>1. CASE v = w
      <4>1. Len(wbatch[w]) < BatchSize BY <1>3 DEF TypeOK, Collect
      <4>2. /\ wbatch'[w] = Append(wbatch[w], Head(outbox))
            /\ wpc'[w] = IF Len(wbatch[w]) + 1 >= BatchSize THEN "publish" ELSE "collect"
        BY <1>3 DEF TypeOK, Collect
      <4> QED BY <3>1, <4>1, <4>2, <2>2, Constants
    <3>2. CASE v # w BY <1>3, <3>2 DEF TypeOK, Collect
    <3> QED BY <3>1, <3>2
  <2>5. Len(outbox') <= OutboxCapacity BY <2>1, Constants DEF TypeOK
  <2> QED BY <1>3, <2>1, <2>3, <2>4, <2>5 DEF TypeOK, Collect
<1>4. ASSUME NEW w \in Workers, Timer(w) PROVE TypeOK'
  <2>1. Len(wbatch[w]) \in 1..BatchSize
    <3>1. wbatch[w] \in Seq(Events) /\ wbatch[w] # <<>> /\ Len(wbatch[w]) < BatchSize
      BY <1>4 DEF TypeOK, Timer
    <3>2. Len(wbatch[w]) \in Nat /\ Len(wbatch[w]) # 0 BY <3>1
    <3> QED BY <3>1, <3>2, Constants
  <2>2. ASSUME NEW v \in Workers
        PROVE  /\ wpc'[v] = "collect" => Len(wbatch'[v]) < BatchSize
               /\ wpc'[v] = "publish" => Len(wbatch'[v]) \in 1..BatchSize
    BY <1>4, <2>1 DEF TypeOK, Timer
  <2> QED BY <1>4, <2>2 DEF TypeOK, Timer
<1>5. ASSUME NEW w \in Workers, Publish(w) PROVE TypeOK'
  <2>1. wbatch[w] \in Seq(Events) /\ wbatch[w] # <<>>
    <3>1. wbatch[w] \in Seq(Events) /\ Len(wbatch[w]) \in 1..BatchSize
      BY <1>5 DEF TypeOK, Publish
    <3> QED BY <3>1
  <2>2. /\ Tail(wbatch[w]) \in Seq(Events) /\ Len(Tail(wbatch[w])) = Len(wbatch[w]) - 1
        /\ Head(wbatch[w]) \in Events /\ Len(wbatch[w]) \in Nat
    BY <2>1, HeadAndTail
  <2>3. wbatch' \in [Workers -> Seq(Events)] /\ wpc' \in [Workers -> {"collect", "publish"}]
    BY <1>5, <2>2 DEF TypeOK, Publish
  <2>4. ASSUME NEW v \in Workers
        PROVE  /\ wpc'[v] = "collect" => Len(wbatch'[v]) < BatchSize
               /\ wpc'[v] = "publish" => Len(wbatch'[v]) \in 1..BatchSize
    <3>1. CASE v = w
      <4>1. Len(wbatch[w]) \in 1..BatchSize BY <1>5 DEF TypeOK, Publish
      <4>2. /\ wbatch'[w] = Tail(wbatch[w])
            /\ wpc'[w] = IF Len(wbatch[w]) = 1 THEN "collect" ELSE "publish"
        BY <1>5 DEF TypeOK, Publish
      <4>3. Len(wbatch'[w]) = Len(wbatch[w]) - 1 BY <2>2, <4>2
      <4>4. CASE Len(wbatch[w]) = 1
        <5>1. wpc'[w] = "collect" /\ Len(wbatch'[w]) = 0 BY <4>2, <4>3, <4>4
        <5> QED BY <3>1, <5>1, Constants
      <4>5. CASE Len(wbatch[w]) # 1
        <5>1. wpc'[w] = "publish" BY <4>2, <4>5
        <5>2. \A n \in 1..BatchSize : n # 1 => n - 1 \in 1..BatchSize BY Constants
        <5>3. Len(wbatch[w]) - 1 \in 1..BatchSize BY <4>1, <4>5, <5>2
        <5> QED BY <3>1, <4>3, <5>1, <5>3
      <4> QED BY <4>4, <4>5
    <3>2. CASE v # w BY <1>5, <3>2 DEF TypeOK, Publish
    <3> QED BY <3>1, <3>2
  <2>5. /\ stream' \subseteq Events /\ ready' \subseteq stream'
        /\ vanished' \subseteq Events /\ dropped' \subseteq Events
    BY <1>5, <2>2 DEF TypeOK, Publish
  <2> QED BY <1>5, <2>3, <2>4, <2>5 DEF TypeOK, Publish
<1> QED BY <1>1, <1>2, <1>3, <1>4, <1>5 DEF WorkerStep

\* The steps of JetStream and of a subscriber keep the types.
LEMMA SubscriberTypes ==
  ASSUME TypeOK,
         \/ \E e \in Events : AckWaitOver(e) \/ Discard(e)
         \/ \E g \in Gateways : SubscriberStep(g) \/ Disconnect(g)
  PROVE  TypeOK'
<1> USE DEF feedVars, serverVars, subVars, detVars
<1>1. ASSUME NEW e \in Events, AckWaitOver(e) PROVE TypeOK'
  BY <1>1, Constants DEF TypeOK, AckWaitOver
<1>2. ASSUME NEW e \in Events, Discard(e) PROVE TypeOK'
  BY <1>2 DEF TypeOK, Discard
<1>3. ASSUME NEW g \in Gateways, Connect(g) PROVE TypeOK'
  BY <1>3 DEF TypeOK, Connect
<1>4. ASSUME NEW g \in Gateways, Disconnect(g) PROVE TypeOK'
  BY <1>4, Constants DEF TypeOK, Disconnect
<1>5. ASSUME NEW g \in Gateways, NEW e \in Events, Deliver(g, e) PROVE TypeOK'
  BY <1>5, Constants DEF TypeOK, Deliver
<1>6. ASSUME NEW g \in Gateways, Ack(g) PROVE TypeOK'
  <2>1. /\ stream' \subseteq Events /\ ready' \subseteq stream' /\ faults' \in 0..MaxFaults
    BY <1>6, Constants DEF TypeOK, Ack
  <2>2. hand' \in [Gateways -> Events \cup {None}] BY <1>6 DEF TypeOK, Ack
  <2>3. /\ gpc' \in [Gateways -> {"connect", "listen", "got", "ack"}]
        /\ \A h \in Gateways : hand'[h] # None <=> gpc'[h] \in {"got", "ack"}
    BY <1>6 DEF TypeOK, Ack
  <2>4. UNCHANGED <<feedVars, deliveries, discarded, handled, detVars, dropped, lost>>
    BY <1>6 DEF Ack
  <2> QED BY <2>1, <2>2, <2>3, <2>4 DEF TypeOK
<1>7. ASSUME NEW g \in Gateways, Forward(g) PROVE TypeOK'
  <2>1. hand[g] \in Events /\ chan[g] \in Seq(Events) /\ Len(chan[g]) \in Nat
    BY <1>7 DEF TypeOK, Forward
  <2>2. /\ Append(chan[g], hand[g]) \in Seq(Events)
        /\ Len(Append(chan[g], hand[g])) = Len(chan[g]) + 1
    BY <2>1
  <2>3. /\ chan' \in [Gateways -> Seq(Events)] /\ dropped' \subseteq Events
        /\ \A h \in Gateways : Len(chan'[h]) <= ChannelCapacity
    <3>1. CASE hand[g] \notin Unreadable /\ Len(chan[g]) < ChannelCapacity
      <4>1. chan' = [chan EXCEPT ![g] = Append(chan[g], hand[g])] /\ dropped' = dropped
        BY <1>7, <3>1 DEF Forward
      <4>2. Len(chan[g]) + 1 <= ChannelCapacity BY <2>1, <3>1, Constants
      <4> QED BY <2>2, <4>1, <4>2 DEF TypeOK
    <3>2. CASE hand[g] \in Unreadable \/ ~(Len(chan[g]) < ChannelCapacity)
      BY <1>7, <2>1, <3>2 DEF TypeOK, Forward
    <3> QED BY <3>1, <3>2
  <2>4. /\ handled' \in [Events -> Nat]
        /\ gpc' \in [Gateways -> {"connect", "listen", "got", "ack"}]
        /\ \A h \in Gateways : hand'[h] # None <=> gpc'[h] \in {"got", "ack"}
    BY <1>7, <2>1 DEF TypeOK, Forward
  <2> QED BY <1>7, <2>3, <2>4 DEF TypeOK, Forward
<1> QED BY <1>1, <1>2, <1>3, <1>4, <1>5, <1>6, <1>7 DEF SubscriberStep

\* The steps of a detector, and the end of a gateway, keep the types.
LEMMA DetectorTypes ==
  ASSUME TypeOK, \E g \in Gateways : DetectorStep(g) \/ Hang(g) \/ GatewayCrash(g)
  PROVE  TypeOK'
<1> USE DEF feedVars, serverVars, subVars, detVars
<1>1. ASSUME NEW g \in Gateways, Receive(g) PROVE TypeOK'
  <2>1. chan[g] \in Seq(Events) /\ chan[g] # <<>> BY <1>1 DEF TypeOK, Receive
  <2>2. /\ Tail(chan[g]) \in Seq(Events) /\ Len(Tail(chan[g])) = Len(chan[g]) - 1
        /\ Head(chan[g]) \in Events /\ Len(chan[g]) \in Nat
    BY <2>1, HeadAndTail
  <2>3. /\ chan' \in [Gateways -> Seq(Events)] /\ busy' \in [Gateways -> Events \cup {None}]
        /\ \A h \in Gateways : Len(chan'[h]) <= ChannelCapacity
    BY <1>1, <2>2, Constants DEF TypeOK, Receive
  <2> QED BY <1>1, <2>3 DEF TypeOK, Receive
<1>2. ASSUME NEW g \in Gateways, Process(g) PROVE TypeOK'
  BY <1>2 DEF TypeOK, Process
<1>3. ASSUME NEW g \in Gateways, Hang(g) PROVE TypeOK'
  BY <1>3 DEF TypeOK, Hang
<1>4. ASSUME NEW g \in Gateways, GatewayCrash(g) PROVE TypeOK'
  <2>1. chan[g] \in Seq(Events) BY DEF TypeOK
  <2>2. lost' \subseteq Events BY <1>4, <2>1, EventSeq DEF TypeOK, GatewayCrash
  <2>3. /\ chan' \in [Gateways -> Seq(Events)] /\ busy' \in [Gateways -> Events \cup {None}]
        /\ \A h \in Gateways : Len(chan'[h]) <= ChannelCapacity
    BY <1>4, EmptyQueue, Constants DEF TypeOK, GatewayCrash
  <2>4. /\ hand' \in [Gateways -> Events \cup {None}]
        /\ gpc' \in [Gateways -> {"connect", "listen", "got", "ack"}]
        /\ \A h \in Gateways : hand'[h] # None <=> gpc'[h] \in {"got", "ack"}
    BY <1>4 DEF TypeOK, GatewayCrash
  <2>5. hung' \subseteq Gateways /\ faults' \in 0..MaxFaults
    BY <1>4, Constants DEF TypeOK, GatewayCrash
  <2> QED BY <1>4, <2>2, <2>3, <2>4, <2>5 DEF TypeOK, GatewayCrash
<1> QED BY <1>1, <1>2, <1>3, <1>4 DEF DetectorStep

\* Every step keeps the types.
LEMMA TypeStep == ASSUME TypeOK, [Next]_vars PROVE TypeOK'
<1>1. CASE UNCHANGED vars
  BY <1>1 DEF vars, feedVars, serverVars, subVars, detVars, TypeOK
<1> QED BY <1>1, FeedTypes, SubscriberTypes, DetectorTypes DEF Next

-----------------------------------------------------------------------------
\* Event e waits in bgp_stream.
Unpublished(e) == e \in Range(outbox) \/ \E w \in Workers : e \in Range(wbatch[w])

\* Event e has been dealt with, or waits in a gateway.
Disposed(e) ==
  \/ \E g \in Gateways : e \in Range(chan[g]) \/ busy[g] = e
  \/ e \in processed \cup Unreadable
  \/ GivenUp(e)

\* A subscriber acknowledges only what it has disposed of.
AckedDisposed == \A g \in Gateways : gpc[g] = "ack" => Disposed(hand[g])

\* The two parts of memory.
LEMMA MemoryParts ==
  NoSilentLoss <=> \A e \in 1..read : Unpublished(e) \/ e \in stream \/ Disposed(e)
  BY DEF NoSilentLoss, InMemory, Unpublished, Disposed

\* What is disposed of stays so.
LEMMA DisposedStays ==
  ASSUME TypeOK, [Next]_vars, NEW e \in Events, Disposed(e)
  PROVE  Disposed(e)'
<1> USE DEF feedVars, serverVars, subVars, detVars, Disposed, GivenUp
<1>1. CASE Feed \/ FeedCrash BY <1>1 DEF Feed, FeedCrash
<1>2. ASSUME NEW w \in Workers, WorkerStep(w) PROVE Disposed(e)'
  BY <1>2 DEF WorkerStep, Collect, Timer, Publish
<1>3. ASSUME NEW x \in Events, AckWaitOver(x) \/ Discard(x) PROVE Disposed(e)'
  BY <1>3 DEF AckWaitOver, Discard
<1>4. ASSUME NEW g \in Gateways,
             Connect(g) \/ (\E x \in Events : Deliver(g, x)) \/ Ack(g) \/ Disconnect(g)
      PROVE  Disposed(e)'
  BY <1>4 DEF Connect, Deliver, Ack, Disconnect
<1>5. ASSUME NEW g \in Gateways, Forward(g) PROVE Disposed(e)'
  <2>1. hand[g] \in Events /\ chan[g] \in Seq(Events) BY <1>5 DEF TypeOK, Forward
  <2>2. Range(chan[g]) \subseteq Range(Append(chan[g], hand[g])) BY <2>1, RangeAppend
  <2>3. \A h \in Gateways : Range(chan[h]) \subseteq Range(chan'[h])
    BY <1>5, <2>2 DEF TypeOK, Forward
  <2> QED BY <1>5, <2>3 DEF Forward
<1>6. ASSUME NEW g \in Gateways, Receive(g) PROVE Disposed(e)'
  <2>1. chan[g] \in Seq(Events) /\ chan[g] # <<>> BY <1>6 DEF TypeOK, Receive
  <2>2. Range(chan[g]) = Range(Tail(chan[g])) \cup {Head(chan[g])} BY <2>1, HeadAndTail
  <2>3. /\ chan'[g] = Tail(chan[g]) /\ busy'[g] = Head(chan[g]) /\ busy[g] = None
        /\ \A h \in Gateways : h # g => chan'[h] = chan[h] /\ busy'[h] = busy[h]
    BY <1>6 DEF TypeOK, Receive
  <2> QED BY <1>6, <2>2, <2>3, Constants DEF Receive
<1>7. ASSUME NEW g \in Gateways, Process(g) PROVE Disposed(e)'
  <2>1. /\ processed' = processed \cup {busy[g]}
        /\ \A h \in Gateways : h # g => busy'[h] = busy[h]
    BY <1>7 DEF TypeOK, Process
  <2> QED BY <1>7, <2>1 DEF Process
<1>8. ASSUME NEW g \in Gateways, Hang(g) PROVE Disposed(e)'
  BY <1>8 DEF Hang
<1>9. ASSUME NEW g \in Gateways, GatewayCrash(g) PROVE Disposed(e)'
  <2>1. /\ lost' = lost \cup Range(chan[g]) \cup ({busy[g]} \ {None})
        /\ \A h \in Gateways : h # g => chan'[h] = chan[h] /\ busy'[h] = busy[h]
    BY <1>9 DEF TypeOK, GatewayCrash
  <2> QED BY <1>9, <2>1, Constants DEF GatewayCrash
<1>10. CASE UNCHANGED vars BY <1>10 DEF vars
<1> QED
  BY <1>1, <1>2, <1>3, <1>4, <1>5, <1>6, <1>7, <1>8, <1>9, <1>10
  DEF Next, SubscriberStep, DetectorStep

\* What waits in bgp_stream goes to the stream or is given up.
LEMMA UnpublishedGoesOn ==
  ASSUME TypeOK, [Next]_vars, NEW e \in Events, Unpublished(e)
  PROVE  Unpublished(e)' \/ e \in stream' \/ Disposed(e)'
<1> USE DEF feedVars, serverVars, subVars, detVars
<1>1. CASE Feed
  <2>1. read + 1 \in Events BY <1>1, Constants DEF TypeOK, Feed, Events
  <2>2. Range(outbox) \subseteq Range(Append(outbox, read + 1))
    BY <2>1, RangeAppend DEF TypeOK
  <2>3. Range(outbox) \subseteq Range(outbox') BY <1>1, <2>2 DEF Feed
  <2> QED BY <1>1, <2>3 DEF Feed, Unpublished
<1>2. CASE FeedCrash BY <1>2 DEF FeedCrash, Unpublished, Disposed, GivenUp
<1>3. ASSUME NEW w \in Workers, Collect(w) PROVE Unpublished(e)'
  <2>1. /\ Head(outbox) \in Events /\ Range(outbox) = Range(outbox') \cup {Head(outbox)}
    BY <1>3, HeadAndTail DEF TypeOK, Collect
  <2>2. wbatch'[w] = Append(wbatch[w], Head(outbox)) /\ wbatch[w] \in Seq(Events)
    BY <1>3 DEF TypeOK, Collect
  <2>3. Range(wbatch'[w]) = Range(wbatch[w]) \cup {Head(outbox)}
    BY <2>1, <2>2, RangeAppend
  <2>4. \A v \in Workers : Range(wbatch[v]) \subseteq Range(wbatch'[v])
    BY <1>3, <2>3 DEF TypeOK, Collect
  <2> QED BY <2>1, <2>3, <2>4 DEF Unpublished
<1>4. ASSUME NEW w \in Workers, Timer(w) PROVE Unpublished(e)'
  BY <1>4 DEF Timer, Unpublished
<1>5. ASSUME NEW w \in Workers, Publish(w)
      PROVE  Unpublished(e)' \/ e \in stream' \/ Disposed(e)'
  <2>1. wbatch[w] \in Seq(Events) /\ wbatch[w] # <<>>
    <3>1. wbatch[w] \in Seq(Events) /\ Len(wbatch[w]) \in 1..BatchSize
      BY <1>5 DEF TypeOK, Publish
    <3> QED BY <3>1
  <2>2. Range(wbatch[w]) = Range(Tail(wbatch[w])) \cup {Head(wbatch[w])}
    BY <2>1, HeadAndTail
  <2>3. /\ wbatch'[w] = Tail(wbatch[w]) /\ outbox' = outbox
        /\ \A v \in Workers : v # w => wbatch'[v] = wbatch[v]
    BY <1>5 DEF TypeOK, Publish
  <2>4. Head(wbatch[w]) \in stream' \cup vanished' \cup dropped'
    BY <1>5 DEF Publish
  <2> QED BY <2>2, <2>3, <2>4 DEF Unpublished, Disposed, GivenUp
<1>6. CASE UNCHANGED feedVars BY <1>6 DEF Unpublished
<1>7. CASE \/ \E x \in Events : AckWaitOver(x) \/ Discard(x)
           \/ \E g \in Gateways : SubscriberStep(g) \/ Disconnect(g)
           \/ \E g \in Gateways : DetectorStep(g) \/ Hang(g) \/ GatewayCrash(g)
           \/ UNCHANGED vars
  <2>1. UNCHANGED feedVars
    BY <1>7 DEF AckWaitOver, Discard, SubscriberStep, Connect, Deliver, Forward, Ack,
      Disconnect, DetectorStep, Receive, Process, Hang, GatewayCrash, vars
  <2> QED BY <1>6, <2>1
<1> QED BY <1>1, <1>2, <1>3, <1>4, <1>5, <1>7 DEF Next, WorkerStep

\* A subscriber comes to acknowledge a message by forwarding it.
LEMMA AckSource ==
  ASSUME TypeOK, [Next]_vars, NEW g \in Gateways, gpc'[g] = "ack"
  PROVE  (gpc[g] = "ack" /\ hand'[g] = hand[g]) \/ Forward(g)
<1> USE DEF feedVars, serverVars, subVars, detVars
<1>1. CASE UNCHANGED <<gpc, hand>> BY <1>1
<1>2. ASSUME NEW h \in Gateways, SubscriberStep(h) \/ Disconnect(h) \/ GatewayCrash(h)
      PROVE  (gpc[g] = "ack" /\ hand'[g] = hand[g]) \/ Forward(g)
  <2>1. CASE h = g
    BY <1>2, <2>1 DEF TypeOK, SubscriberStep, Connect, Deliver, Ack, Disconnect, GatewayCrash
  <2>2. CASE h # g
    BY <1>2, <2>2 DEF TypeOK, SubscriberStep, Connect, Deliver, Forward, Ack, Disconnect,
      GatewayCrash
  <2> QED BY <2>1, <2>2
<1>3. CASE \/ Feed \/ FeedCrash \/ UNCHANGED vars
           \/ \E w \in Workers : WorkerStep(w)
           \/ \E e \in Events : AckWaitOver(e) \/ Discard(e)
           \/ \E h \in Gateways : DetectorStep(h) \/ Hang(h)
  <2>1. UNCHANGED <<gpc, hand>>
    BY <1>3 DEF Feed, FeedCrash, vars, WorkerStep, Collect, Timer, Publish, AckWaitOver,
      Discard, DetectorStep, Receive, Process, Hang
  <2> QED BY <1>1, <2>1
<1> QED BY <1>2, <1>3 DEF Next

\* A message leaves the stream when it was disposed of, or by the stream's limits.
LEMMA StreamStays ==
  ASSUME TypeOK, AckedDisposed, [Next]_vars, NEW e \in stream
  PROVE  e \in stream' \/ Disposed(e)'
<1> USE DEF feedVars, serverVars, subVars, detVars
<1>1. ASSUME NEW g \in Gateways, Ack(g) PROVE e \in stream' \/ Disposed(e)'
  <2>1. e = hand[g] => Disposed(e) BY <1>1 DEF Ack, AckedDisposed
  <2>2. e \in Events BY DEF TypeOK
  <2>3. e = hand[g] => Disposed(e)' BY <2>1, <2>2, DisposedStays
  <2> QED BY <1>1, <2>3 DEF Ack
<1>2. ASSUME NEW x \in Events, Discard(x) PROVE e \in stream' \/ Disposed(e)'
  BY <1>2 DEF Discard, Disposed, GivenUp
<1>3. CASE \/ Feed \/ FeedCrash \/ UNCHANGED vars
           \/ \E w \in Workers : WorkerStep(w)
           \/ \E x \in Events : AckWaitOver(x)
           \/ \E g \in Gateways : Connect(g) \/ (\E x \in Events : Deliver(g, x)) \/ Forward(g)
           \/ \E g \in Gateways : Disconnect(g) \/ DetectorStep(g) \/ Hang(g) \/ GatewayCrash(g)
  BY <1>3 DEF Feed, FeedCrash, vars, WorkerStep, Collect, Timer, Publish, AckWaitOver,
    Connect, Deliver, Forward, Disconnect, DetectorStep, Receive, Process, Hang, GatewayCrash
<1> QED BY <1>1, <1>2, <1>3 DEF Next, SubscriberStep

\* Forwarding disposes of the message.
LEMMA ForwardDisposes ==
  ASSUME TypeOK, NEW g \in Gateways, Forward(g)
  PROVE  Disposed(hand[g])' /\ hand' = hand
<1>1. hand[g] \in Events /\ chan[g] \in Seq(Events) BY DEF TypeOK, Forward
<1>2. hand' = hand BY DEF Forward
<1>3. CASE hand[g] \in Unreadable BY <1>2, <1>3 DEF Disposed
<1>4. CASE hand[g] \notin Unreadable /\ Len(chan[g]) < ChannelCapacity
  <2>1. chan'[g] = Append(chan[g], hand[g]) BY <1>4 DEF Forward, TypeOK
  <2>2. hand[g] \in Range(chan'[g]) BY <1>1, <2>1, RangeAppend
  <2> QED BY <1>2, <2>2 DEF Disposed
<1>5. CASE hand[g] \notin Unreadable /\ ~(Len(chan[g]) < ChannelCapacity)
  BY <1>2, <1>5 DEF Forward, Disposed, GivenUp
<1> QED BY <1>2, <1>3, <1>4, <1>5

\* No step loses an event silently.
LEMMA LossStep ==
  ASSUME TypeOK, AckedDisposed, NoSilentLoss, [Next]_vars
  PROVE  AckedDisposed' /\ NoSilentLoss'
<1>1. AckedDisposed'
  <2> SUFFICES ASSUME NEW g \in Gateways, gpc'[g] = "ack" PROVE Disposed(hand[g])'
    BY DEF AckedDisposed
  <2>1. CASE Forward(g) BY <2>1, ForwardDisposes
  <2>2. CASE gpc[g] = "ack" /\ hand'[g] = hand[g]
    <3>1. hand[g] \in Events /\ Disposed(hand[g]) BY <2>2 DEF TypeOK, AckedDisposed
    <3>2. ASSUME NEW e \in Events, Disposed(e) PROVE Disposed(e)' BY <3>2, DisposedStays
    <3> QED BY <2>2, <3>1, <3>2 DEF Disposed, GivenUp
  <2> QED BY <2>1, <2>2, AckSource
<1>2. ASSUME NEW e \in 1..read'
      PROVE  Unpublished(e)' \/ e \in stream' \/ Disposed(e)'
  <2>1. read \in 0..NumEvents /\ read' \in 0..NumEvents BY TypeStep DEF TypeOK
  <2>2. e \in Events BY <2>1, Constants DEF Events
  <2>3. CASE e \in 1..read
    <3>1. Unpublished(e) \/ e \in stream \/ Disposed(e) BY <2>3, MemoryParts
    <3> QED BY <2>2, <3>1, UnpublishedGoesOn, StreamStays, DisposedStays
  <2>4. CASE e \notin 1..read
    <3>1. Feed /\ e = read + 1
      <4>1. CASE Feed BY <2>1, <2>4, <4>1 DEF Feed
      <4>2. CASE ~Feed
        <5>1. read' = read
          BY <4>2 DEF Next, vars, feedVars, FeedCrash, WorkerStep, Collect, Timer, Publish,
            AckWaitOver, Discard, SubscriberStep, Connect, Deliver, Forward, Ack, Disconnect,
            DetectorStep, Receive, Process, Hang, GatewayCrash
        <5> QED BY <2>4, <5>1
      <4> QED BY <4>1, <4>2
    <3>2. CASE Len(outbox) < OutboxCapacity
      <4>1. outbox' = Append(outbox, e) BY <3>1, <3>2 DEF Feed
      <4>2. e \in Range(outbox') BY <2>2, <4>1, RangeAppend DEF TypeOK
      <4> QED BY <4>2 DEF Unpublished
    <3>3. CASE ~(Len(outbox) < OutboxCapacity)
      BY <3>1, <3>3 DEF Feed, Disposed, GivenUp
    <3> QED BY <3>2, <3>3
  <2> QED BY <2>3, <2>4
<1>3. NoSilentLoss'
  <2>1. NoSilentLoss' <=> \A e \in 1..read' : Unpublished(e)' \/ e \in stream' \/ Disposed(e)'
    BY DEF NoSilentLoss, InMemory, Unpublished, Disposed, GivenUp
  <2> QED BY <1>2, <2>1
<1> QED BY <1>1, <1>3

-----------------------------------------------------------------------------
\* The number of subscribers with a delivery of e to dispose of.
LEMMA PendingType ==
  ASSUME NEW e
  PROVE  IsFiniteSet(Pending(e)) /\ Cardinality(Pending(e)) \in Nat
<1>1. Pending(e) \in SUBSET Gateways BY DEF Pending
<1>2. IsFiniteSet(Pending(e)) BY <1>1, FS_Subset, SetsAssumption
<1> QED BY <1>2, FS_CardinalityType

\* No step disposes of an event more often than it was given out.
LEMMA CountStep ==
  ASSUME TypeOK, OncePerDelivery, [Next]_vars
  PROVE  OncePerDelivery'
<1> USE DEF feedVars, serverVars, subVars, detVars
<1> SUFFICES ASSUME NEW e \in Events
             PROVE  handled'[e] + Cardinality(Pending(e)') <= deliveries'[e]
  BY DEF OncePerDelivery
<1>0. /\ handled[e] + Cardinality(Pending(e)) <= deliveries[e]
      /\ handled[e] \in Nat /\ deliveries[e] \in Nat
      /\ IsFiniteSet(Pending(e)) /\ Cardinality(Pending(e)) \in Nat
  BY PendingType DEF OncePerDelivery, TypeOK
<1>1. ASSUME Pending(e)' = Pending(e), handled' = handled, deliveries' = deliveries
      PROVE  handled'[e] + Cardinality(Pending(e)') <= deliveries'[e]
  BY <1>0, <1>1
<1>2. ASSUME NEW g \in Gateways, NEW x \in Events, Deliver(g, x)
      PROVE  handled'[e] + Cardinality(Pending(e)') <= deliveries'[e]
  <2>1. CASE x = e
    <3>1. Pending(e)' = Pending(e) \cup {g} /\ g \notin Pending(e)
      BY <1>2, <2>1 DEF TypeOK, Deliver, Pending
    <3>2. Cardinality(Pending(e)') = Cardinality(Pending(e)) + 1
      BY <1>0, <3>1, FS_AddElement
    <3>3. handled' = handled /\ deliveries'[e] = deliveries[e] + 1
      BY <1>2, <2>1 DEF TypeOK, Deliver
    <3> QED BY <1>0, <3>2, <3>3
  <2>2. CASE x # e
    <3>1. Pending(e)' = Pending(e) BY <1>2, <2>2 DEF TypeOK, Deliver, Pending
    <3>2. handled' = handled /\ deliveries'[e] = deliveries[e]
      BY <1>2, <2>2 DEF TypeOK, Deliver
    <3> QED BY <1>0, <3>1, <3>2
  <2> QED BY <2>1, <2>2
<1>3. ASSUME NEW g \in Gateways, Forward(g)
      PROVE  handled'[e] + Cardinality(Pending(e)') <= deliveries'[e]
  <2>1. CASE hand[g] = e
    <3>1. Pending(e)' = Pending(e) \ {g} /\ g \in Pending(e)
      BY <1>3, <2>1 DEF TypeOK, Forward, Pending
    <3>2. Cardinality(Pending(e)') = Cardinality(Pending(e)) - 1
      BY <1>0, <3>1, FS_RemoveElement
    <3>3. deliveries' = deliveries /\ handled'[e] = handled[e] + 1
      BY <1>3, <2>1 DEF TypeOK, Forward
    <3> QED BY <1>0, <3>2, <3>3
  <2>2. CASE hand[g] # e
    <3>1. Pending(e)' = Pending(e) BY <1>3, <2>2 DEF TypeOK, Forward, Pending
    <3>2. deliveries' = deliveries /\ handled'[e] = handled[e]
      BY <1>3, <2>2 DEF TypeOK, Forward
    <3> QED BY <1>0, <3>1, <3>2
  <2> QED BY <2>1, <2>2
<1>4. ASSUME NEW g \in Gateways, GatewayCrash(g)
      PROVE  handled'[e] + Cardinality(Pending(e)') <= deliveries'[e]
  <2>1. Pending(e)' \subseteq Pending(e) BY <1>4 DEF TypeOK, GatewayCrash, Pending
  <2>2. Cardinality(Pending(e)') <= Cardinality(Pending(e)) /\ Cardinality(Pending(e)') \in Nat
    BY <1>0, <2>1, FS_Subset, FS_CardinalityType
  <2>3. deliveries' = deliveries /\ handled' = handled BY <1>4 DEF GatewayCrash
  <2> QED BY <1>0, <2>2, <2>3
<1>5. ASSUME NEW g \in Gateways, Connect(g) \/ Ack(g) \/ Disconnect(g)
      PROVE  handled'[e] + Cardinality(Pending(e)') <= deliveries'[e]
  <2>1. Pending(e)' = Pending(e) BY <1>5 DEF TypeOK, Connect, Ack, Disconnect, Pending
  <2>2. deliveries' = deliveries /\ handled' = handled BY <1>5 DEF Connect, Ack, Disconnect
  <2> QED BY <1>1, <2>1, <2>2
<1>6. CASE \/ Feed \/ FeedCrash \/ UNCHANGED vars
           \/ \E w \in Workers : WorkerStep(w)
           \/ \E x \in Events : AckWaitOver(x) \/ Discard(x)
           \/ \E g \in Gateways : DetectorStep(g) \/ Hang(g)
  <2>1. UNCHANGED <<gpc, hand, handled, deliveries>>
    BY <1>6 DEF Feed, FeedCrash, vars, WorkerStep, Collect, Timer, Publish, AckWaitOver,
      Discard, DetectorStep, Receive, Process, Hang
  <2>2. Pending(e)' = Pending(e) BY <2>1 DEF Pending
  <2> QED BY <1>1, <2>1, <2>2
<1> QED BY <1>2, <1>3, <1>4, <1>5, <1>6 DEF Next, SubscriberStep

-----------------------------------------------------------------------------
\* The channel and the batches of bgp_stream hold each event at most once.
FedOnce ==
  /\ Increasing(outbox)
  /\ \A e \in Range(outbox) : e <= read
  /\ \A w \in Workers :
       /\ Increasing(wbatch[w])
       /\ \A e \in Range(wbatch[w]) :
            /\ e <= read
            /\ \A x \in Range(outbox) : e < x
            /\ \A v \in Workers : v # w => e \notin Range(wbatch[v])

\* An event not yet published is neither stored nor given out.
NotYet ==
  \A e \in Events : e > read \/ Unpublished(e) => e \notin stream /\ deliveries[e] = 0

\* Without a fault, what is to be given out has not been, and what has been
\* given out and is still stored is in the hands of a subscriber.
InTime ==
  faults = 0 => \A e \in Events :
    /\ deliveries[e] <= 1
    /\ e \in ready => deliveries[e] = 0
    /\ e \in stream \ ready => Held(e)

\* Events are numbers.
LEMMA EventsAreNumbers == Events \in SUBSET Nat
  BY Constants DEF Events

\* The steps that leave bgp_stream alone.
OtherStep ==
  \/ \E x \in Events : AckWaitOver(x) \/ Discard(x)
  \/ \E g \in Gateways : SubscriberStep(g) \/ Disconnect(g)
  \/ \E g \in Gateways : DetectorStep(g) \/ Hang(g) \/ GatewayCrash(g)
  \/ UNCHANGED vars

\* They do.
LEMMA OtherLeavesFeed == ASSUME OtherStep PROVE UNCHANGED feedVars
  BY DEF OtherStep, vars, AckWaitOver, Discard, SubscriberStep, Connect, Deliver, Forward,
    Ack, Disconnect, DetectorStep, Receive, Process, Hang, GatewayCrash

\* The feed hands on events in order and each once.
LEMMA FeedStep ==
  ASSUME TypeOK, FedOnce, NotYet, Feed
  PROVE  FedOnce' /\ NotYet'
<1> USE DEF feedVars, serverVars, subVars, detVars
<1>1. /\ read + 1 \in Events /\ read' = read + 1 /\ read \in Nat /\ outbox \in Seq(Events)
      /\ UNCHANGED <<wbatch, stream, deliveries>>
  BY Constants DEF TypeOK, Feed, Events
<1>2. CASE Len(outbox) < OutboxCapacity
  <2>1. outbox' = Append(outbox, read + 1) BY <1>2 DEF Feed
  <2>2. Range(outbox') = Range(outbox) \cup {read + 1} BY <1>1, <2>1, RangeAppend
  <2>3. Range(outbox) \subseteq Events BY <1>1, EventSeq
  <2>4. \A x \in Range(outbox) : x \in Nat /\ x < read + 1
    BY <1>1, <2>3 DEF FedOnce, Events
  <2>5. Increasing(outbox')
    BY <1>1, <2>1, <2>4, IncreasingAppend, EventsAreNumbers DEF FedOnce
  <2>6. \A w \in Workers : \A e \in Range(wbatch[w]) : e \in Nat /\ e <= read
    BY EventSeq, EventsAreNumbers DEF FedOnce, TypeOK
  <2>7. FedOnce'
    <3>1. \A e \in Range(outbox') : e <= read' BY <1>1, <2>2, <2>4
    <3>2. \A w \in Workers : \A e \in Range(wbatch[w]) : e <= read + 1 BY <1>1, <2>6
    <3>3. \A w \in Workers : \A e \in Range(wbatch[w]), x \in Range(outbox') : e < x
      <4>1. \A w \in Workers : \A e \in Range(wbatch[w]) : e < read + 1 BY <1>1, <2>6
      <4> QED BY <2>2, <4>1 DEF FedOnce
    <3>4. \A w \in Workers : Increasing(wbatch[w])
            /\ \A e \in Range(wbatch[w]) : \A v \in Workers : v # w => e \notin Range(wbatch[v])
      BY DEF FedOnce
    <3>5. read' = read + 1 /\ wbatch' = wbatch BY <1>1
    <3> HIDE DEF feedVars, serverVars, subVars, detVars
    <3> QED BY <2>5, <3>1, <3>2, <3>3, <3>4, <3>5, Zenon DEF FedOnce
  <2>8. NotYet' BY <1>1, <2>2 DEF NotYet, Unpublished, Events
  <2> QED BY <2>7, <2>8
<1>3. CASE ~(Len(outbox) < OutboxCapacity)
  <2>1. outbox' = outbox BY <1>3 DEF Feed
  <2>2. Range(outbox) \subseteq Events /\ \A w \in Workers : Range(wbatch[w]) \subseteq Events
    BY EventSeq DEF TypeOK
  <2>3. /\ \A e \in Range(outbox) : e <= read + 1
        /\ \A w \in Workers : \A e \in Range(wbatch[w]) : e <= read + 1
    <3>1. \A e \in Events : e <= read => e <= read + 1 BY <1>1, EventsAreNumbers
    <3> QED BY <2>2, <3>1 DEF FedOnce
  <2>4. FedOnce' BY <1>1, <2>1, <2>3 DEF FedOnce
  <2>5. NotYet' BY <1>1, <2>1 DEF NotYet, Unpublished, Events
  <2> QED BY <2>4, <2>5
<1> QED BY <1>2, <1>3

\* So does the collection of a batch.
LEMMA CollectStep ==
  ASSUME TypeOK, FedOnce, NotYet, NEW w \in Workers, Collect(w)
  PROVE  FedOnce' /\ NotYet'
<1> USE DEF feedVars, serverVars, subVars, detVars
<1> DEFINE h == Head(outbox)
<1>1. /\ outbox \in Seq(Events) /\ outbox # <<>> /\ outbox' = Tail(outbox)
      /\ wbatch[w] \in Seq(Events) /\ wbatch'[w] = Append(wbatch[w], h)
      /\ \A v \in Workers : v # w => wbatch'[v] = wbatch[v]
      /\ UNCHANGED <<read, stream, deliveries>>
  BY DEF TypeOK, Collect
<1>2. h \in Events /\ Range(outbox) = Range(outbox') \cup {h}
  BY <1>1, HeadAndTail
<1>3. Range(wbatch'[w]) = Range(wbatch[w]) \cup {h} BY <1>1, <1>2, RangeAppend
<1>4. Increasing(outbox') /\ \A x \in Range(outbox') : h < x
  BY <1>1, IncreasingTail, EventsAreNumbers DEF FedOnce
<1>5. \A x \in Range(wbatch[w]) : x < h BY <1>2 DEF FedOnce
<1>6. Increasing(wbatch'[w])
  BY <1>1, <1>2, <1>5, IncreasingAppend, EventsAreNumbers DEF FedOnce
<1>7. \A v \in Workers : h \notin Range(wbatch[v])
  <2>1. \A v \in Workers : \A x \in Range(wbatch[v]) : x < h /\ x \in Nat
    BY <1>2, EventSeq, EventsAreNumbers DEF FedOnce, TypeOK
  <2> QED BY <1>2, <2>1, EventsAreNumbers
<1> HIDE DEF h
<1>8. FedOnce'
  <2>1. Increasing(outbox') /\ \A e \in Range(outbox') : e <= read'
    BY <1>1, <1>2, <1>4 DEF FedOnce
  <2>2. ASSUME NEW u \in Workers PROVE Increasing(wbatch'[u])
    BY <1>1, <1>6 DEF FedOnce
  <2>3. ASSUME NEW u \in Workers, NEW e \in Range(wbatch'[u])
        PROVE  /\ e <= read'
               /\ \A x \in Range(outbox') : e < x
               /\ \A v \in Workers : v # u => e \notin Range(wbatch'[v])
    <3>1. CASE u = w /\ e = h BY <1>1, <1>2, <1>4, <1>7, <3>1 DEF FedOnce
    <3>2. CASE u = w /\ e # h BY <1>1, <1>2, <1>3, <3>2 DEF FedOnce
    <3>3. CASE u # w
      <4>1. e \in Range(wbatch[u]) /\ e # h BY <1>1, <1>7, <3>3
      <4> QED BY <1>1, <1>2, <1>3, <3>3, <4>1 DEF FedOnce
    <3> QED BY <3>1, <3>2, <3>3
  <2> QED BY <2>1, <2>2, <2>3 DEF FedOnce
<1>9. NotYet'
  <2>1. \A e : Unpublished(e)' => Unpublished(e)
    BY <1>1, <1>2, <1>3 DEF Unpublished
  <2> QED BY <1>1, <2>1 DEF NotYet
<1> QED BY <1>8, <1>9

\* A published event is no longer with bgp_stream.
LEMMA PublishStep ==
  ASSUME TypeOK, FedOnce, NotYet, NEW w \in Workers, Publish(w)
  PROVE  FedOnce' /\ NotYet' /\ Head(wbatch[w]) \in Events /\ Unpublished(Head(wbatch[w]))
<1> USE DEF feedVars, serverVars, subVars, detVars
<1> DEFINE h == Head(wbatch[w])
<1>1. wbatch[w] \in Seq(Events) /\ wbatch[w] # <<>>
  <2>1. wbatch[w] \in Seq(Events) /\ Len(wbatch[w]) \in 1..BatchSize
    BY DEF TypeOK, Publish
  <2> QED BY <2>1
<1>2. /\ wbatch'[w] = Tail(wbatch[w])
      /\ \A v \in Workers : v # w => wbatch'[v] = wbatch[v]
      /\ stream' \subseteq stream \cup {h}
      /\ UNCHANGED <<read, outbox, deliveries>>
  BY DEF TypeOK, Publish
<1>3. h \in Events /\ Range(wbatch[w]) = Range(wbatch'[w]) \cup {h}
  BY <1>1, <1>2, HeadAndTail
<1>4. Increasing(wbatch'[w]) /\ h \notin Range(wbatch'[w])
  BY <1>1, <1>2, IncreasingTail, EventsAreNumbers DEF FedOnce
<1>5. h \notin Range(outbox) /\ h <= read /\ \A v \in Workers : v # w => h \notin Range(wbatch[v])
  <2>1. h \in Range(wbatch[w]) /\ h \in Nat BY <1>3, EventsAreNumbers
  <2>2. \A x \in Range(outbox) : h < x BY <2>1 DEF FedOnce
  <2>3. h \notin Range(outbox) BY <2>1, <2>2
  <2> QED BY <2>1, <2>3 DEF FedOnce
<1> HIDE DEF h
<1>6. FedOnce'
  <2>1. \A v \in Workers : Range(wbatch'[v]) \subseteq Range(wbatch[v]) /\ Increasing(wbatch'[v])
    BY <1>2, <1>3, <1>4 DEF FedOnce
  <2> QED BY <1>2, <2>1 DEF FedOnce
<1>7. NotYet'
  <2>1. \A e : Unpublished(e)' => Unpublished(e) /\ e # h
    BY <1>2, <1>3, <1>4, <1>5 DEF Unpublished
  <2>2. \A e \in Events : e > read => e # h
    BY <1>3, <1>5, EventsAreNumbers, Constants DEF TypeOK
  <2> QED BY <1>2, <2>1, <2>2 DEF NotYet
<1>8. Unpublished(h) BY <1>3 DEF Unpublished
<1> QED BY <1>3, <1>6, <1>7, <1>8 DEF h

\* Every step keeps bgp_stream in order.
LEMMA OrderStep ==
  ASSUME TypeOK, FedOnce, NotYet, [Next]_vars
  PROVE  FedOnce' /\ NotYet'
<1> USE DEF feedVars, serverVars, subVars, detVars
<1>1. CASE Feed BY <1>1, FeedStep
<1>2. CASE FeedCrash
  <2>1. /\ outbox' = <<>> /\ \A w \in Workers : wbatch'[w] = <<>>
        /\ UNCHANGED <<read, stream, deliveries>>
    BY <1>2 DEF FeedCrash
  <2>2. ASSUME NEW s, s = <<>> PROVE Range(s) = {} /\ Increasing(s)
    BY <2>2, EmptyRange, IncreasingEmpty, Zenon
  <2>3. Range(outbox') = {} /\ \A w \in Workers : Range(wbatch'[w]) = {} /\ Increasing(wbatch'[w])
    BY <2>1, <2>2
  <2>4. Increasing(outbox') BY <2>1, <2>2
  <2> QED BY <2>1, <2>3, <2>4 DEF FedOnce, NotYet, Unpublished
<1>3. ASSUME NEW w \in Workers, WorkerStep(w) PROVE FedOnce' /\ NotYet'
  <2>1. CASE Timer(w) BY <2>1 DEF Timer, FedOnce, NotYet, Unpublished
  <2> QED BY <1>3, <2>1, CollectStep, PublishStep DEF WorkerStep
<1>4. CASE OtherStep
  <2>1. UNCHANGED <<read, outbox, wbatch>> BY <1>4, OtherLeavesFeed
  <2>2. stream' \subseteq stream
    BY <1>4 DEF OtherStep, vars, AckWaitOver, Discard, SubscriberStep, Connect, Deliver,
      Forward, Ack, Disconnect, DetectorStep, Receive, Process, Hang, GatewayCrash
  <2>3. \A e \in Events : e \notin stream => deliveries'[e] = deliveries[e]
    BY <1>4 DEF TypeOK, OtherStep, vars, AckWaitOver, Discard, SubscriberStep, Connect,
      Deliver, Forward, Ack, Disconnect, DetectorStep, Receive, Process, Hang, GatewayCrash
  <2>4. FedOnce' BY <2>1 DEF FedOnce
  <2>5. NotYet' BY <2>1, <2>2, <2>3 DEF NotYet, Unpublished
  <2> QED BY <2>4, <2>5
<1> QED BY <1>1, <1>2, <1>3, <1>4 DEF Next, OtherStep

\* Without a fault no step leaves a message unacknowledged and in nobody's hands.
LEMMA InTimeStep ==
  ASSUME TypeOK, FedOnce, NotYet, InTime, [Next]_vars
  PROVE  InTime'
<1> USE DEF feedVars, serverVars, subVars, detVars
<1>0. SUFFICES ASSUME faults' = 0, NEW e \in Events
               PROVE  /\ deliveries'[e] <= 1
                      /\ e \in ready' => deliveries'[e] = 0
                      /\ e \in stream' \ ready' => Held(e)'
  BY DEF InTime
<1>1. faults \in Nat /\ (faults' = faults \/ faults' = faults + 1)
  BY DEF TypeOK, Next, vars, Feed, FeedCrash, WorkerStep, Collect, Timer, Publish, AckWaitOver,
    Discard, SubscriberStep, Connect, Deliver, Forward, Ack, Disconnect, DetectorStep, Receive,
    Process, Hang, GatewayCrash
<1>2. faults = 0 /\ faults' = faults BY <1>0, <1>1
<1>3. /\ deliveries[e] <= 1
      /\ e \in ready => deliveries[e] = 0
      /\ e \in stream \ ready => Held(e)
  BY <1>2 DEF InTime
<1> DEFINE Goal == /\ deliveries'[e] <= 1
                   /\ e \in ready' => deliveries'[e] = 0
                   /\ e \in stream' \ ready' => Held(e)'
<1>4. ASSUME NEW w \in Workers, Publish(w) PROVE Goal
  <2>1. Head(wbatch[w]) \in Events /\ Unpublished(Head(wbatch[w])) BY <1>4, PublishStep
  <2>2. deliveries[Head(wbatch[w])] = 0 BY <2>1 DEF NotYet
  <2>3. UNCHANGED <<hand, deliveries>> BY <1>4 DEF Publish
  <2>4. \/ stream' = stream \cup {Head(wbatch[w])} /\ ready' = ready \cup {Head(wbatch[w])}
        \/ UNCHANGED <<stream, ready>>
    BY <1>4 DEF Publish
  <2>5. Held(e) => Held(e)' BY <2>3 DEF Held
  <2> QED BY <1>3, <2>2, <2>3, <2>4, <2>5
<1>5. ASSUME NEW x \in Events, AckWaitOver(x) PROVE Goal
  <2>1. x \in stream \ ready /\ ~Held(x) BY <1>2, <1>5 DEF AckWaitOver, TypeOK
  <2> QED BY <1>2, <2>1 DEF InTime
<1>6. ASSUME NEW x \in Events, Discard(x) PROVE Goal
  <2>1. UNCHANGED <<hand, deliveries>> /\ stream' = stream \ {x} /\ ready' = ready \ {x}
    BY <1>6 DEF Discard
  <2>2. Held(e) => Held(e)' BY <2>1 DEF Held
  <2> QED BY <1>3, <2>1, <2>2
<1>7. ASSUME NEW g \in Gateways, NEW x \in Events, Deliver(g, x) PROVE Goal
  <2>1. /\ x \in ready /\ ready' = ready \ {x} /\ stream' = stream
        /\ hand'[g] = x /\ hand[g] = None
        /\ \A h \in Gateways : h # g => hand'[h] = hand[h]
        /\ deliveries'[x] = deliveries[x] + 1
        /\ x # e => deliveries'[e] = deliveries[e]
    BY <1>7 DEF TypeOK, Deliver
  <2>2. e # None BY Constants
  <2>3. Held(e) => Held(e)' BY <2>1, <2>2 DEF Held
  <2>4. Held(x)' BY <2>1 DEF Held
  <2>5. deliveries[x] = 0 BY <1>2, <2>1 DEF InTime
  <2> QED BY <1>3, <2>1, <2>3, <2>4, <2>5
<1>8. ASSUME NEW g \in Gateways, Ack(g) PROVE Goal
  <2>1. /\ stream' = stream \ {hand[g]} /\ ready' = ready \ {hand[g]}
        /\ \A h \in Gateways : h # g => hand'[h] = hand[h]
        /\ deliveries' = deliveries
    BY <1>1, <1>2, <1>8 DEF TypeOK, Ack
  <2>2. e # hand[g] /\ Held(e) => Held(e)' BY <2>1 DEF Held
  <2> QED BY <1>3, <2>1, <2>2
<1>9. CASE \/ Feed \/ UNCHANGED vars
           \/ \E w \in Workers : Collect(w) \/ Timer(w)
           \/ \E g \in Gateways : Connect(g) \/ Forward(g)
           \/ \E g \in Gateways : DetectorStep(g) \/ Hang(g)
  <2>1. UNCHANGED <<hand, stream, ready, deliveries>>
    BY <1>9 DEF vars, Feed, Collect, Timer, Connect, Forward, DetectorStep, Receive, Process, Hang
  <2>2. Held(e) => Held(e)' BY <2>1 DEF Held
  <2> QED BY <1>3, <2>1, <2>2
<1>10. CASE FeedCrash \/ \E g \in Gateways : Disconnect(g) \/ GatewayCrash(g)
  BY <1>1, <1>2, <1>10 DEF FeedCrash, Disconnect, GatewayCrash
<1>11. Goal
  BY <1>4, <1>5, <1>6, <1>7, <1>8, <1>9, <1>10 DEF Next, WorkerStep, SubscriberStep
<1> QED BY <1>11

-----------------------------------------------------------------------------
\* The inductive invariant.
IndInv ==
  /\ TypeOK /\ AckedDisposed /\ NoSilentLoss /\ OncePerDelivery
  /\ FedOnce /\ NotYet /\ InTime

\* It holds initially.
LEMMA InitIndInv == Init => IndInv
<1> SUFFICES ASSUME Init PROVE IndInv
  OBVIOUS
<1>1. TypeOK BY EmptyQueue, Constants DEF Init, TypeOK
<1>2. AckedDisposed /\ NoSilentLoss BY DEF Init, AckedDisposed, NoSilentLoss
<1>3. OncePerDelivery
  <2>1. \A e : Pending(e) = {} BY DEF Init, Pending
  <2>2. Cardinality({}) = 0 BY FS_EmptySet
  <2>3. \A e \in Events : handled[e] = 0 /\ deliveries[e] = 0 BY DEF Init
  <2> QED BY <2>1, <2>2, <2>3 DEF OncePerDelivery
<1>4. FedOnce
  <2>1. ASSUME NEW s, s = <<>> PROVE Range(s) = {} /\ Increasing(s)
    BY <2>1, EmptyRange, IncreasingEmpty, Zenon
  <2>2. outbox = <<>> /\ \A w \in Workers : wbatch[w] = <<>> BY DEF Init
  <2>3. /\ Range(outbox) = {} /\ Increasing(outbox)
        /\ \A w \in Workers : Range(wbatch[w]) = {} /\ Increasing(wbatch[w])
    BY <2>1, <2>2
  <2> QED BY <2>3 DEF FedOnce
<1>5. NotYet /\ InTime BY DEF Init, NotYet, InTime
<1> QED BY <1>1, <1>2, <1>3, <1>4, <1>5 DEF IndInv

\* IndInv is an invariant.
LEMMA Invariance == Spec => []IndInv
<1>1. IndInv /\ [Next]_vars => IndInv'
  BY TypeStep, LossStep, CountStep, OrderStep, InTimeStep DEF IndInv
<1> QED BY InitIndInv, <1>1, PTL DEF Spec

(* Type correctness: no channel and no batch outgrows its limit. *)
THEOREM TypeCorrect == Spec => []TypeOK
<1>1. IndInv => TypeOK BY DEF IndInv
<1> QED BY Invariance, <1>1, PTL

(* From the feed to the detectors no event vanishes unaccounted, whichever  *)
(* processes crash and whichever acknowledgements are lost or late.         *)
THEOREM NothingLostSilently == Spec => []NoSilentLoss
<1>1. IndInv => NoSilentLoss BY DEF IndInv
<1> QED BY Invariance, <1>1, PTL

(* No event is handled more often than JetStream gave it out, however many  *)
(* gateways compete for it.                                                 *)
THEOREM HandledOncePerDelivery == Spec => []OncePerDelivery
<1>1. IndInv => OncePerDelivery BY DEF IndInv
<1> QED BY Invariance, <1>1, PTL

(* Without a fault no event is given out twice: every message is published  *)
(* once and acknowledged by whoever gets it.                                *)
THEOREM NoSecondDelivery == Spec => []NoNeedlessRedelivery
<1>1. IndInv => NoNeedlessRedelivery BY DEF IndInv, InTime, NoNeedlessRedelivery
<1> QED BY Invariance, <1>1, PTL
=============================================================================
