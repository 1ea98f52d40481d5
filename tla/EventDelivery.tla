---------------------------- MODULE EventDelivery ----------------------------
(***************************************************************************)
(* The way of a BGP event from the RIS feed to a detector.  bgp_stream     *)
(* reads events into a bounded channel; its workers publish them in        *)
(* batches to the JetStream work queue BGP_EVENTS.  The subscribers of     *)
(* several gateways (nats_subscriber.rs) compete for its messages on one   *)
(* durable consumer, push each on the bounded channel of their detector    *)
(* and acknowledge it; the detector (detector_runner.rs) takes them one by *)
(* one.                                                                    *)
(*                                                                         *)
(* JetStream keeps a message until it is acknowledged, gives it out again  *)
(* when no acknowledgement comes within the ack wait, and discards it when *)
(* the stream outgrows its limits.  The messages a gateway has prefetched  *)
(* but not looked at are counted as still in the stream: they differ from  *)
(* those in nothing the gateway could observe.                             *)
(*                                                                         *)
(* The receiving end of a detector channel is dropped only together with   *)
(* its sender, at the end of the process: the branch for a closed channel  *)
(* is unreachable.                                                         *)
(***************************************************************************)
EXTENDS Integers, Sequences, FiniteSets, Functions

CONSTANTS
  NumEvents,        \* bound: events the feed delivers, 1, 2, ...
  Unreadable,       \* events whose payload or metadata does not parse
  Workers,          \* publisher tasks of bgp_stream (WORKERS)
  OutboxCapacity,   \* CHANNEL_CAP
  BatchSize,        \* BATCH_SIZE
  Gateways,         \* subscribers of the durable consumer
  ChannelCapacity,  \* capacity of a detector channel
  MaxFaults,        \* bound: lost connections and acknowledgements, late ones, crashes
  None              \* no event

ASSUME EventsAssumption == NumEvents \in Nat /\ Unreadable \subseteq 1..NumEvents
ASSUME SizesAssumption ==
  /\ OutboxCapacity \in Nat \ {0} /\ BatchSize \in Nat \ {0}
  /\ ChannelCapacity \in Nat \ {0} /\ MaxFaults \in Nat
ASSUME SetsAssumption == IsFiniteSet(Gateways) /\ None \notin 1..NumEvents

Events == 1..NumEvents

VARIABLES
  read,       \* events read from the feed so far; event e is the e-th
  outbox,     \* Seq(Events): the channel between feed and workers
  wpc,        \* [Workers -> {"collect", "publish"}]
  wbatch,     \* [Workers -> Seq(Events)]
  stream,     \* SUBSET Events: stored and not acknowledged
  ready,      \* SUBSET stream: may be given out now
  gpc,        \* [Gateways -> {"connect", "listen", "got", "ack"}]
  hand,       \* [Gateways -> Events or None]: the message of the loop
  chan,       \* [Gateways -> Seq(Events)]: the detector channel
  busy,       \* [Gateways -> Events or None]: what process_record() works on
  hung,       \* gateways whose detector has blocked in add()
  deliveries, \* history: [Events -> Nat], times given out
  handled,    \* history: [Events -> Nat], times a subscriber disposed of it
  processed,  \* history: events some detector is through with
  dropped,    \* history: refused by a full channel, or counted as an error
  vanished,   \* history: unconfirmed publishes that were not stored
  discarded,  \* history: removed by the limits of the stream
  lost,       \* history: in the memory of a process that ended
  faults

feedVars == <<read, outbox, wpc, wbatch, vanished>>
serverVars == <<stream, ready, deliveries, discarded>>
subVars == <<gpc, hand, handled>>
detVars == <<chan, busy, hung, processed>>
vars == <<feedVars, serverVars, subVars, detVars, dropped, lost, faults>>

Init ==
  /\ read = 0 /\ outbox = <<>>
  /\ wpc = [w \in Workers |-> "collect"] /\ wbatch = [w \in Workers |-> <<>>]
  /\ stream = {} /\ ready = {}
  /\ gpc = [g \in Gateways |-> "connect"] /\ hand = [g \in Gateways |-> None]
  /\ chan = [g \in Gateways |-> <<>>] /\ busy = [g \in Gateways |-> None]
  /\ hung = {}
  /\ deliveries = [e \in Events |-> 0] /\ handled = [e \in Events |-> 0]
  /\ processed = {} /\ dropped = {} /\ vanished = {} /\ discarded = {} /\ lost = {}
  /\ faults = 0

-----------------------------------------------------------------------------
(* bgp_stream *)

(* process_ris_data(): try_send; a full channel drops and counts the event. *)
Feed ==
  /\ read < NumEvents
  /\ read' = read + 1
  /\ IF Len(outbox) < OutboxCapacity
     THEN outbox' = Append(outbox, read + 1) /\ UNCHANGED dropped
     ELSE dropped' = dropped \cup {read + 1} /\ UNCHANGED outbox
  /\ UNCHANGED <<wpc, wbatch, vanished, serverVars, subVars, detVars, lost, faults>>

(* nats_publisher_task(): an event joins the batch; a full batch ends the   *)
(* collection.                                                              *)
Collect(w) ==
  /\ wpc[w] = "collect" /\ outbox # <<>>
  /\ outbox' = Tail(outbox)
  /\ wbatch' = [wbatch EXCEPT ![w] = Append(@, Head(outbox))]
  /\ wpc' = [wpc EXCEPT ![w] = IF Len(wbatch[w]) + 1 >= BatchSize THEN "publish" ELSE @]
  /\ UNCHANGED <<read, vanished, serverVars, subVars, detVars, dropped, lost, faults>>

(* The timer ends the collection; an empty batch starts a new one. *)
Timer(w) ==
  /\ wpc[w] = "collect" /\ wbatch[w] # <<>>
  /\ wpc' = [wpc EXCEPT ![w] = "publish"]
  /\ UNCHANGED <<read, outbox, wbatch, vanished, serverVars, subVars, detVars,
                 dropped, lost, faults>>

(* The next event of the batch is published.  The server's confirmation is  *)
(* not waited for: of what counts as published, some may not be stored.     *)
Publish(w) ==
  /\ wpc[w] = "publish"
  /\ LET e == Head(wbatch[w]) IN
       \/ /\ stream' = stream \cup {e} /\ ready' = ready \cup {e}
          /\ UNCHANGED <<vanished, dropped>>
       \/ /\ vanished' = vanished \cup {e}
          /\ UNCHANGED <<stream, ready, dropped>>
       \/ /\ dropped' = dropped \cup {e}
          /\ UNCHANGED <<stream, ready, vanished>>
  /\ wbatch' = [wbatch EXCEPT ![w] = Tail(@)]
  /\ wpc' = [wpc EXCEPT ![w] = IF Len(wbatch[w]) = 1 THEN "collect" ELSE @]
  /\ UNCHANGED <<read, outbox, deliveries, discarded, subVars, detVars, lost, faults>>

(* bgp_stream ends and is started again. *)
FeedCrash ==
  /\ faults < MaxFaults
  /\ faults' = faults + 1
  /\ lost' = lost \cup Range(outbox) \cup {e \in Events : \E w \in Workers : e \in Range(wbatch[w])}
  /\ outbox' = <<>>
  /\ wbatch' = [w \in Workers |-> <<>>]
  /\ wpc' = [w \in Workers |-> "collect"]
  /\ UNCHANGED <<read, vanished, serverVars, subVars, detVars, dropped>>

-----------------------------------------------------------------------------
(* JetStream *)

\* Some subscriber has e in its hands and may yet acknowledge it.
Held(e) == \E g \in Gateways : hand[g] = e

(* The ack wait is over.  That it ends for a message still in the hands of  *)
(* a subscriber, because this one is slow, counts as a fault.               *)
AckWaitOver(e) ==
  /\ e \in stream \ ready
  /\ ready' = ready \cup {e}
  /\ IF Held(e) THEN faults < MaxFaults /\ faults' = faults + 1 ELSE UNCHANGED faults
  /\ UNCHANGED <<feedVars, stream, deliveries, discarded, subVars, detVars, dropped, lost>>

(* max_age or max_bytes: the message goes, acknowledged or not. *)
Discard(e) ==
  /\ e \in stream
  /\ stream' = stream \ {e} /\ ready' = ready \ {e}
  /\ discarded' = discarded \cup {e}
  /\ UNCHANGED <<feedVars, deliveries, subVars, detVars, dropped, lost, faults>>

-----------------------------------------------------------------------------
(* nats_subscriber *)

(* Connect, find the stream, get the consumer, open the message stream; a   *)
(* failure of any of them sleeps and starts over.                           *)
Connect(g) ==
  /\ gpc[g] = "connect"
  /\ gpc' = [gpc EXCEPT ![g] = "listen"]
  /\ UNCHANGED <<feedVars, serverVars, hand, handled, detVars, dropped, lost, faults>>

\* Mutation: the message is gone from the stream as soon as it is given out.
DeliverAcked(g, e) ==
  /\ gpc[g] = "listen" /\ e \in ready
  /\ stream' = stream \ {e} /\ ready' = ready \ {e}
  /\ deliveries' = [deliveries EXCEPT ![e] = @ + 1]
  /\ hand' = [hand EXCEPT ![g] = e]
  /\ gpc' = [gpc EXCEPT ![g] = "got"]
  /\ UNCHANGED <<feedVars, discarded, handled, detVars, dropped, lost, faults>>

(* messages.next() yields a message. *)
Deliver(g, e) ==
  /\ gpc[g] = "listen" /\ e \in ready
  /\ ready' = ready \ {e}
  /\ deliveries' = [deliveries EXCEPT ![e] = @ + 1]
  /\ hand' = [hand EXCEPT ![g] = e]
  /\ gpc' = [gpc EXCEPT ![g] = "got"]
  /\ UNCHANGED <<feedVars, stream, discarded, handled, detVars, dropped, lost, faults>>

(* messages.next() yields an error or ends: pause and connect again. *)
Disconnect(g) ==
  /\ gpc[g] = "listen"
  /\ faults < MaxFaults
  /\ faults' = faults + 1
  /\ gpc' = [gpc EXCEPT ![g] = "connect"]
  /\ UNCHANGED <<feedVars, serverVars, hand, handled, detVars, dropped, lost>>

\* Mutation: the channel holds one event too many.
ForwardOneTooMany(g) ==
  /\ gpc[g] = "got"
  /\ handled' = [handled EXCEPT ![hand[g]] = @ + 1]
  /\ gpc' = [gpc EXCEPT ![g] = "ack"]
  /\ IF hand[g] \in Unreadable
     THEN UNCHANGED <<chan, dropped>>
     ELSE IF Len(chan[g]) <= ChannelCapacity
          THEN chan' = [chan EXCEPT ![g] = Append(@, hand[g])] /\ UNCHANGED dropped
          ELSE dropped' = dropped \cup {hand[g]} /\ UNCHANGED chan
  /\ UNCHANGED <<feedVars, serverVars, hand, busy, hung, processed, lost, faults>>

\* Mutation: an event the full channel refused is tried again.
ForwardAgain(g) ==
  /\ gpc[g] = "got"
  /\ handled' = [handled EXCEPT ![hand[g]] = @ + 1]
  /\ IF hand[g] \in Unreadable
     THEN gpc' = [gpc EXCEPT ![g] = "ack"] /\ UNCHANGED <<chan, dropped>>
     ELSE IF Len(chan[g]) < ChannelCapacity
          THEN /\ gpc' = [gpc EXCEPT ![g] = "ack"]
               /\ chan' = [chan EXCEPT ![g] = Append(@, hand[g])]
               /\ UNCHANGED dropped
          ELSE dropped' = dropped \cup {hand[g]} /\ UNCHANGED <<chan, gpc>>
  /\ UNCHANGED <<feedVars, serverVars, hand, busy, hung, processed, lost, faults>>

\* Mutation: send() instead of try_send(), which waits for room in the channel.
ForwardWaiting(g) ==
  /\ gpc[g] = "got"
  /\ hand[g] \in Unreadable \/ Len(chan[g]) < ChannelCapacity
  /\ handled' = [handled EXCEPT ![hand[g]] = @ + 1]
  /\ gpc' = [gpc EXCEPT ![g] = "ack"]
  /\ chan' = IF hand[g] \in Unreadable THEN chan
             ELSE [chan EXCEPT ![g] = Append(@, hand[g])]
  /\ UNCHANGED <<feedVars, serverVars, hand, busy, hung, processed, dropped, lost, faults>>

(* Deserialise, extract, try_send: on the channel, or dropped and counted   *)
(* if it is full; an unreadable message is passed over.                     *)
Forward(g) ==
  /\ gpc[g] = "got"
  /\ handled' = [handled EXCEPT ![hand[g]] = @ + 1]
  /\ gpc' = [gpc EXCEPT ![g] = "ack"]
  /\ IF hand[g] \in Unreadable
     THEN UNCHANGED <<chan, dropped>>
     ELSE IF Len(chan[g]) < ChannelCapacity
          THEN chan' = [chan EXCEPT ![g] = Append(@, hand[g])] /\ UNCHANGED dropped
          ELSE dropped' = dropped \cup {hand[g]} /\ UNCHANGED chan
  /\ UNCHANGED <<feedVars, serverVars, hand, busy, hung, processed, lost, faults>>

\* Mutation: an unreadable message is not acknowledged.
AckReadable(g) ==
  /\ gpc[g] = "ack"
  /\ IF hand[g] \in Unreadable
     THEN UNCHANGED <<stream, ready>>
     ELSE stream' = stream \ {hand[g]} /\ ready' = ready \ {hand[g]}
  /\ hand' = [hand EXCEPT ![g] = None]
  /\ gpc' = [gpc EXCEPT ![g] = "listen"]
  /\ UNCHANGED <<feedVars, deliveries, discarded, handled, detVars, dropped, lost, faults>>

(* message.ack() reaches the server, which removes the message, or not. *)
Ack(g) ==
  /\ gpc[g] = "ack"
  /\ \/ stream' = stream \ {hand[g]} /\ ready' = ready \ {hand[g]} /\ UNCHANGED faults
     \/ faults < MaxFaults /\ faults' = faults + 1 /\ UNCHANGED <<stream, ready>>
  /\ hand' = [hand EXCEPT ![g] = None]
  /\ gpc' = [gpc EXCEPT ![g] = "listen"]
  /\ UNCHANGED <<feedVars, deliveries, discarded, handled, detVars, dropped, lost>>

-----------------------------------------------------------------------------
(* detector_runner *)

(* run(): rx.recv(). *)
Receive(g) ==
  /\ busy[g] = None /\ chan[g] # <<>>
  /\ busy' = [busy EXCEPT ![g] = Head(chan[g])]
  /\ chan' = [chan EXCEPT ![g] = Tail(@)]
  /\ UNCHANGED <<feedVars, serverVars, subVars, hung, processed, dropped, lost, faults>>

(* process_record() returns, with or without an error. *)
Process(g) ==
  /\ busy[g] # None /\ g \notin hung
  /\ processed' = processed \cup {busy[g]}
  /\ busy' = [busy EXCEPT ![g] = None]
  /\ UNCHANGED <<feedVars, serverVars, subVars, chan, hung, dropped, lost, faults>>

(* process_record() blocks for good in PropagationAggregator::add(), as     *)
(* module Propagation shows.                                                *)
Hang(g) ==
  /\ busy[g] # None
  /\ hung' = hung \cup {g}
  /\ UNCHANGED <<feedVars, serverVars, subVars, chan, busy, processed, dropped, lost, faults>>

(* A gateway ends and is started again. *)
GatewayCrash(g) ==
  /\ faults < MaxFaults
  /\ faults' = faults + 1
  /\ lost' = lost \cup Range(chan[g]) \cup ({busy[g]} \ {None})
  /\ chan' = [chan EXCEPT ![g] = <<>>] /\ busy' = [busy EXCEPT ![g] = None]
  /\ hung' = hung \ {g}
  /\ hand' = [hand EXCEPT ![g] = None] /\ gpc' = [gpc EXCEPT ![g] = "connect"]
  /\ UNCHANGED <<feedVars, serverVars, handled, processed, dropped>>

-----------------------------------------------------------------------------
WorkerStep(w) == Collect(w) \/ Timer(w) \/ Publish(w)
SubscriberStep(g) ==
  Connect(g) \/ (\E e \in Events : Deliver(g, e)) \/ Forward(g) \/ Ack(g)
DetectorStep(g) == Receive(g) \/ Process(g)

Next ==
  \/ Feed \/ FeedCrash
  \/ \E w \in Workers : WorkerStep(w)
  \/ \E e \in Events : AckWaitOver(e) \/ Discard(e)
  \/ \E g \in Gateways : SubscriberStep(g) \/ Disconnect(g)
  \/ \E g \in Gateways : DetectorStep(g) \/ Hang(g) \/ GatewayCrash(g)

Spec == Init /\ [][Next]_vars

(* Tasks are polled, connections succeed in the end, and JetStream gives    *)
(* out again what is not acknowledged.  Nothing is owed by the feed.        *)
FairSpec ==
  /\ Spec
  /\ \A w \in Workers : WF_vars(WorkerStep(w))
  /\ \A e \in Events : WF_vars(AckWaitOver(e))
  /\ \A g \in Gateways : WF_vars(SubscriberStep(g)) /\ WF_vars(DetectorStep(g))

-----------------------------------------------------------------------------
TypeOK ==
  /\ read \in 0..NumEvents
  /\ outbox \in Seq(Events) /\ Len(outbox) <= OutboxCapacity
  /\ wpc \in [Workers -> {"collect", "publish"}]
  /\ wbatch \in [Workers -> Seq(Events)]
  /\ \A w \in Workers :
       /\ wpc[w] = "collect" => Len(wbatch[w]) < BatchSize
       /\ wpc[w] = "publish" => Len(wbatch[w]) \in 1..BatchSize
  /\ stream \subseteq Events /\ ready \subseteq stream
  /\ gpc \in [Gateways -> {"connect", "listen", "got", "ack"}]
  /\ hand \in [Gateways -> Events \cup {None}]
  /\ \A g \in Gateways : hand[g] # None <=> gpc[g] \in {"got", "ack"}
  /\ chan \in [Gateways -> Seq(Events)]
  /\ \A g \in Gateways : Len(chan[g]) <= ChannelCapacity
  /\ busy \in [Gateways -> Events \cup {None}]
  /\ hung \subseteq Gateways
  /\ deliveries \in [Events -> Nat] /\ handled \in [Events -> Nat]
  /\ processed \subseteq Events /\ dropped \subseteq Events /\ vanished \subseteq Events
  /\ discarded \subseteq Events /\ lost \subseteq Events
  /\ faults \in 0..MaxFaults

\* Event e waits in the memory of bgp_stream or of a gateway.
InMemory(e) ==
  \/ e \in Range(outbox)
  \/ \E w \in Workers : e \in Range(wbatch[w])
  \/ \E g \in Gateways : e \in Range(chan[g]) \/ busy[g] = e

\* Event e was counted as lost, or went with a process or with the stream.
GivenUp(e) == e \in dropped \cup vanished \cup discarded \cup lost

(* Every event read is waiting in some channel, batch or detector, is in    *)
(* the stream, has been processed, was passed over as unreadable, or was    *)
(* given up.  A message in the hands of a subscriber is safe because it is  *)
(* acknowledged only after it was disposed of.                              *)
NoSilentLoss ==
  \A e \in 1..read :
    InMemory(e) \/ e \in stream \/ e \in processed \/ e \in Unreadable \/ GivenUp(e)

\* The subscribers that still have to dispose of a delivery of e.
Pending(e) == {g \in Gateways : gpc[g] = "got" /\ hand[g] = e}

(* However the gateways compete, each delivery is disposed of at most once, *)
(* so that an event reaches two detectors only if it was given out twice.   *)
OncePerDelivery ==
  \A e \in Events : handled[e] + Cardinality(Pending(e)) <= deliveries[e]

(* As long as no process or connection fails and no acknowledgement is lost *)
(* or late, no event is given out twice: the gateways share the stream and  *)
(* acknowledge whatever they are given, unreadable messages included.       *)
NoNeedlessRedelivery == faults = 0 => \A e \in Events : deliveries[e] <= 1

\* Event e waits behind a detector that has blocked.
Stuck(e) == \E g \in hung : e \in Range(chan[g]) \/ busy[g] = e

(* A stored event does not stay with the stream or with a gateway: it is    *)
(* processed, passed over or given up, unless it waits behind a detector    *)
(* that has blocked.  A blocked detector does not stop its subscriber.      *)
EventuallySettled ==
  \A e \in Events :
    (e \in stream) ~> (e \in processed \cup Unreadable \/ GivenUp(e) \/ Stuck(e))
=============================================================================
