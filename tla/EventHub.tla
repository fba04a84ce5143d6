------------------------------ MODULE EventHub ------------------------------
(***************************************************************************)
(* The Session event hub (document/events.go): one publisher at a time     *)
(* under h.mu, a bounded ring of retained events, and one bounded channel  *)
(* per subscription.  Consumers receive from their channels WITHOUT h.mu,  *)
(* so a receive may fall between any two channel operations of offerEvent: *)
(* the drain loop is modelled one channel operation per step.              *)
(*                                                                         *)
(* An event is its sequence number together with the Dropped count of one  *)
(* delivery; kind, metadata and maps are carried unchanged by the code.    *)
(***************************************************************************)
EXTENDS Naturals, Sequences, FiniteSets
LOCAL INSTANCE FiniteSetsExt

CONSTANTS
    Subs,            \* subscription identities, each used at most once
    MaxSubscribers,  \* h.maxSubscribers
    HistoryLimit,    \* len(h.history)
    Buffers,         \* channel capacities a host may ask for
    MaxUint          \* bound standing for math.MaxUint64

ASSUME SubsAssumption == IsFiniteSet(Subs)
ASSUME MaxSubscribersAssumption == MaxSubscribers \in Nat \ {0}
ASSUME HistoryLimitAssumption == HistoryLimit \in Nat \ {0}
ASSUME BuffersAssumption == Buffers \subseteq Nat \ {0}
ASSUME MaxUintAssumption == MaxUint \in Nat \ {0}

VARIABLES
    closed,        \* h.closed
    exhausted,     \* h.exhausted
    sequence,      \* h.sequence
    history,       \* h.history, the ring: slot -> sequence number (0: unused)
    historyStart,  \* h.historyStart
    historyCount,  \* h.historyCount
    discarded,     \* h.discarded
    historyGaps,   \* h.historyGaps
    status,        \* "new", "joining", "live" (in h.subscribers) or "closed"
    cap,           \* capacity of the subscription's channel
    queue,         \* its channel: sequence of [seq, dropped]
    pendingDropped,\* subscriptionState.pendingDropped
    work,          \* what the holder of h.mu is doing
    offer,         \* the offerEvent call in its drain loop, if any
    after,         \* history variable: cursor the subscription started from
    last,          \* history variable: last sequence the consumer received
    got,           \* history variable: number of events received
    told           \* history variable: sum of Dropped over received events

hub == <<closed, exhausted, sequence, history, historyStart, historyCount>>
stats == <<discarded, historyGaps>>
consumer == <<last, got, told>>
vars == <<hub, stats, status, cap, queue, pendingDropped, work, offer,
          after, consumer>>

Seqs == 0..MaxUint
Slots == 0..(HistoryLimit - 1)
Delivery == [seq : Seqs, dropped : Seqs]

Idle == [kind |-> "idle"]
Publishing(e, left) == [kind |-> "publish", event |-> e, left |-> left]
Joining(s, index) == [kind |-> "join", sub |-> s, index |-> index]
NoOffer == [kind |-> "none"]
Draining(s, e, d, n) ==
    [kind |-> "drain", sub |-> s, event |-> e, dropped |-> d, removed |-> n]

InDrain == offer.kind = "drain"
Subscribers == {s \in Subs : status[s] = "live"}

\* Mutant: the counter runs past the largest uint64.
unboundedAdd(value, increment) == value + increment

saturatingAdd(value, increment) ==
    IF increment > MaxUint - value THEN MaxUint ELSE value + increment

Init ==
    /\ closed = FALSE /\ exhausted = FALSE
    /\ sequence = 0
    /\ history = [i \in Slots |-> 0]
    /\ historyStart = 0 /\ historyCount = 0
    /\ discarded = 0 /\ historyGaps = 0
    /\ status = [s \in Subs |-> "new"]
    /\ cap = [s \in Subs |-> 0]
    /\ queue = [s \in Subs |-> <<>>]
    /\ pendingDropped = [s \in Subs |-> 0]
    /\ work = Idle /\ offer = NoOffer
    /\ after = [s \in Subs |-> 0]
    /\ last = [s \in Subs |-> 0]
    /\ got = [s \in Subs |-> 0]
    /\ told = [s \in Subs |-> 0]

-----------------------------------------------------------------------------
\* Publication

HistoryIndex(i) == (historyStart + i) % HistoryLimit

\* Mutant: a full ring overwrites its oldest slot and forgets to move the start.
appendHistoryStuckStart(event) ==
    IF historyCount < HistoryLimit
    THEN /\ history' = [history EXCEPT ![HistoryIndex(historyCount)] = event]
         /\ historyCount' = historyCount + 1
         /\ UNCHANGED historyStart
    ELSE /\ history' = [history EXCEPT ![historyStart] = event]
         /\ UNCHANGED <<historyStart, historyCount>>

appendHistory(event) ==
    IF historyCount < HistoryLimit
    THEN /\ history' = [history EXCEPT ![HistoryIndex(historyCount)] = event]
         /\ historyCount' = historyCount + 1
         /\ UNCHANGED historyStart
    ELSE /\ history' = [history EXCEPT ![historyStart] = event]
         /\ historyStart' = (historyStart + 1) % HistoryLimit
         /\ UNCHANGED historyCount

\* publish, up to its loop over the subscribers.
Publish ==
    /\ work = Idle /\ ~closed /\ sequence < MaxUint
    /\ sequence' = sequence + 1
    /\ appendHistory(sequence + 1)
    /\ work' = IF Subscribers = {} THEN Idle
               ELSE Publishing(sequence + 1, Subscribers)
    /\ UNCHANGED <<closed, exhausted, stats, status, cap, queue,
                   pendingDropped, offer, after, consumer>>

CloseAllSubscribers ==
    /\ closed' = TRUE
    /\ status' = [s \in Subs |-> IF status[s] = "live" THEN "closed"
                                 ELSE status[s]]

\* publish when the sequence is used up: the hub closes, nothing is numbered.
PublishExhausted ==
    /\ work = Idle /\ ~closed /\ sequence = MaxUint
    /\ exhausted' = TRUE
    /\ CloseAllSubscribers
    /\ UNCHANGED <<sequence, history, historyStart, historyCount, stats, cap,
                   queue, pendingDropped, work, offer, after, consumer>>

-----------------------------------------------------------------------------
\* offerEvent

\* What the caller of offerEvent does once the event is in the channel.
OfferDone(s) ==
    work' = IF work.kind = "publish"
            THEN IF work.left = {s} THEN Idle
                 ELSE Publishing(work.event, work.left \ {s})
            ELSE Joining(s, work.index + 1)

\* Mutant: the replay loop offers events at or before the cursor again.
MustOfferAll(s, e) ==
    \/ /\ work.kind = "publish"
       /\ s \in work.left /\ e = work.event
    \/ /\ work.kind = "join"
       /\ work.sub = s
       /\ work.index < historyCount
       /\ e = history[HistoryIndex(work.index)]

\* The event the holder of h.mu must offer to s next.  A joining subscription
\* reads the ring and skips the events at or before its cursor.
MustOffer(s, e) ==
    \/ /\ work.kind = "publish"
       /\ s \in work.left /\ e = work.event
    \/ /\ work.kind = "join"
       /\ work.sub = s
       /\ work.index < historyCount
       /\ e = history[HistoryIndex(work.index)]
       /\ e > after[s]

\* First select: there is room.
OfferRoom(s, e) ==
    /\ ~InDrain
    /\ MustOffer(s, e)
    /\ Len(queue[s]) < cap[s]
    /\ queue' = [queue EXCEPT ![s] =
                   Append(@, [seq |-> e, dropped |-> pendingDropped[s]])]
    /\ pendingDropped' = [pendingDropped EXCEPT ![s] = 0]
    /\ OfferDone(s)
    /\ UNCHANGED <<hub, stats, status, cap, offer, after, consumer>>

\* First select: the channel is full, so the drain loop starts.
OfferFull(s, e) ==
    /\ ~InDrain
    /\ MustOffer(s, e)
    /\ Len(queue[s]) >= cap[s]
    /\ offer' = Draining(s, e, pendingDropped[s], 0)
    /\ UNCHANGED <<hub, stats, status, cap, queue, pendingDropped, work,
                   after, consumer>>

\* Mutant: the drained delivery counts as one loss, its own Dropped is lost.
DrainOneForgetsDropped ==
    /\ InDrain
    /\ queue[offer.sub] # <<>>
    /\ offer' = [offer EXCEPT !.dropped = saturatingAdd(@, 1),
                              !.removed = @ + 1]
    /\ queue' = [queue EXCEPT ![offer.sub] = Tail(@)]
    /\ UNCHANGED <<hub, stats, status, cap, pendingDropped, work, after,
                   consumer>>

\* Mutant: the publisher leaves the draining to the consumer.
DrainWaits ==
    /\ InDrain
    /\ queue[offer.sub] # <<>>
    /\ UNCHANGED vars

\* One turn of the drain loop takes the oldest queued delivery.
DrainOne ==
    /\ InDrain
    /\ queue[offer.sub] # <<>>
    /\ offer' = [offer EXCEPT
                   !.dropped = saturatingAdd(@,
                       saturatingAdd(Head(queue[offer.sub]).dropped, 1)),
                   !.removed = @ + 1]
    /\ queue' = [queue EXCEPT ![offer.sub] = Tail(@)]
    /\ UNCHANGED <<hub, stats, status, cap, pendingDropped, work, after,
                   consumer>>

\* Mutant: an event that met a full channel is itself thrown away.
DrainEndDropsNewest ==
    /\ InDrain
    /\ queue[offer.sub] = <<>>
    /\ pendingDropped' = [pendingDropped EXCEPT ![offer.sub] = offer.dropped + 1]
    /\ discarded' = saturatingAdd(discarded, offer.removed)
    /\ offer' = NoOffer
    /\ OfferDone(offer.sub)
    /\ UNCHANGED <<hub, historyGaps, status, cap, queue, after, consumer>>

\* Mutant: an overflow counts as one discarded delivery, however many it took.
DrainEndCountsOne ==
    /\ InDrain
    /\ queue[offer.sub] = <<>>
    /\ queue' = [queue EXCEPT ![offer.sub] =
                   Append(@, [seq |-> offer.event, dropped |-> offer.dropped])]
    /\ pendingDropped' = [pendingDropped EXCEPT ![offer.sub] = 0]
    /\ discarded' = saturatingAdd(discarded, 1)
    /\ offer' = NoOffer
    /\ OfferDone(offer.sub)
    /\ UNCHANGED <<hub, historyGaps, status, cap, after, consumer>>

\* The loop finds the channel empty: the newest event goes in alone.
DrainEnd ==
    /\ InDrain
    /\ queue[offer.sub] = <<>>
    /\ queue' = [queue EXCEPT ![offer.sub] =
                   Append(@, [seq |-> offer.event, dropped |-> offer.dropped])]
    /\ pendingDropped' = [pendingDropped EXCEPT ![offer.sub] = 0]
    /\ discarded' = saturatingAdd(discarded, offer.removed)
    /\ offer' = NoOffer
    /\ OfferDone(offer.sub)
    /\ UNCHANGED <<hub, historyGaps, status, cap, after, consumer>>

-----------------------------------------------------------------------------
\* Subscription

\* The first retained sequence number.
Earliest == sequence - historyCount + 1

\* Events between the cursor and the retained window.
MissingPrefix(a) ==
    IF historyCount > 0 /\ a < sequence /\ a + 1 < Earliest
    THEN Earliest - a - 1 ELSE 0

\* subscribe up to its replay loop.  FutureOnly is the cursor a = sequence;
\* a cursor beyond the sequence, a closed hub and a full table are refused.
Subscribe(s, a, b) ==
    /\ work = Idle /\ ~closed
    /\ status[s] = "new"
    /\ a <= sequence
    /\ Cardinality(Subscribers) < MaxSubscribers
    /\ cap' = [cap EXCEPT ![s] = b]
    /\ after' = [after EXCEPT ![s] = a]
    /\ last' = [last EXCEPT ![s] = a]
    /\ pendingDropped' = [pendingDropped EXCEPT ![s] = MissingPrefix(a)]
    /\ historyGaps' = saturatingAdd(historyGaps, MissingPrefix(a))
    /\ status' = [status EXCEPT ![s] = "joining"]
    /\ work' = Joining(s, IF a < sequence THEN 0 ELSE historyCount)
    /\ UNCHANGED <<hub, discarded, queue, offer, got, told>>

\* The replay loop passes over an event the cursor has already seen.
JoinSkip ==
    /\ work.kind = "join" /\ ~InDrain
    /\ work.index < historyCount
    /\ history[HistoryIndex(work.index)] <= after[work.sub]
    /\ work' = Joining(work.sub, work.index + 1)
    /\ UNCHANGED <<hub, stats, status, cap, queue, pendingDropped, offer,
                   after, consumer>>

\* End of the replay loop: the subscription enters h.subscribers.
JoinEnd ==
    /\ work.kind = "join" /\ ~InDrain
    /\ work.index = historyCount
    /\ status' = [status EXCEPT ![work.sub] = "live"]
    /\ work' = Idle
    /\ UNCHANGED <<hub, stats, cap, queue, pendingDropped, offer, after,
                   consumer>>

\* unsubscribe: the channel is closed, what it holds can still be received.
Unsubscribe(s) ==
    /\ work = Idle
    /\ status[s] = "live"
    /\ status' = [status EXCEPT ![s] = "closed"]
    /\ UNCHANGED <<hub, stats, cap, queue, pendingDropped, work, offer,
                   after, consumer>>

\* close, called by finishClose after the EventClosed publication.
Close ==
    /\ work = Idle /\ ~closed
    /\ CloseAllSubscribers
    /\ UNCHANGED <<exhausted, sequence, history, historyStart, historyCount,
                   stats, cap, queue, pendingDropped, work, offer, after,
                   consumer>>

\* A consumer receives from its channel; h.mu is not involved.
Receive(s) ==
    /\ status[s] \in {"live", "closed"}
    /\ queue[s] # <<>>
    /\ queue' = [queue EXCEPT ![s] = Tail(@)]
    /\ last' = [last EXCEPT ![s] = Head(queue[s]).seq]
    /\ got' = [got EXCEPT ![s] = @ + 1]
    /\ told' = [told EXCEPT ![s] = @ + Head(queue[s]).dropped]
    /\ UNCHANGED <<hub, stats, status, cap, pendingDropped, work, offer,
                   after>>

-----------------------------------------------------------------------------
OfferStep ==
    \/ \E s \in Subs, e \in Seqs : OfferRoom(s, e) \/ OfferFull(s, e)
    \/ DrainOne
    \/ DrainEnd
    \/ JoinSkip
    \/ JoinEnd

Next ==
    \/ Publish
    \/ PublishExhausted
    \/ OfferStep
    \/ \E s \in Subs, a \in Seqs, b \in Buffers : Subscribe(s, a, b)
    \/ \E s \in Subs : Unsubscribe(s)
    \/ Close
    \/ \E s \in Subs : Receive(s)

\* The goroutine that holds h.mu keeps running; a consumer need never receive.
Fairness == WF_vars(OfferStep)

Spec == Init /\ [][Next]_vars /\ Fairness

-----------------------------------------------------------------------------
\* Properties

FlagTypes == closed \in BOOLEAN /\ exhausted \in BOOLEAN

RingTypes ==
    /\ sequence \in Seqs
    /\ history \in [Slots -> Seqs]
    /\ historyStart \in Slots
    /\ historyCount \in 0..HistoryLimit
    /\ discarded \in Seqs /\ historyGaps \in Seqs

SubTypes ==
    /\ status \in [Subs -> {"new", "joining", "live", "closed"}]
    /\ cap \in [Subs -> Buffers \cup {0}]
    /\ queue \in [Subs -> Seq(Delivery)]
    /\ pendingDropped \in [Subs -> Seqs]
    /\ after \in [Subs -> Seqs] /\ last \in [Subs -> Seqs]
    /\ got \in [Subs -> Nat] /\ told \in [Subs -> Nat]

WorkTypes ==
    /\ work \in {Idle}
            \cup [kind : {"publish"}, event : Seqs, left : SUBSET Subs]
            \cup [kind : {"join"}, sub : Subs, index : 0..HistoryLimit]
    /\ offer \in {NoOffer}
            \cup [kind : {"drain"}, sub : Subs, event : Seqs,
                  dropped : Seqs, removed : Nat]

\* Every variable keeps the type its Go field has.
TypeOK == FlagTypes /\ RingTypes /\ SubTypes /\ WorkTypes

\* The ring retains exactly the newest events, in order: reading historyCount
\* slots from historyStart gives sequence-historyCount+1 .. sequence, and no
\* event leaves the ring before it is full.
RingWindow ==
    /\ historyCount <= sequence
    /\ historyCount < HistoryLimit => historyCount = sequence
    /\ \A i \in 0..(historyCount - 1) :
          history[HistoryIndex(i)] = sequence - historyCount + 1 + i

\* Weight of a channel: events it carries plus the losses they report.
QueueWeight(q) ==
    LET weight[i \in 0..Len(q)] ==
          IF i = 0 THEN 0 ELSE weight[i - 1] + 1 + q[i].dropped
    IN  weight[Len(q)]

\* The newest event that has been offered to s.
Offered(s) ==
    CASE work.kind = "publish" /\ s \in work.left -> work.event - 1
      [] work.kind = "join" /\ work.sub = s ->
            LET next == sequence - historyCount + 1 + work.index
            IN  IF after[s] = sequence \/ next <= after[s] THEN after[s]
                ELSE next - 1
      [] OTHER -> sequence

\* Loss accounting: whatever the interleaving of the drain loop with the
\* consumer, the events received, still queued, and reported as lost (or about
\* to be) are together exactly the events offered since the cursor: nothing is
\* lost without being counted once, nothing is counted twice.
LossAccounting ==
    \A s \in Subs : status[s] \in {"joining", "live"} =>
        after[s] + got[s] + told[s] + QueueWeight(queue[s])
          + (IF InDrain /\ offer.sub = s THEN offer.dropped
             ELSE pendingDropped[s])
        = Offered(s)

\* Losses the hub has charged to s: told to its consumer, queued, or owed.
Charged(s) ==
    told[s] + (QueueWeight(queue[s]) - Len(queue[s]))
      + (IF InDrain /\ offer.sub = s THEN offer.dropped ELSE pendingDropped[s])

\* EventStats agrees with what the consumers are told: over all subscriptions,
\* past ones too, the losses reported in Dropped are those DiscardedDeliveries
\* and HistoryGapEvents count together, as long as neither has saturated.  A
\* loss is counted once although it may be drained, and reported, many times.
StatsMatchReports ==
    discarded < MaxUint /\ historyGaps < MaxUint =>
        MapThenSumSet(Charged, Subs) =
            discarded + historyGaps + (IF InDrain THEN offer.removed ELSE 0)

\* A subscriber that falls behind still gets the newest event: once the hub is
\* idle, the newest event is the last of the channel, or was received.  The
\* close barrier relies on it for EventClosed.
NewestSurvives ==
    work = Idle => \A s \in Subscribers :
        IF queue[s] = <<>> THEN last[s] = sequence
        ELSE queue[s][Len(queue[s])].seq = sequence

\* Deliveries of one subscription are strictly ordered: the channel is
\* increasing, it is ahead of what was received and behind what is offered.
DeliveryOrder ==
    \A s \in Subs :
        /\ \A i \in 1..Len(queue[s]) :
              last[s] < queue[s][i].seq /\ queue[s][i].seq <= sequence
        /\ \A i, k \in 1..Len(queue[s]) :
              i < k => queue[s][i].seq < queue[s][k].seq

\* publish and subscribe terminate although no consumer ever has to receive.
PublisherNeverWaits == (work # Idle) ~> (work = Idle)

\* MODULES.md: an overflow "sets Dropped to the exact number of events between
\* the subscriber's last observed sequence and that delivery", the one that
\* offerEvent sends at the end of its drain loop.
DroppedIsExactGap ==
    [][InDrain /\ ~InDrain' =>
          offer.dropped = offer.event - last[offer.sub] - 1]_vars
=============================================================================
