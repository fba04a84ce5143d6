--------------------------- MODULE EventHubProofs ---------------------------
(***************************************************************************)
(* Safety of the event hub for every set of subscriptions, ring size,      *)
(* channel capacity and counter width.  The inductive invariant adds to    *)
(* the properties what the holder of h.mu knows between two channel        *)
(* operations: whom it serves, with which event, that every event it has   *)
(* still to offer is newer than all the subscriber has seen, and how far   *)
(* the account of its losses has come.                                     *)
(***************************************************************************)
EXTENDS EventHub, DataInduction, TLAPS

\* Every subscription that exists has a channel with room for one event.
CapOK == \A s \in Subs : status[s] # "new" => cap[s] \in Buffers

\* The holder of h.mu serves members of h.subscribers with the newest event,
\* or one joining subscription with the ring from work.index on.
WorkOK ==
    /\ work.kind = "publish" => /\ work.event = sequence
                                /\ work.left \subseteq Subscribers
    /\ work.kind = "join" => /\ status[work.sub] = "joining"
                             /\ work.index <= historyCount

\* A drain loop serves the event that the holder of h.mu has to offer.
OfferOK ==
    InDrain => MustOffer(offer.sub, offer.event)

\* Ranges are expanded everywhere.
USE DEF Seqs, Slots

\* The index arithmetic of the ring: a sum below twice the ring size wraps at
\* most once.
LEMMA WrapOnce ==
    ASSUME NEW n \in Nat \ {0}, NEW a \in 0..(n - 1), NEW b \in 0..n
    PROVE  (a + b) % n = IF a + b < n THEN a + b ELSE a + b - n
<1>1. CASE a + b < n
  BY <1>1, SMTT(30)
<1>2. CASE ~(a + b < n)
  <2>1. a + b - n \in 0..(n - 1)
    BY <1>2
  <2>2. a + b = n * 1 + (a + b - n)
    BY SMT
  <2>. QED  BY <1>2, <2>1, <2>2, SMTT(30)
<1>. QED  BY <1>1, <1>2

\* A ring position is a slot of the array.
LEMMA IndexIsSlot ==
    ASSUME RingTypes, NEW i \in 0..HistoryLimit
    PROVE  HistoryIndex(i) \in Slots
<1>1. historyStart \in 0..(HistoryLimit - 1)
  BY DEF RingTypes
<1>. QED  BY <1>1, WrapOnce, HistoryLimitAssumption DEF HistoryIndex

\* saturatingAdd stays within the counter's range.
LEMMA SaturatingRange ==
    ASSUME NEW v \in Seqs, NEW i \in Nat
    PROVE  saturatingAdd(v, i) \in Seqs
BY MaxUintAssumption DEF saturatingAdd

\* A receive takes the first delivery of a channel.
LEMMA ReceiveSeq ==
    ASSUME NEW S, NEW q \in Seq(S), q # <<>>
    PROVE  /\ Head(q) = q[1] /\ Head(q) \in S
           /\ Tail(q) \in Seq(S) /\ Len(Tail(q)) = Len(q) - 1 /\ Len(q) \in Nat \ {0}
           /\ \A i \in 1..(Len(q) - 1) : Tail(q)[i] = q[i + 1]
OBVIOUS

\* Only the empty channel has length zero.
LEMMA EmptySeqIff ==
    ASSUME NEW S, NEW q \in Seq(S)
    PROVE  q = <<>> <=> Len(q) = 0
OBVIOUS

\* What a channel holds.
LEMMA ElementOf ==
    ASSUME NEW S, NEW q \in Seq(S), NEW i \in 1..Len(q)
    PROVE  q[i] \in S
OBVIOUS

\* A send adds a delivery at the end of a channel.
LEMMA SendSeq ==
    ASSUME NEW S, NEW q \in Seq(S), NEW d \in S
    PROVE  /\ Append(q, d) \in Seq(S) /\ Len(Append(q, d)) = Len(q) + 1
           /\ Len(q) \in Nat
           /\ \A i \in 1..(Len(q) + 1) :
                 Append(q, d)[i] = IF i <= Len(q) THEN q[i] ELSE d
OBVIOUS

TypeInv == TypeOK /\ CapOK /\ WorkOK /\ OfferOK

LEMMA InitTypeInv == Init => TypeInv
<1>. SUFFICES ASSUME Init PROVE TypeInv
  OBVIOUS
<1>1. FlagTypes
  BY Zenon DEF Init, FlagTypes
<1>2. RingTypes
  BY HistoryLimitAssumption, MaxUintAssumption DEF Init, RingTypes
<1>3. SubTypes
  BY MaxUintAssumption DEF Init, SubTypes
<1>4. WorkTypes
  BY DEF Init, WorkTypes
<1>5. CapOK /\ WorkOK /\ OfferOK
  BY DEF Init, CapOK, WorkOK, OfferOK, Idle, NoOffer, InDrain
<1>. QED  BY <1>1, <1>2, <1>3, <1>4, <1>5 DEF TypeInv, TypeOK

\* The two flags stay Boolean.
LEMMA FlagStep == FlagTypes /\ [Next]_vars => FlagTypes'
<1>. SUFFICES ASSUME FlagTypes, [Next]_vars PROVE FlagTypes'
  OBVIOUS
<1>1. CASE Publish
  BY <1>1, Zenon DEF Publish, FlagTypes
<1>2. CASE PublishExhausted
  BY <1>2, Zenon DEF PublishExhausted, CloseAllSubscribers, FlagTypes
<1>3. CASE OfferStep
  BY <1>3, Zenon DEF OfferStep, OfferRoom, OfferFull, DrainOne, DrainEnd,
                     JoinSkip, JoinEnd, hub, FlagTypes
<1>4. CASE \E s \in Subs, a \in Seqs, b \in Buffers : Subscribe(s, a, b)
  BY <1>4, Zenon DEF Subscribe, hub, FlagTypes
<1>5. CASE \E s \in Subs : Unsubscribe(s)
  BY <1>5, Zenon DEF Unsubscribe, hub, FlagTypes
<1>6. CASE Close
  BY <1>6, Zenon DEF Close, CloseAllSubscribers, FlagTypes
<1>7. CASE \E s \in Subs : Receive(s)
  BY <1>7, Zenon DEF Receive, hub, FlagTypes
<1>8. CASE UNCHANGED vars
  BY <1>8, Zenon DEF vars, hub, FlagTypes
<1>. QED  BY <1>1, <1>2, <1>3, <1>4, <1>5, <1>6, <1>7, <1>8 DEF Next

\* What the holder of h.mu has in hand, by the kind of its work.
LEMMA WorkKinds ==
    ASSUME WorkTypes
    PROVE  /\ work = Idle \/ work.kind \in {"publish", "join"}
           /\ work.kind = "publish" =>
                 /\ work.event \in Seqs /\ work.left \in SUBSET Subs
                 /\ work = Publishing(work.event, work.left)
           /\ work.kind = "join" =>
                 /\ work.sub \in Subs /\ work.index \in 0..HistoryLimit
                 /\ work = Joining(work.sub, work.index)
           /\ work = Idle <=> work.kind = "idle"
           /\ offer = NoOffer <=> ~InDrain
           /\ InDrain => /\ offer.sub \in Subs /\ offer.event \in Seqs
                         /\ offer.dropped \in Seqs /\ offer.removed \in Nat
BY DEF WorkTypes, Idle, NoOffer, InDrain, Publishing, Joining

\* publish keeps the types and leaves the subscribers it has still to serve.
LEMMA PublishTypes == TypeInv /\ Publish => TypeInv'
<1>. SUFFICES ASSUME TypeInv, Publish PROVE TypeInv'
  OBVIOUS
<1>. USE DEF TypeInv, TypeOK
<1>1. FlagTypes'
  BY FlagStep DEF Next
<1>2. RingTypes'
  <2>1. sequence' \in Seqs /\ sequence + 1 \in Seqs
    BY MaxUintAssumption DEF Publish, RingTypes
  <2>2. HistoryIndex(historyCount) \in Slots
    BY IndexIsSlot DEF RingTypes
  <2>3. (historyStart + 1) % HistoryLimit \in Slots
    BY WrapOnce, HistoryLimitAssumption DEF RingTypes
  <2>4. CASE historyCount < HistoryLimit
    BY <2>1, <2>2, <2>4, HistoryLimitAssumption, SMTT(40)
    DEF Publish, appendHistory, RingTypes, stats
  <2>5. CASE ~(historyCount < HistoryLimit)
    BY <2>1, <2>3, <2>5, HistoryLimitAssumption
    DEF Publish, appendHistory, RingTypes, stats
  <2>. QED  BY <2>4, <2>5
<1>3. SubTypes' /\ CapOK'
  BY DEF Publish, SubTypes, CapOK, consumer
<1>4. work' \in {Idle, Publishing(sequence + 1, Subscribers)} /\ offer' = NoOffer
  BY WorkKinds DEF Publish, OfferOK, MustOffer, Idle
<1>5. WorkTypes'
  BY <1>4, MaxUintAssumption DEF Publish, WorkTypes, RingTypes, Publishing, Subscribers
<1>6. WorkOK' /\ OfferOK'
  BY <1>4 DEF WorkOK, OfferOK, Publish, Publishing, Idle, NoOffer, InDrain, Subscribers
<1>. QED  BY <1>1, <1>2, <1>3, <1>5, <1>6

\* Closing the hub, for either reason, touches only the flags and the statuses.
LEMMA CloseTypes == TypeInv /\ (PublishExhausted \/ Close) => TypeInv'
<1>. SUFFICES ASSUME TypeInv, PublishExhausted \/ Close PROVE TypeInv'
  OBVIOUS
<1>. USE DEF TypeInv, TypeOK, PublishExhausted, Close, CloseAllSubscribers
<1>1. FlagTypes'
  BY FlagStep DEF Next
<1>2. RingTypes'
  BY DEF RingTypes, stats
<1>3. status' = [s \in Subs |-> IF status[s] = "live" THEN "closed" ELSE status[s]]
  OBVIOUS
<1>4. SubTypes'
  BY <1>3 DEF SubTypes, consumer
<1>5. CapOK'
  BY <1>3 DEF CapOK
<1>6. work = Idle /\ work' = work /\ offer' = offer
  OBVIOUS
<1>7. WorkTypes'
  BY <1>6 DEF WorkTypes
<1>8. WorkOK' /\ OfferOK'
  BY <1>6 DEF WorkOK, OfferOK, MustOffer, InDrain, Idle
<1>. QED  BY <1>1, <1>2, <1>4, <1>5, <1>7, <1>8

\* What the caller of offerEvent does next is again well-formed work.
LEMMA OfferDoneTypes ==
    ASSUME TypeInv, NEW s \in Subs, NEW e \in Seqs, MustOffer(s, e),
           OfferDone(s), UNCHANGED <<hub, status>>, offer' = NoOffer
    PROVE  WorkTypes' /\ WorkOK' /\ OfferOK'
<1>. USE DEF TypeInv, TypeOK
<1>1. OfferOK'
  BY DEF OfferOK, InDrain, NoOffer
<1>2. historyCount' = historyCount /\ sequence' = sequence /\ status' = status
  BY DEF hub
<1>3. CASE work.kind = "publish"
  <2>1. work' \in {Idle, Publishing(work.event, work.left \ {s})}
    BY <1>3 DEF OfferDone
  <2>2. work.event \in Seqs /\ work.left \in SUBSET Subs
    BY <1>3, WorkKinds
  <2>3. WorkTypes'
    BY <2>1, <2>2 DEF WorkTypes, Publishing
  <2>4. WorkOK'
    BY <1>2, <1>3, <2>1, <2>2 DEF WorkOK, Publishing, Idle, Subscribers
  <2>. QED  BY <1>1, <2>3, <2>4
<1>4. CASE work.kind = "join"
  <2>1. work.sub = s /\ work.index < historyCount /\ status[s] = "joining"
    BY <1>4 DEF MustOffer, WorkOK
  <2>2. work.index \in 0..HistoryLimit /\ historyCount \in 0..HistoryLimit
    BY <1>4, WorkKinds DEF RingTypes
  <2>3. work' = Joining(s, work.index + 1)
    BY <1>4 DEF OfferDone
  <2>4. WorkTypes'
    BY <2>1, <2>2, <2>3, HistoryLimitAssumption DEF WorkTypes, Joining
  <2>5. WorkOK'
    BY <1>2, <2>1, <2>2, <2>3, HistoryLimitAssumption DEF WorkOK, Joining
  <2>. QED  BY <1>1, <2>4, <2>5
<1>. QED  BY <1>3, <1>4 DEF MustOffer

\* The first select of offerEvent, with room.
LEMMA OfferRoomTypes ==
    ASSUME TypeInv, NEW s \in Subs, NEW e \in Seqs, OfferRoom(s, e)
    PROVE  TypeInv'
<1>. USE DEF TypeInv, TypeOK
<1>1. FlagTypes'
  BY FlagStep DEF Next, OfferStep
<1>2. RingTypes'
  BY DEF RingTypes, OfferRoom, hub, stats
<1>3. [seq |-> e, dropped |-> pendingDropped[s]] \in Delivery
  BY DEF SubTypes, Delivery
<1>4. SubTypes'
  <2>1. queue' \in [Subs -> Seq(Delivery)]
    BY <1>3, SendSeq DEF SubTypes, OfferRoom
  <2>. QED  BY <2>1, MaxUintAssumption DEF SubTypes, OfferRoom, consumer
<1>5. CapOK'
  BY DEF CapOK, OfferRoom
<1>6. WorkTypes' /\ WorkOK' /\ OfferOK'
  BY OfferDoneTypes, WorkKinds DEF OfferRoom
<1>. QED  BY <1>1, <1>2, <1>4, <1>5, <1>6

\* The first select of offerEvent, on a full channel.
LEMMA OfferFullTypes ==
    ASSUME TypeInv, NEW s \in Subs, NEW e \in Seqs, OfferFull(s, e)
    PROVE  TypeInv'
<1>. USE DEF TypeInv, TypeOK
<1>1. FlagTypes'
  BY FlagStep DEF Next, OfferStep
<1>2. RingTypes'
  BY DEF RingTypes, OfferFull, hub, stats
<1>3. SubTypes' /\ CapOK'
  BY DEF SubTypes, CapOK, OfferFull, consumer
<1>4. offer' = Draining(s, e, pendingDropped[s], 0) /\ pendingDropped[s] \in Seqs
  BY DEF OfferFull, SubTypes
<1>5. WorkTypes'
  BY <1>4 DEF WorkTypes, OfferFull, Draining
<1>6. WorkOK'
  BY DEF WorkOK, OfferFull, hub, Subscribers
<1>7. OfferOK'
  BY <1>4 DEF OfferOK, OfferFull, MustOffer, hub, HistoryIndex, Draining
<1>. QED  BY <1>1, <1>2, <1>3, <1>5, <1>6, <1>7

\* The record of a drain loop after one of its turns.
LEMMA DrainRecord ==
    ASSUME NEW C, NEW D, NEW n \in D,
           NEW o \in [kind : {"drain"}, sub : C, event : D, dropped : D, removed : Nat]
    PROVE  [o EXCEPT !.dropped = n, !.removed = @ + 1] \in
               [kind : {"drain"}, sub : C, event : D, dropped : D, removed : Nat]
<1>1. [o EXCEPT !.dropped = n] \in
          [kind : {"drain"}, sub : C, event : D, dropped : D, removed : Nat]
  OBVIOUS
<1>2. ASSUME NEW p \in [kind : {"drain"}, sub : C, event : D, dropped : D, removed : Nat],
             NEW m \in Nat
      PROVE  [p EXCEPT !.removed = m] \in
                [kind : {"drain"}, sub : C, event : D, dropped : D, removed : Nat]
  OBVIOUS
<1>3. [o EXCEPT !.dropped = n].removed + 1 \in Nat
  BY <1>1
<1>. QED  BY <1>1, <1>2, <1>3

\* One turn of the drain loop.
LEMMA DrainOneTypes == TypeInv /\ DrainOne => TypeInv'
<1>. SUFFICES ASSUME TypeInv, DrainOne PROVE TypeInv'
  OBVIOUS
<1>. USE DEF TypeInv, TypeOK
<1>. DEFINE s == offer.sub
            d == Head(queue[s]).dropped
<1>1. FlagTypes'
  BY FlagStep DEF Next, OfferStep
<1>2. RingTypes'
  BY DEF RingTypes, DrainOne, hub, stats
<1>3. /\ s \in Subs /\ offer.event \in Seqs /\ offer.dropped \in Seqs
      /\ offer.removed \in Nat
  BY WorkKinds DEF DrainOne
<1>4. queue[s] \in Seq(Delivery) /\ queue[s] # <<>>
  BY <1>3 DEF SubTypes, DrainOne
<1>5. Head(queue[s]) \in Delivery /\ Tail(queue[s]) \in Seq(Delivery)
  BY <1>4, ReceiveSeq
<1>6. SubTypes' /\ CapOK'
  BY <1>5 DEF SubTypes, CapOK, DrainOne, consumer
<1>7. saturatingAdd(d, 1) \in Seqs
  BY <1>5, SaturatingRange DEF Delivery
<1>8. saturatingAdd(offer.dropped, saturatingAdd(d, 1)) \in Seqs
  <2>1. saturatingAdd(d, 1) \in Nat
    BY <1>7, MaxUintAssumption
  <2>. QED  BY <1>3, <2>1, SaturatingRange
<1>9. WorkTypes'
  <2>1. offer \in [kind : {"drain"}, sub : Subs, event : Seqs,
                   dropped : Seqs, removed : Nat]
    BY DEF WorkTypes, DrainOne, InDrain, NoOffer
  <2>2. PICK n \in Seqs : offer' = [offer EXCEPT !.dropped = n, !.removed = @ + 1]
    BY <1>8 DEF DrainOne
  <2>3. offer' \in [kind : {"drain"}, sub : Subs, event : Seqs,
                    dropped : Seqs, removed : Nat]
    BY <2>1, <2>2, DrainRecord
  <2>. QED  BY <2>3 DEF WorkTypes, DrainOne
<1>10. WorkOK'
  BY DEF WorkOK, DrainOne, hub, Subscribers
<1>11. offer'.sub = offer.sub /\ offer'.event = offer.event
  BY <1>3 DEF DrainOne, WorkTypes, InDrain, NoOffer
<1>12. OfferOK'
  BY <1>11 DEF OfferOK, DrainOne, MustOffer, hub, HistoryIndex
<1>. QED  BY <1>1, <1>2, <1>6, <1>9, <1>10, <1>12

\* The end of the drain loop.
LEMMA DrainEndTypes == TypeInv /\ DrainEnd => TypeInv'
<1>. SUFFICES ASSUME TypeInv, DrainEnd PROVE TypeInv'
  OBVIOUS
<1>. USE DEF TypeInv, TypeOK
<1>1. FlagTypes'
  BY FlagStep DEF Next, OfferStep
<1>2. /\ offer.sub \in Subs /\ offer.event \in Seqs /\ offer.dropped \in Seqs
      /\ offer.removed \in Nat /\ MustOffer(offer.sub, offer.event)
  BY WorkKinds DEF DrainEnd, OfferOK
<1>3. saturatingAdd(discarded, offer.removed) \in Seqs
  BY <1>2, SaturatingRange DEF RingTypes
<1>4. RingTypes'
  BY <1>3 DEF RingTypes, DrainEnd, hub
<1>5. [seq |-> offer.event, dropped |-> offer.dropped] \in Delivery
  BY <1>2 DEF Delivery
<1>6. SubTypes'
  <2>1. queue' \in [Subs -> Seq(Delivery)]
    BY <1>2, <1>5, SendSeq DEF SubTypes, DrainEnd
  <2>. QED  BY <2>1, MaxUintAssumption DEF SubTypes, DrainEnd, consumer
<1>7. CapOK'
  BY DEF CapOK, DrainEnd
<1>8. WorkTypes' /\ WorkOK' /\ OfferOK'
  BY <1>2, OfferDoneTypes DEF DrainEnd
<1>. QED  BY <1>1, <1>4, <1>6, <1>7, <1>8

\* The losses before the retained window fit the counters.
LEMMA MissingRange ==
    ASSUME RingTypes, NEW a \in Seqs
    PROVE  MissingPrefix(a) \in Seqs
BY MaxUintAssumption, HistoryLimitAssumption DEF RingTypes, MissingPrefix, Earliest

\* subscribe up to its replay loop.
LEMMA SubscribeTypes ==
    ASSUME TypeInv, NEW s \in Subs, NEW a \in Seqs, NEW b \in Buffers,
           Subscribe(s, a, b)
    PROVE  TypeInv'
<1>. USE DEF TypeInv, TypeOK
<1>1. FlagTypes'
  BY FlagStep DEF Next
<1>2. MissingPrefix(a) \in Seqs
  BY MissingRange
<1>3. saturatingAdd(historyGaps, MissingPrefix(a)) \in Seqs
  <2>1. MissingPrefix(a) \in Nat /\ historyGaps \in Seqs
    BY <1>2, MaxUintAssumption DEF RingTypes
  <2>. QED  BY <2>1, SaturatingRange
<1>4. RingTypes'
  BY <1>3 DEF RingTypes, Subscribe, hub
<1>5. SubTypes'
  BY <1>2 DEF SubTypes, Subscribe
<1>6. CapOK'
  BY DEF CapOK, Subscribe, SubTypes
<1>7. /\ work = Idle /\ offer' = offer /\ offer = NoOffer
      /\ status'[s] = "joining" /\ historyCount' = historyCount
  BY WorkKinds DEF Subscribe, OfferOK, MustOffer, Idle, SubTypes, hub
<1>8. PICK i \in 0..historyCount : work' = Joining(s, i)
  BY HistoryLimitAssumption DEF Subscribe, RingTypes
<1>9. WorkTypes'
  BY <1>7, <1>8, HistoryLimitAssumption DEF WorkTypes, Joining, RingTypes
<1>10. WorkOK' /\ OfferOK'
  BY <1>7, <1>8 DEF WorkOK, OfferOK, Joining, NoOffer, InDrain, RingTypes
<1>. QED  BY <1>1, <1>4, <1>5, <1>6, <1>9, <1>10

\* The replay loop passes over an event, or ends.
LEMMA JoinTypes == TypeInv /\ (JoinSkip \/ JoinEnd) => TypeInv'
<1>. SUFFICES ASSUME TypeInv, JoinSkip \/ JoinEnd PROVE TypeInv'
  OBVIOUS
<1>. USE DEF TypeInv, TypeOK
<1>1. FlagTypes'
  BY FlagStep DEF Next, OfferStep
<1>2. RingTypes'
  BY DEF RingTypes, JoinSkip, JoinEnd, hub, stats
<1>3. /\ work.sub \in Subs /\ work.index \in 0..HistoryLimit
      /\ status[work.sub] = "joining" /\ offer' = NoOffer
      /\ historyCount' = historyCount /\ historyCount \in 0..HistoryLimit
  BY WorkKinds DEF JoinSkip, JoinEnd, WorkOK, hub, RingTypes
<1>4. SubTypes'
  BY <1>3 DEF SubTypes, JoinSkip, JoinEnd, consumer
<1>5. CapOK'
  BY <1>3 DEF CapOK, JoinSkip, JoinEnd, SubTypes
<1>6. OfferOK'
  BY <1>3 DEF OfferOK, InDrain, NoOffer
<1>7. CASE JoinSkip
  <2>1. work' = Joining(work.sub, work.index + 1) /\ work.index < historyCount
        /\ status' = status
    BY <1>7 DEF JoinSkip
  <2>2. WorkTypes'
    BY <1>3, <2>1, HistoryLimitAssumption DEF WorkTypes, Joining
  <2>3. WorkOK'
    BY <1>3, <2>1, HistoryLimitAssumption DEF WorkOK, Joining
  <2>. QED  BY <1>1, <1>2, <1>4, <1>5, <1>6, <2>2, <2>3
<1>8. CASE JoinEnd
  <2>1. WorkTypes' /\ WorkOK'
    BY <1>3, <1>8 DEF JoinEnd, WorkTypes, WorkOK, Idle
  <2>. QED  BY <1>1, <1>2, <1>4, <1>5, <1>6, <2>1
<1>. QED  BY <1>7, <1>8

\* unsubscribe.
LEMMA UnsubscribeTypes ==
    ASSUME TypeInv, NEW s \in Subs, Unsubscribe(s)
    PROVE  TypeInv'
<1>. USE DEF TypeInv, TypeOK, Unsubscribe
<1>1. FlagTypes'
  BY FlagStep DEF Next
<1>2. RingTypes'
  BY DEF RingTypes, hub, stats
<1>3. SubTypes'
  BY DEF SubTypes, consumer
<1>4. CapOK'
  BY DEF CapOK, SubTypes
<1>5. WorkTypes'
  BY DEF WorkTypes
<1>6. WorkOK' /\ OfferOK'
  BY DEF WorkOK, OfferOK, MustOffer, InDrain, Idle
<1>. QED  BY <1>1, <1>2, <1>3, <1>4, <1>5, <1>6

\* A consumer's receive.
LEMMA ReceiveTypes ==
    ASSUME TypeInv, NEW s \in Subs, Receive(s)
    PROVE  TypeInv'
<1>. USE DEF TypeInv, TypeOK
<1>1. FlagTypes'
  BY FlagStep DEF Next
<1>2. RingTypes'
  BY DEF RingTypes, Receive, hub, stats
<1>3. /\ Head(queue[s]) \in Delivery /\ Tail(queue[s]) \in Seq(Delivery)
  BY ReceiveSeq DEF SubTypes, Receive
<1>4. Head(queue[s]).seq \in Seqs /\ Head(queue[s]).dropped \in Nat
  BY <1>3, MaxUintAssumption DEF Delivery
<1>5. SubTypes'
  <2>1. told' \in [Subs -> Nat]
    BY <1>4 DEF SubTypes, Receive
  <2>2. got' \in [Subs -> Nat]
    BY DEF SubTypes, Receive
  <2>3. last' \in [Subs -> Seqs] /\ queue' \in [Subs -> Seq(Delivery)]
    BY <1>3, <1>4 DEF SubTypes, Receive
  <2>. QED  BY <2>1, <2>2, <2>3 DEF SubTypes, Receive
<1>6. CapOK' /\ WorkTypes'
  BY DEF CapOK, WorkTypes, Receive
<1>7. WorkOK'
  BY DEF WorkOK, Receive, hub, Subscribers
<1>8. OfferOK'
  BY DEF OfferOK, Receive, MustOffer, hub, HistoryIndex, InDrain
<1>. QED  BY <1>1, <1>2, <1>5, <1>6, <1>7, <1>8

\* Every step keeps the types and the facts about the holder of h.mu.
LEMMA TypeStep == TypeInv /\ [Next]_vars => TypeInv'
<1>. SUFFICES ASSUME TypeInv, [Next]_vars PROVE TypeInv'
  OBVIOUS
<1>1. CASE UNCHANGED vars
  <2>1. FlagTypes'
    BY FlagStep DEF TypeInv, TypeOK
  <2>2. RingTypes' /\ SubTypes' /\ WorkTypes'
    BY <1>1 DEF vars, hub, stats, consumer, TypeInv, TypeOK, RingTypes,
                SubTypes, WorkTypes
  <2>3. CapOK' /\ WorkOK' /\ OfferOK'
    BY <1>1 DEF vars, hub, TypeInv, CapOK, WorkOK, OfferOK, InDrain, MustOffer,
                HistoryIndex, Subscribers
  <2>. QED  BY <2>1, <2>2, <2>3 DEF TypeInv, TypeOK
<1>2. CASE OfferStep
  BY <1>2, OfferRoomTypes, OfferFullTypes, DrainOneTypes, DrainEndTypes,
     JoinTypes DEF OfferStep
<1>. QED  BY <1>1, <1>2, PublishTypes, CloseTypes, SubscribeTypes,
             UnsubscribeTypes, ReceiveTypes DEF Next

\* Type correctness: no counter of the hub ever leaves the uint64 range and
\* every index stays within the ring, for all capacities and bounds.
THEOREM TypeCorrect == Spec => []TypeOK
<1>1. Spec => []TypeInv
  BY InitTypeInv, TypeStep, PTL DEF Spec
<1>2. TypeInv => TypeOK
  BY DEF TypeInv
<1>. QED  BY <1>1, <1>2, PTL

-----------------------------------------------------------------------------
\* The ring

\* Appending to the ring keeps it the window of the newest events.
LEMMA RingStep == TypeInv /\ RingWindow /\ [Next]_vars => RingWindow'
<1>. SUFFICES ASSUME TypeInv, RingWindow, [Next]_vars PROVE RingWindow'
  OBVIOUS
<1>. USE HistoryLimitAssumption
<1>0. /\ sequence \in Nat /\ history \in [Slots -> Seqs]
      /\ historyStart \in 0..(HistoryLimit - 1) /\ historyCount \in 0..HistoryLimit
  BY MaxUintAssumption DEF TypeInv, TypeOK, RingTypes
<1>w. \A a \in 0..(HistoryLimit - 1), b \in 0..HistoryLimit :
          (a + b) % HistoryLimit =
              IF a + b < HistoryLimit THEN a + b ELSE a + b - HistoryLimit
  BY WrapOnce
<1>1. CASE Publish /\ historyCount < HistoryLimit
  <2>1. /\ sequence' = sequence + 1 /\ historyCount' = historyCount + 1
        /\ historyStart' = historyStart
        /\ history' = [history EXCEPT ![HistoryIndex(historyCount)] = sequence + 1]
    BY <1>1 DEF Publish, appendHistory
  <2>2. ASSUME NEW i \in 0..historyCount
        PROVE  history'[HistoryIndex(i)'] = sequence' - historyCount' + 1 + i
    <3>1. /\ HistoryIndex(i)' = HistoryIndex(i) /\ HistoryIndex(i) \in Slots
          /\ HistoryIndex(historyCount) \in Slots
      BY <1>0, <2>1, IndexIsSlot DEF HistoryIndex, TypeInv, TypeOK
    <3>2. CASE i = historyCount
      BY <1>0, <1>1, <2>1, <3>1, <3>2 DEF RingWindow
    <3>3. CASE i # historyCount
      <4>1. HistoryIndex(i) # HistoryIndex(historyCount)
        <5>1. i \in 0..HistoryLimit /\ historyCount \in 0..HistoryLimit
          BY <1>0
        <5>2. HistoryIndex(i) = IF historyStart + i < HistoryLimit
                THEN historyStart + i ELSE historyStart + i - HistoryLimit
          BY <1>0, <1>w, <5>1 DEF HistoryIndex
        <5>3. HistoryIndex(historyCount) = IF historyStart + historyCount < HistoryLimit
                THEN historyStart + historyCount
                ELSE historyStart + historyCount - HistoryLimit
          BY <1>0, <1>w, <5>1 DEF HistoryIndex
        <5>. QED  BY <1>0, <1>1, <3>3, <5>1, <5>2, <5>3
      <4>. QED  BY <1>0, <2>1, <3>1, <3>3, <4>1 DEF RingWindow
    <3>. QED  BY <3>2, <3>3
  <2>. QED  BY <1>0, <1>1, <2>1, <2>2 DEF RingWindow
<1>2. CASE Publish /\ ~(historyCount < HistoryLimit)
  <2>1. /\ sequence' = sequence + 1 /\ historyCount' = historyCount
        /\ historyCount = HistoryLimit
        /\ historyStart' = (historyStart + 1) % HistoryLimit
        /\ history' = [history EXCEPT ![historyStart] = sequence + 1]
    BY <1>0, <1>2 DEF Publish, appendHistory
  <2>2. ASSUME NEW i \in 0..(HistoryLimit - 1)
        PROVE  history'[HistoryIndex(i)'] = sequence' - historyCount' + 1 + i
    <3>1. historyStart' = IF historyStart + 1 < HistoryLimit
                          THEN historyStart + 1 ELSE 0
      <4>1. 1 \in 0..HistoryLimit
        OBVIOUS
      <4>2. historyStart' = IF historyStart + 1 < HistoryLimit
                            THEN historyStart + 1 ELSE historyStart + 1 - HistoryLimit
        BY <1>0, <1>w, <2>1, <4>1
      <4>. QED  BY <1>0, <4>2
    <3>2. HistoryIndex(i)' = IF historyStart' + i < HistoryLimit
                             THEN historyStart' + i
                             ELSE historyStart' + i - HistoryLimit
      <4>1. historyStart' \in 0..(HistoryLimit - 1) /\ i \in 0..HistoryLimit
        BY <1>0, <3>1
      <4>. QED  BY <1>w, <4>1 DEF HistoryIndex
    <3>3. CASE i = HistoryLimit - 1
      <4>1. HistoryIndex(i)' = historyStart
        BY <1>0, <3>1, <3>2, <3>3
      <4>. QED  BY <1>0, <2>1, <3>3, <4>1
    <3>4. CASE i # HistoryLimit - 1
      <4>1. HistoryIndex(i + 1) = IF historyStart + (i + 1) < HistoryLimit
                                  THEN historyStart + (i + 1)
                                  ELSE historyStart + (i + 1) - HistoryLimit
        <5>1. i + 1 \in 0..HistoryLimit
          OBVIOUS
        <5>. QED  BY <1>0, <1>w, <5>1 DEF HistoryIndex
      <4>2. /\ HistoryIndex(i)' = HistoryIndex(i + 1)
            /\ HistoryIndex(i + 1) # historyStart /\ HistoryIndex(i + 1) \in Slots
        BY <1>0, <3>1, <3>2, <3>4, <4>1
      <4>3. history[HistoryIndex(i + 1)] = sequence - historyCount + 1 + (i + 1)
        BY <1>0, <2>1, <3>4 DEF RingWindow
      <4>. QED  BY <1>0, <2>1, <3>4, <4>2, <4>3
    <3>. QED  BY <3>3, <3>4
  <2>. QED  BY <1>0, <2>1, <2>2 DEF RingWindow
<1>3. CASE UNCHANGED <<sequence, history, historyStart, historyCount>>
  BY <1>3 DEF RingWindow, HistoryIndex
<1>4. Publish \/ UNCHANGED <<sequence, history, historyStart, historyCount>>
  BY DEF Next, vars, hub, PublishExhausted, OfferStep, OfferRoom, OfferFull,
         DrainOne, DrainEnd, JoinSkip, JoinEnd, Subscribe, Unsubscribe, Close,
         Receive
<1>. QED  BY <1>1, <1>2, <1>3, <1>4

\* The ring always retains exactly the newest events, in order.
THEOREM RingIsWindow == Spec => []RingWindow
<1>1. Init => RingWindow
  BY DEF Init, RingWindow
<1>. QED  BY <1>1, InitTypeInv, TypeStep, RingStep, PTL DEF Spec

-----------------------------------------------------------------------------
\* The channels

\* The deliveries of channel q lie strictly above l and up to n, increasing.
InOrder(q, l, n) ==
    /\ \A i \in 1..Len(q) : l < q[i].seq /\ q[i].seq <= n
    /\ \A i, k \in 1..Len(q) : i < k => q[i].seq < q[k].seq

\* Event e is newer than what was received and than all that is in the channel.
Newest(q, l, e) == l < e /\ \A i \in 1..Len(q) : q[i].seq < e

\* Event e may still be offered to s by the holder of h.mu.
Owes(s, e) ==
    \/ work.kind = "publish" /\ s \in work.left /\ e = work.event
    \/ /\ work.kind = "join" /\ work.sub = s
       /\ after[s] < e /\ e <= sequence
       /\ sequence - historyCount + work.index < e

\* The inductive invariant of the channels.  What makes the order inductive is
\* the last conjunct: nothing that is still owed to a subscription is older
\* than anything it has been given.
ChannelInv ==
    /\ \A s \in Subs :
          /\ last[s] <= sequence
          /\ InOrder(queue[s], last[s], sequence)
          /\ Len(queue[s]) <= cap[s]
          /\ status[s] = "new" => queue[s] = <<>>
    /\ \A s \in Subs, e \in Seqs : Owes(s, e) => Newest(queue[s], last[s], e)

Inv == TypeInv /\ RingWindow /\ ChannelInv

LEMMA InOrderReceive ==
    ASSUME NEW q \in Seq(Delivery), q # <<>>, NEW l \in Nat, NEW n \in Nat,
           InOrder(q, l, n)
    PROVE  /\ l < Head(q).seq /\ Head(q).seq <= n
           /\ InOrder(Tail(q), Head(q).seq, n) /\ InOrder(Tail(q), l, n)
<1>1. /\ Head(q) = q[1] /\ Tail(q) \in Seq(Delivery)
      /\ Len(Tail(q)) = Len(q) - 1 /\ Len(q) \in Nat \ {0}
      /\ \A i \in 1..(Len(q) - 1) : Tail(q)[i] = q[i + 1]
  BY ReceiveSeq
<1>2. \A i \in 1..Len(Tail(q)) : /\ Tail(q)[i] = q[i + 1]
                                 /\ i + 1 \in 1..Len(q) /\ 1 < i + 1
  BY <1>1
<1>3. 1 \in 1..Len(q)
  BY <1>1
<1>4. \A i \in 1..Len(Tail(q)) : /\ Head(q).seq < Tail(q)[i].seq
                                 /\ l < Tail(q)[i].seq /\ Tail(q)[i].seq <= n
  BY <1>1, <1>2, <1>3 DEF InOrder
<1>5. \A i, k \in 1..Len(Tail(q)) : i < k => Tail(q)[i].seq < Tail(q)[k].seq
  <2>. SUFFICES ASSUME NEW i \in 1..Len(Tail(q)), NEW k \in 1..Len(Tail(q)), i < k
                PROVE  Tail(q)[i].seq < Tail(q)[k].seq
    OBVIOUS
  <2>1. i + 1 < k + 1 /\ i + 1 \in 1..Len(q) /\ k + 1 \in 1..Len(q)
    BY <1>2
  <2>. QED  BY <1>2, <2>1 DEF InOrder
<1>. QED  BY <1>1, <1>3, <1>4, <1>5 DEF InOrder

LEMMA InOrderSend ==
    ASSUME NEW q \in Seq(Delivery), NEW l \in Nat, NEW n \in Nat, NEW d \in Delivery,
           InOrder(q, l, n), Newest(q, l, d.seq), d.seq <= n
    PROVE  InOrder(Append(q, d), l, n)
<1>1. /\ Len(Append(q, d)) = Len(q) + 1 /\ Len(q) \in Nat
      /\ \A i \in 1..(Len(q) + 1) :
            Append(q, d)[i] = IF i <= Len(q) THEN q[i] ELSE d
  BY SendSeq
<1>. DEFINE r == Append(q, d)
<1>2. ASSUME NEW i \in 1..Len(r)
      PROVE  l < r[i].seq /\ r[i].seq <= n
  <2>1. CASE i <= Len(q)
    BY <1>1, <2>1 DEF InOrder
  <2>2. CASE ~(i <= Len(q))
    BY <1>1, <2>2 DEF Newest
  <2>. QED  BY <2>1, <2>2
<1>3. ASSUME NEW i \in 1..Len(r), NEW k \in 1..Len(r), i < k
      PROVE  r[i].seq < r[k].seq
  <2>1. i \in 1..Len(q) /\ r[i] = q[i]
    BY <1>1, <1>3
  <2>2. CASE k <= Len(q)
    BY <1>1, <1>3, <2>1, <2>2 DEF InOrder
  <2>3. CASE ~(k <= Len(q))
    BY <1>1, <2>1, <2>3 DEF Newest
  <2>. QED  BY <2>2, <2>3
<1>. QED  BY <1>2, <1>3 DEF InOrder

LEMMA NewestReceive ==
    ASSUME NEW q \in Seq(Delivery), q # <<>>, NEW l \in Nat, NEW e \in Nat,
           Newest(q, l, e)
    PROVE  Newest(Tail(q), Head(q).seq, e) /\ Newest(Tail(q), l, e)
<1>1. /\ Head(q) = q[1] /\ Tail(q) \in Seq(Delivery)
      /\ Len(Tail(q)) = Len(q) - 1 /\ Len(q) \in Nat \ {0}
      /\ \A i \in 1..(Len(q) - 1) : Tail(q)[i] = q[i + 1]
  BY ReceiveSeq
<1>2. \A i \in 1..Len(Tail(q)) : Tail(q)[i] = q[i + 1] /\ i + 1 \in 1..Len(q)
  BY <1>1
<1>3. 1 \in 1..Len(q)
  BY <1>1
<1>. QED  BY <1>1, <1>2, <1>3 DEF Newest

LEMMA NewestSend ==
    ASSUME NEW q \in Seq(Delivery), NEW l \in Nat, NEW e \in Nat, NEW d \in Delivery,
           Newest(q, l, e), d.seq < e
    PROVE  Newest(Append(q, d), l, e)
<1>1. /\ Len(Append(q, d)) = Len(q) + 1 /\ Len(q) \in Nat
      /\ \A i \in 1..(Len(q) + 1) :
            Append(q, d)[i] = IF i <= Len(q) THEN q[i] ELSE d
  BY SendSeq
<1>. DEFINE r == Append(q, d)
<1>2. ASSUME NEW i \in 1..Len(r) PROVE r[i].seq < e
  <2>1. CASE i <= Len(q)
    BY <1>1, <2>1 DEF Newest
  <2>2. CASE ~(i <= Len(q))
    BY <1>1, <2>2
  <2>. QED  BY <2>1, <2>2
<1>. QED  BY <1>2 DEF Newest

\* What the types say about one subscription, in plain numbers.
LEMMA Plain ==
    ASSUME TypeInv, NEW s \in Subs
    PROVE  /\ sequence \in Nat /\ historyCount \in Nat /\ Seqs \subseteq Nat
           /\ queue[s] \in Seq(Delivery) /\ Len(queue[s]) \in Nat
           /\ last[s] \in Nat /\ after[s] \in Nat /\ cap[s] \in Nat
           /\ status[s] # "new" => cap[s] >= 1
<1>. USE DEF TypeInv, TypeOK
<1>1. sequence \in Nat /\ historyCount \in Nat /\ Seqs \subseteq Nat
  BY MaxUintAssumption, HistoryLimitAssumption DEF RingTypes
<1>2. queue[s] \in Seq(Delivery) /\ last[s] \in Seqs /\ after[s] \in Seqs
  BY DEF SubTypes
<1>3. Len(queue[s]) \in Nat
  <2>1. \A S : \A q \in Seq(S) : Len(q) \in Nat
    OBVIOUS
  <2>. QED  BY <1>2, <2>1, Zenon
<1>b. \A b \in Buffers : b \in Nat /\ b >= 1
  BY BuffersAssumption
<1>4. cap[s] \in Nat
  <2>1. cap[s] \in Buffers \/ cap[s] = 0
    BY DEF SubTypes
  <2>. QED  BY <1>b, <2>1
<1>5. status[s] # "new" => cap[s] >= 1
  BY <1>b DEF CapOK
<1>. QED  BY <1>1, <1>2, <1>3, <1>4, <1>5

\* The event to offer next is owed, is not ahead of the sequence, and goes to
\* a channel that exists.
LEMMA OfferOwed ==
    ASSUME Inv, NEW s \in Subs, NEW e \in Seqs, MustOffer(s, e)
    PROVE  Owes(s, e) /\ e <= sequence /\ status[s] # "new"
<1>1. CASE work.kind = "publish"
  BY <1>1, Plain DEF Inv, TypeInv, WorkOK, MustOffer, Owes, Subscribers
<1>2. CASE work.kind = "join"
  <2>1. work.index \in Nat /\ work.index < historyCount /\ work.sub = s /\ after[s] < e
    BY <1>2, WorkKinds, HistoryLimitAssumption, Plain
    DEF MustOffer, Inv, TypeInv, TypeOK
  <2>2. e = sequence - historyCount + 1 + work.index
    BY <1>2, <2>1, Plain DEF MustOffer, Inv, RingWindow
  <2>3. status[s] = "joining"
    BY <1>2, <2>1 DEF Inv, TypeInv, WorkOK
  <2>. QED  BY <1>2, <2>1, <2>2, <2>3, Plain DEF Owes, Inv
<1>. QED  BY <1>1, <1>2 DEF MustOffer

\* What is owed after an offer was owed before it and, to the same
\* subscription, is newer than the event just offered.
LEMMA OfferRest ==
    ASSUME Inv, NEW s \in Subs, NEW e \in Seqs, MustOffer(s, e), OfferDone(s),
           UNCHANGED <<hub, after>>,
           NEW r \in Subs, NEW f \in Seqs, Owes(r, f)'
    PROVE  Owes(r, f) /\ (r = s => e < f)
<1>0. sequence' = sequence /\ historyCount' = historyCount /\ after' = after
  BY DEF hub
<1>1. CASE work.kind = "publish"
  <2>1. work' \in {Idle, Publishing(work.event, work.left \ {s})}
    BY <1>1 DEF OfferDone
  <2>. QED  BY <1>0, <1>1, <2>1 DEF Owes, Idle, Publishing
<1>2. CASE work.kind = "join"
  <2>1. work.index \in Nat /\ work.index < historyCount /\ work.sub = s
    BY <1>2, WorkKinds, HistoryLimitAssumption, Plain
    DEF MustOffer, Inv, TypeInv, TypeOK
  <2>2. e = sequence - historyCount + 1 + work.index
    BY <1>2, <2>1, Plain, SMTT(40) DEF MustOffer, Inv, RingWindow
  <2>3. work' = Joining(s, work.index + 1)
    BY <1>2 DEF OfferDone
  <2>4. /\ r = s /\ after[s] < f /\ f <= sequence
        /\ sequence - historyCount + (work.index + 1) < f
    BY <1>0, <2>3 DEF Owes, Joining
  <2>5. f \in Nat /\ sequence \in Nat /\ historyCount \in Nat
    BY Plain DEF Inv
  <2>. QED  BY <1>2, <2>1, <2>2, <2>4, <2>5 DEF Owes
<1>. QED  BY <1>1, <1>2 DEF MustOffer

\* A send of offerEvent, at either place, keeps the channels in order.
LEMMA SendStep ==
    ASSUME Inv, NEW s \in Subs, NEW e \in Seqs, NEW n \in Seqs, MustOffer(s, e),
           Len(queue[s]) < cap[s],
           queue' = [queue EXCEPT ![s] = Append(@, [seq |-> e, dropped |-> n])],
           OfferDone(s), UNCHANGED <<hub, after, status, cap, last>>
    PROVE  ChannelInv'
<1>. DEFINE d == [seq |-> e, dropped |-> n]
<1>1. d \in Delivery /\ d.seq = e
  BY DEF Delivery
<1>2. Owes(s, e) /\ e <= sequence /\ status[s] # "new"
  BY OfferOwed
<1>3. sequence' = sequence
  BY DEF hub
<1>. HIDE DEF d
<1>4. /\ queue'[s] = Append(queue[s], d)
      /\ \A r \in Subs : r # s => queue'[r] = queue[r]
  BY DEF Inv, TypeInv, TypeOK, SubTypes, d
<1>5. Newest(queue[s], last[s], e) /\ InOrder(queue[s], last[s], sequence)
  BY <1>2 DEF Inv, ChannelInv
<1>6. InOrder(queue'[s], last[s], sequence)
  BY <1>1, <1>2, <1>4, <1>5, InOrderSend, Plain DEF Inv
<1>7. Len(queue'[s]) <= cap[s]
  <2>1. Len(queue'[s]) = Len(queue[s]) + 1
    BY <1>1, <1>4, SendSeq, Plain DEF Inv
  <2>. QED  BY <2>1, Plain DEF Inv
<1>8. ASSUME NEW r \in Subs
      PROVE  /\ last'[r] <= sequence' /\ InOrder(queue'[r], last'[r], sequence')
             /\ Len(queue'[r]) <= cap'[r]
             /\ status'[r] = "new" => queue'[r] = <<>>
  <2>1. CASE r = s
    BY <1>2, <1>3, <1>6, <1>7, <2>1 DEF Inv, ChannelInv
  <2>2. CASE r # s
    BY <1>3, <1>4, <2>2 DEF Inv, ChannelInv
  <2>. QED  BY <2>1, <2>2
<1>9. ASSUME NEW r \in Subs, NEW f \in Seqs, Owes(r, f)'
      PROVE  Newest(queue'[r], last'[r], f)
  <2>1. Owes(r, f) /\ (r = s => e < f)
    BY <1>9, OfferRest
  <2>2. Newest(queue[r], last[r], f)
    BY <2>1 DEF Inv, ChannelInv
  <2>3. CASE r = s
    BY <1>1, <1>4, <2>1, <2>2, <2>3, NewestSend, Plain DEF Inv
  <2>4. CASE r # s
    BY <1>4, <2>2, <2>4
  <2>. QED  BY <2>3, <2>4
<1>. QED  BY <1>8, <1>9 DEF ChannelInv

\* Taking the first delivery out of a channel, to drop it or to receive it.
LEMMA TakeStep ==
    ASSUME Inv, NEW s \in Subs, queue[s] # <<>>,
           queue' = [queue EXCEPT ![s] = Tail(@)],
           \/ last' = last
           \/ last' = [last EXCEPT ![s] = Head(queue[s]).seq],
           UNCHANGED <<hub, after, status, cap, work>>
    PROVE  ChannelInv'
<1>0. sequence' = sequence /\ historyCount' = historyCount
  BY DEF hub
<1>1. /\ queue'[s] = Tail(queue[s]) /\ last'[s] \in {last[s], Head(queue[s]).seq}
      /\ \A r \in Subs : r # s => queue'[r] = queue[r] /\ last'[r] = last[r]
  BY DEF Inv, TypeInv, TypeOK, SubTypes
<1>2. queue[s] \in Seq(Delivery) /\ last[s] \in Nat /\ sequence \in Nat
      /\ cap[s] \in Nat
  BY Plain DEF Inv
<1>3. InOrder(queue[s], last[s], sequence) /\ last[s] <= sequence
  BY DEF Inv, ChannelInv
<1>4. InOrder(queue'[s], last'[s], sequence) /\ last'[s] <= sequence
  BY <1>1, <1>2, <1>3, InOrderReceive
<1>5. Len(queue'[s]) <= cap[s]
  <2>1. Len(queue'[s]) = Len(queue[s]) - 1 /\ Len(queue[s]) \in Nat
    BY <1>1, <1>2, ReceiveSeq
  <2>2. Len(queue[s]) <= cap[s]
    BY DEF Inv, ChannelInv
  <2>. QED  BY <1>2, <2>1, <2>2
<1>6. status[s] # "new"
  BY DEF Inv, ChannelInv
<1>7. ASSUME NEW r \in Subs
      PROVE  /\ last'[r] <= sequence' /\ InOrder(queue'[r], last'[r], sequence')
             /\ Len(queue'[r]) <= cap'[r]
             /\ status'[r] = "new" => queue'[r] = <<>>
  <2>1. CASE r = s
    BY <1>0, <1>4, <1>5, <1>6, <2>1
  <2>2. CASE r # s
    BY <1>0, <1>1, <2>2 DEF Inv, ChannelInv
  <2>. QED  BY <2>1, <2>2
<1>8. ASSUME NEW r \in Subs, NEW f \in Seqs, Owes(r, f)'
      PROVE  Newest(queue'[r], last'[r], f)
  <2>1. Owes(r, f)
    BY <1>0, <1>8 DEF Owes
  <2>2. Newest(queue[r], last[r], f)
    BY <2>1 DEF Inv, ChannelInv
  <2>3. CASE r = s
    <3>1. f \in Nat
      BY MaxUintAssumption
    <3>. QED  BY <1>1, <1>2, <2>2, <2>3, <3>1, NewestReceive
  <2>4. CASE r # s
    BY <1>1, <2>2, <2>4
  <2>. QED  BY <2>3, <2>4
<1>. QED  BY <1>7, <1>8 DEF ChannelInv

\* A step that leaves the channels alone and owes nothing new.
LEMMA QuietStep ==
    ASSUME Inv, UNCHANGED <<sequence, queue, last, cap>>,
           \A s \in Subs : status'[s] = "new" => status[s] = "new",
           \A s \in Subs, e \in Seqs : Owes(s, e)' => Owes(s, e)
    PROVE  ChannelInv'
BY DEF Inv, ChannelInv

\* publish makes its new event owed to every subscriber, above all they have.
LEMMA PublishChannels == Inv /\ Publish => ChannelInv'
<1>. SUFFICES ASSUME Inv, Publish PROVE ChannelInv'
  OBVIOUS
<1>1. /\ sequence' = sequence + 1 /\ UNCHANGED <<queue, last, cap, status>>
      /\ work' \in {Idle, Publishing(sequence + 1, Subscribers)}
  BY DEF Publish, consumer
<1>2. ASSUME NEW s \in Subs
      PROVE  /\ last[s] <= sequence + 1 /\ InOrder(queue[s], last[s], sequence + 1)
             /\ Newest(queue[s], last[s], sequence + 1)
  <2>1. /\ queue[s] \in Seq(Delivery) /\ last[s] \in Nat /\ sequence \in Nat
        /\ last[s] <= sequence /\ InOrder(queue[s], last[s], sequence)
    BY Plain DEF Inv, ChannelInv
  <2>2. \A i \in 1..Len(queue[s]) : queue[s][i].seq \in Nat
    <3>1. \A i \in 1..Len(queue[s]) : queue[s][i] \in Delivery
      BY <2>1, ElementOf
    <3>. QED  BY <3>1, MaxUintAssumption DEF Delivery
  <2>. QED  BY <2>1, <2>2 DEF InOrder, Newest
<1>3. \A s \in Subs, e \in Seqs : Owes(s, e)' => e = sequence + 1
  BY <1>1 DEF Owes, Idle, Publishing
<1>. QED  BY <1>1, <1>2, <1>3 DEF Inv, ChannelInv

\* subscribe owes only events beyond the cursor, to an empty channel.
LEMMA SubscribeChannels ==
    ASSUME Inv, NEW s \in Subs, NEW a \in Seqs, NEW b \in Buffers, Subscribe(s, a, b)
    PROVE  ChannelInv'
<1>1. /\ queue' = queue /\ sequence' = sequence /\ work = Idle
      /\ status[s] = "new" /\ a <= sequence
      /\ \E i : work' = Joining(s, i)
  BY DEF Subscribe, hub
<1>2. /\ last'[s] = a /\ after'[s] = a /\ cap'[s] = b /\ status'[s] = "joining"
      /\ \A r \in Subs : r # s => /\ last'[r] = last[r] /\ cap'[r] = cap[r]
                                  /\ status'[r] = status[r]
  BY DEF Subscribe, Inv, TypeInv, TypeOK, SubTypes
<1>3. queue[s] = <<>>
  BY <1>1 DEF Inv, ChannelInv
<1>4. ASSUME NEW r \in Subs
      PROVE  /\ last'[r] <= sequence' /\ InOrder(queue'[r], last'[r], sequence')
             /\ Len(queue'[r]) <= cap'[r]
             /\ status'[r] = "new" => queue'[r] = <<>>
  <2>1. CASE r = s
    BY <1>1, <1>2, <1>3, <2>1, BuffersAssumption DEF InOrder
  <2>2. CASE r # s
    BY <1>1, <1>2, <2>2 DEF Inv, ChannelInv
  <2>. QED  BY <2>1, <2>2
<1>5. ASSUME NEW r \in Subs, NEW f \in Seqs, Owes(r, f)'
      PROVE  Newest(queue'[r], last'[r], f)
  <2>1. r = s /\ a < f
    BY <1>1, <1>2, <1>5 DEF Owes, Joining
  <2>. QED  BY <1>1, <1>2, <1>3, <2>1 DEF Newest
<1>. QED  BY <1>4, <1>5 DEF ChannelInv

\* Steps of the holder of h.mu that touch no channel.
LEMMA QuietChannels ==
    ASSUME Inv,
           \/ PublishExhausted \/ Close \/ JoinSkip \/ JoinEnd \/ UNCHANGED vars
           \/ \E s \in Subs, e \in Seqs : OfferFull(s, e)
           \/ \E s \in Subs : Unsubscribe(s)
    PROVE  ChannelInv'
<1>1. UNCHANGED <<sequence, historyCount, queue, last, cap, after>>
  BY DEF PublishExhausted, Close, JoinSkip, JoinEnd, vars, OfferFull,
         Unsubscribe, hub, consumer
<1>2. \A s \in Subs : status'[s] = "new" => status[s] = "new"
  BY DEF PublishExhausted, Close, CloseAllSubscribers, JoinSkip, JoinEnd, vars,
         OfferFull, Unsubscribe, Inv, TypeInv, TypeOK, SubTypes
<1>3. \A s \in Subs, e \in Seqs : Owes(s, e)' => Owes(s, e)
  <2>1. CASE JoinSkip
    <3>1. work' = Joining(work.sub, work.index + 1) /\ work.kind = "join"
          /\ work.index \in Nat
      BY <2>1, WorkKinds, HistoryLimitAssumption DEF JoinSkip, Inv, TypeInv, TypeOK
    <3>2. sequence \in Nat /\ historyCount \in Nat /\ Seqs \subseteq Nat
      BY MaxUintAssumption, HistoryLimitAssumption
      DEF Inv, TypeInv, TypeOK, RingTypes
    <3>. QED  BY <1>1, <3>1, <3>2 DEF Owes, Joining
  <2>2. CASE JoinEnd
    BY <2>2 DEF JoinEnd, Owes, Idle
  <2>3. CASE work' = work
    BY <1>1, <2>3 DEF Owes
  <2>. QED  BY <2>1, <2>2, <2>3 DEF PublishExhausted, Close, vars, OfferFull,
                                    Unsubscribe
<1>. QED  BY <1>1, <1>2, <1>3, QuietStep

\* Every step keeps the channels in order and within their capacity.
LEMMA ChannelStep == Inv /\ [Next]_vars => ChannelInv'
<1>. SUFFICES ASSUME Inv, [Next]_vars PROVE ChannelInv'
  OBVIOUS
<1>1. ASSUME NEW s \in Subs, NEW e \in Seqs, OfferRoom(s, e)
      PROVE  ChannelInv'
  <2>1. pendingDropped[s] \in Seqs
    BY DEF Inv, TypeInv, TypeOK, SubTypes
  <2>. QED  BY <1>1, <2>1, SendStep DEF OfferRoom, consumer
<1>2. CASE DrainOne
  <2>1. offer.sub \in Subs
    BY <1>2, WorkKinds DEF DrainOne, Inv, TypeInv, TypeOK
  <2>. QED  BY <1>2, <2>1, TakeStep DEF DrainOne, consumer
<1>3. CASE DrainEnd
  <2>1. /\ offer.sub \in Subs /\ offer.event \in Seqs /\ offer.dropped \in Seqs
        /\ MustOffer(offer.sub, offer.event)
    BY <1>3, WorkKinds DEF DrainEnd, Inv, TypeInv, TypeOK, OfferOK
  <2>2. Len(queue[offer.sub]) < cap[offer.sub]
    <3>1. status[offer.sub] # "new"
      BY <2>1, OfferOwed
    <3>2. Len(queue[offer.sub]) = 0
      BY <1>3 DEF DrainEnd
    <3>. QED  BY <2>1, <3>1, <3>2, Plain DEF Inv
  <2>. QED  BY <1>3, <2>1, <2>2, SendStep DEF DrainEnd, consumer
<1>4. ASSUME NEW s \in Subs, Receive(s) PROVE ChannelInv'
  BY <1>4, TakeStep DEF Receive
<1>. QED  BY <1>1, <1>2, <1>3, <1>4, PublishChannels, SubscribeChannels,
             QuietChannels DEF Next, OfferStep

\* The inductive invariant holds throughout.
LEMMA Invariance == Spec => []Inv
<1>1. Init => Inv
  <2>1. Init => RingWindow
    BY DEF Init, RingWindow
  <2>2. Init => ChannelInv
    BY DEF Init, ChannelInv, InOrder, Owes, Idle
  <2>. QED  BY <2>1, <2>2, InitTypeInv DEF Inv
<1>2. Inv /\ [Next]_vars => Inv'
  BY TypeStep, RingStep, ChannelStep DEF Inv
<1>. QED  BY <1>1, <1>2, PTL DEF Spec

\* Every subscriber receives strictly increasing sequence numbers, whatever the
\* drain loop and its own receives do between them.
THEOREM OrderedDelivery == Spec => []DeliveryOrder
<1>1. Inv => DeliveryOrder
  BY DEF Inv, ChannelInv, InOrder, DeliveryOrder
<1>. QED  BY <1>1, Invariance, PTL

-----------------------------------------------------------------------------
\* The newest event

\* The newest event a subscription has been given and not been robbed of.
Tip(q, l) == IF q = <<>> THEN l ELSE q[Len(q)].seq

\* How far the replay loop has brought the subscription that joins.
Reached(s) ==
    IF work.index > 0 /\ sequence - historyCount + work.index > after[s]
    THEN sequence - historyCount + work.index ELSE after[s]

\* Every subscriber has the newest event unless the publication in progress has
\* still to serve it; the subscription that joins has all it was owed so far.
TipInv ==
    /\ \A s \in Subscribers :
          Tip(queue[s], last[s]) = sequence \/ (work.kind = "publish" /\ s \in work.left)
    /\ work.kind = "join" =>
          /\ after[work.sub] <= sequence
          /\ InDrain \/ Tip(queue[work.sub], last[work.sub]) = Reached(work.sub)

\* A receive takes nothing from the end of the channel.
LEMMA TipReceive ==
    ASSUME NEW q \in Seq(Delivery), q # <<>>, NEW l
    PROVE  Tip(Tail(q), Head(q).seq) = Tip(q, l)
<1>1. /\ Head(q) = q[1] /\ Tail(q) \in Seq(Delivery)
      /\ Len(Tail(q)) = Len(q) - 1 /\ Len(q) \in Nat \ {0}
      /\ \A i \in 1..(Len(q) - 1) : Tail(q)[i] = q[i + 1]
  BY ReceiveSeq
<1>2. CASE Len(q) = 1
  <2>0. Len(Tail(q)) = 0
    BY <1>1, <1>2
  <2>1. Tail(q) = <<>>
    BY <1>1, <2>0, EmptySeqIff, Zenon
  <2>. QED  BY <1>1, <1>2, <2>1 DEF Tip
<1>3. CASE Len(q) # 1
  <2>0. Len(Tail(q)) \in 1..(Len(q) - 1) /\ Len(Tail(q)) # 0
    BY <1>1, <1>3
  <2>1. Len(Tail(q)) \in 1..(Len(q) - 1) /\ Tail(q) # <<>>
    BY <1>1, <2>0, EmptySeqIff, Zenon
  <2>2. Tail(q)[Len(Tail(q))] = q[Len(Tail(q)) + 1]
    BY <1>1, <2>1
  <2>3. Len(Tail(q)) + 1 = Len(q)
    BY <1>1
  <2>. QED  BY <2>1, <2>2, <2>3 DEF Tip
<1>. QED  BY <1>2, <1>3

\* A send puts its event at the end.
LEMMA TipSend ==
    ASSUME NEW q \in Seq(Delivery), NEW d \in Delivery, NEW l
    PROVE  Tip(Append(q, d), l) = d.seq
<1>1. /\ Append(q, d) \in Seq(Delivery) /\ Len(Append(q, d)) = Len(q) + 1
      /\ Len(q) \in Nat
      /\ \A i \in 1..(Len(q) + 1) :
            Append(q, d)[i] = IF i <= Len(q) THEN q[i] ELSE d
  BY SendSeq
<1>2. Append(q, d)[Len(q) + 1] = d /\ Append(q, d) # <<>>
  BY <1>1
<1>. QED  BY <1>1, <1>2 DEF Tip

\* Either send of offerEvent gives the subscription the event it was owed.
LEMMA SendTip ==
    ASSUME Inv, TipInv, NEW s \in Subs, NEW e \in Seqs, NEW n \in Seqs,
           MustOffer(s, e),
           queue' = [queue EXCEPT ![s] = Append(@, [seq |-> e, dropped |-> n])],
           OfferDone(s), UNCHANGED <<hub, after, status, last>>
    PROVE  TipInv'
<1>0. /\ sequence' = sequence /\ historyCount' = historyCount
      /\ Subscribers' = Subscribers
  BY DEF hub, Subscribers
<1>1. queue[s] \in Seq(Delivery) /\ [seq |-> e, dropped |-> n] \in Delivery
  BY Plain DEF Inv, Delivery
<1>2. /\ Tip(queue'[s], last'[s]) = e
      /\ \A r \in Subs : r # s => queue'[r] = queue[r]
  BY <1>1, TipSend DEF Inv, TypeInv, TypeOK, SubTypes
<1>3. Subscribers \subseteq Subs
  BY DEF Subscribers
<1>4. CASE work.kind = "publish"
  <2>1. e = sequence
    BY <1>4 DEF MustOffer, Inv, TypeInv, WorkOK
  <2>2. \/ work' = Idle /\ work.left = {s}
        \/ work' = Publishing(work.event, work.left \ {s})
    BY <1>4 DEF OfferDone
  <2>. QED  BY <1>0, <1>2, <1>3, <1>4, <2>1, <2>2 DEF TipInv, Idle, Publishing
<1>5. CASE work.kind = "join"
  <2>1. work.index \in Nat /\ work.index < historyCount /\ work.sub = s /\ e > after[s]
    BY <1>5, WorkKinds, HistoryLimitAssumption DEF MustOffer, Inv, TypeInv, TypeOK
  <2>2. e = sequence - historyCount + 1 + work.index
    BY <1>5, <2>1, Plain, SMTT(40) DEF MustOffer, Inv, RingWindow
  <2>3. work' = Joining(s, work.index + 1)
    BY <1>5 DEF OfferDone
  <2>4. Reached(s)' = e
    BY <1>0, <2>1, <2>2, <2>3, Plain DEF Reached, Joining, Inv
  <2>5. s \notin Subscribers /\ after[s] <= sequence
    BY <1>5, <2>1 DEF Inv, TypeInv, WorkOK, Subscribers, TipInv
  <2>6. work'.sub = s /\ work'.kind = "join"
    BY <2>3 DEF Joining
  <2>. QED  BY <1>0, <1>2, <1>3, <1>5, <2>4, <2>5, <2>6 DEF TipInv
<1>. QED  BY <1>4, <1>5 DEF MustOffer

\* One turn of the drain loop robs only the subscription being served.
LEMMA DrainTip == Inv /\ TipInv /\ DrainOne => TipInv'
<1>. SUFFICES ASSUME Inv, TipInv, DrainOne PROVE TipInv'
  OBVIOUS
<1>0. /\ UNCHANGED <<sequence, work, after, last>> /\ Subscribers' = Subscribers
      /\ InDrain
  BY DEF DrainOne, hub, consumer, Subscribers
<1>1. offer.sub \in Subs /\ MustOffer(offer.sub, offer.event)
  BY <1>0, WorkKinds DEF Inv, TypeInv, TypeOK, OfferOK
<1>2. InDrain'
  BY <1>0 DEF DrainOne, InDrain, Inv, TypeInv, TypeOK, WorkTypes, NoOffer
<1>3. \A r \in Subs : r # offer.sub => queue'[r] = queue[r]
  BY DEF DrainOne, Inv, TypeInv, TypeOK, SubTypes
<1>4. offer.sub \in Subscribers => work.kind = "publish" /\ offer.sub \in work.left
  BY <1>1 DEF MustOffer, Inv, TypeInv, WorkOK, Subscribers
<1>. QED  BY <1>0, <1>2, <1>3, <1>4 DEF TipInv, Subscribers

\* A receive leaves every subscription's newest event where it is.
LEMMA ReceiveTip ==
    ASSUME Inv, TipInv, NEW s \in Subs, Receive(s)
    PROVE  TipInv'
<1>0. /\ UNCHANGED <<sequence, historyCount, work, after, offer>>
      /\ Subscribers' = Subscribers
  BY DEF Receive, hub, Subscribers
<1>1. queue[s] \in Seq(Delivery) /\ queue[s] # <<>>
  BY Plain DEF Inv, Receive
<1>2. /\ queue'[s] = Tail(queue[s]) /\ last'[s] = Head(queue[s]).seq
      /\ \A r \in Subs : r # s => queue'[r] = queue[r] /\ last'[r] = last[r]
  BY DEF Receive, Inv, TypeInv, TypeOK, SubTypes
<1>3. \A r \in Subs : Tip(queue'[r], last'[r]) = Tip(queue[r], last[r])
  BY <1>1, <1>2, TipReceive
<1>4. work.kind = "join" => work.sub \in Subs
  BY WorkKinds DEF Inv, TypeInv, TypeOK
<1>5. Reached(work.sub)' = Reached(work.sub)
  BY <1>0 DEF Reached
<1>. QED  BY <1>0, <1>3, <1>4, <1>5 DEF TipInv, Subscribers, InDrain

\* publish owes its event to every subscriber.
LEMMA PublishTip == Inv /\ TipInv /\ Publish => TipInv'
<1>. SUFFICES ASSUME Inv, TipInv, Publish PROVE TipInv'
  OBVIOUS
<1>1. Subscribers' = Subscribers
  BY DEF Publish, Subscribers
<1>2. \/ work' = Idle /\ Subscribers = {}
      \/ work' = Publishing(sequence + 1, Subscribers)
  BY DEF Publish
<1>. QED  BY <1>1, <1>2 DEF TipInv, Idle, Publishing

\* subscribe starts at the cursor.
LEMMA SubscribeTip ==
    ASSUME Inv, TipInv, NEW s \in Subs, NEW a \in Seqs, NEW b \in Buffers,
           Subscribe(s, a, b)
    PROVE  TipInv'
<1>1. /\ queue' = queue /\ sequence' = sequence /\ historyCount' = historyCount
      /\ work = Idle /\ status[s] = "new" /\ a <= sequence
      /\ work' = Joining(s, IF a < sequence THEN 0 ELSE historyCount)
  BY DEF Subscribe, hub
<1>2. /\ last'[s] = a /\ after'[s] = a
      /\ \A r \in Subs : r # s => last'[r] = last[r] /\ status'[r] = status[r]
      /\ status'[s] = "joining"
  BY DEF Subscribe, Inv, TypeInv, TypeOK, SubTypes
<1>3. Tip(queue'[s], last'[s]) = a
  BY <1>1, <1>2 DEF Inv, ChannelInv, Tip
<1>4. Reached(s)' = a
  <2>1. work'.index = IF a < sequence THEN 0 ELSE historyCount
    BY <1>1 DEF Joining
  <2>. QED  BY <1>1, <1>2, <2>1, Plain DEF Inv, Reached
<1>5. \A r \in Subscribers' : r \in Subscribers /\ r # s
  BY <1>2 DEF Subscribers
<1>6. work'.kind = "join" /\ work'.sub = s
  BY <1>1 DEF Joining
<1>7. \A r \in Subscribers' : Tip(queue'[r], last'[r]) = sequence'
  BY <1>1, <1>2, <1>5 DEF TipInv, Idle, Subscribers
<1>. QED  BY <1>1, <1>2, <1>3, <1>4, <1>6, <1>7 DEF TipInv

\* The replay loop skips what the cursor has seen, and ends at the newest event.
LEMMA JoinTip == Inv /\ TipInv /\ (JoinSkip \/ JoinEnd) => TipInv'
<1>. SUFFICES ASSUME Inv, TipInv, JoinSkip \/ JoinEnd PROVE TipInv'
  OBVIOUS
<1>. DEFINE s == work.sub
<1>1. /\ work.kind = "join" /\ ~InDrain /\ s \in Subs /\ work.index \in Nat
      /\ status[s] = "joining"
      /\ UNCHANGED <<sequence, historyCount, queue, last, after, offer>>
  BY WorkKinds, HistoryLimitAssumption
  DEF JoinSkip, JoinEnd, Inv, TypeInv, TypeOK, WorkOK, hub, consumer
<1>2. /\ after[s] <= sequence /\ Tip(queue[s], last[s]) = Reached(s)
      /\ \A r \in Subscribers : Tip(queue[r], last[r]) = sequence
  BY <1>1 DEF TipInv
<1>3. CASE JoinSkip
  <2>1. work.index < historyCount /\ history[HistoryIndex(work.index)] <= after[s]
        /\ work' = Joining(s, work.index + 1) /\ Subscribers' = Subscribers
    BY <1>3 DEF JoinSkip, Subscribers
  <2>2. history[HistoryIndex(work.index)] = sequence - historyCount + 1 + work.index
    BY <1>1, <2>1, Plain DEF Inv, RingWindow
  <2>3. work'.kind = "join" /\ work'.sub = s /\ work'.index = work.index + 1
    BY <2>1 DEF Joining
  <2>4. Reached(s)' = after[s] /\ Reached(s) = after[s]
    BY <1>1, <2>1, <2>2, <2>3, Plain DEF Inv, Reached
  <2>. QED  BY <1>1, <1>2, <2>1, <2>3, <2>4 DEF TipInv
<1>4. CASE JoinEnd
  <2>1. work.index = historyCount /\ work' = Idle
        /\ Subscribers' \subseteq Subscribers \cup {s}
    BY <1>1, <1>4 DEF JoinEnd, Subscribers, Inv, TypeInv, TypeOK, SubTypes
  <2>2. Reached(s) = sequence
    BY <1>1, <1>2, <2>1, Plain, HistoryLimitAssumption DEF Inv, RingWindow, Reached
  <2>. QED  BY <1>1, <1>2, <2>1, <2>2 DEF TipInv, Idle
<1>. QED  BY <1>3, <1>4

\* Steps that give and take nothing.
LEMMA QuietTip ==
    ASSUME Inv, TipInv,
           \/ PublishExhausted \/ Close \/ UNCHANGED vars
           \/ \E s \in Subs, e \in Seqs : OfferFull(s, e)
           \/ \E s \in Subs : Unsubscribe(s)
    PROVE  TipInv'
<1>1. UNCHANGED <<sequence, historyCount, queue, last, after, work>>
  BY DEF PublishExhausted, Close, vars, OfferFull, Unsubscribe, hub, consumer
<1>2. Subscribers' \subseteq Subscribers
  BY DEF PublishExhausted, Close, CloseAllSubscribers, vars, OfferFull,
         Unsubscribe, Subscribers, Inv, TypeInv, TypeOK, SubTypes
<1>3. work.kind = "join" => InDrain' \/ ~InDrain
  BY DEF PublishExhausted, Close, vars, OfferFull, Unsubscribe, InDrain,
         Draining, Idle
<1>4. Reached(work.sub)' = Reached(work.sub)
  BY <1>1 DEF Reached
<1>. QED  BY <1>1, <1>2, <1>3, <1>4 DEF TipInv

\* Every step keeps the newest event where a subscriber will find it.
LEMMA TipStep == Inv /\ TipInv /\ [Next]_vars => TipInv'
<1>. SUFFICES ASSUME Inv, TipInv, [Next]_vars PROVE TipInv'
  OBVIOUS
<1>1. ASSUME NEW s \in Subs, NEW e \in Seqs, OfferRoom(s, e)
      PROVE  TipInv'
  <2>1. pendingDropped[s] \in Seqs
    BY DEF Inv, TypeInv, TypeOK, SubTypes
  <2>. QED  BY <1>1, <2>1, SendTip DEF OfferRoom, consumer
<1>2. CASE DrainEnd
  <2>1. /\ offer.sub \in Subs /\ offer.event \in Seqs /\ offer.dropped \in Seqs
        /\ MustOffer(offer.sub, offer.event)
    BY <1>2, WorkKinds DEF DrainEnd, Inv, TypeInv, TypeOK, OfferOK
  <2>. QED  BY <1>2, <2>1, SendTip DEF DrainEnd, consumer
<1>. QED  BY <1>1, <1>2, PublishTip, SubscribeTip, JoinTip, QuietTip, DrainTip,
             ReceiveTip DEF Next, OfferStep

\* A subscriber that falls behind, even behind the whole ring, still finds the
\* newest event last in its channel: EventClosed is never the one dropped.
THEOREM NewestIsKept == Spec => []NewestSurvives
<1>1. Init => TipInv
  BY DEF Init, TipInv, Subscribers, Idle
<1>2. TipInv => NewestSurvives
  BY DEF TipInv, NewestSurvives, Tip, Idle
<1>. QED  BY <1>1, <1>2, Invariance, TipStep, PTL DEF Spec

-----------------------------------------------------------------------------
\* What QueueWeight computes

\* w[i] is the weight of the first i deliveries of q.
IsWeight(w, q) ==
    /\ w \in [0..Len(q) -> Nat]
    /\ w[0] = 0
    /\ \A i \in 1..Len(q) : w[i] = w[i - 1] + 1 + q[i].dropped

LEMMA DroppedNat == \A d \in Delivery : d.dropped \in Nat
BY MaxUintAssumption DEF Delivery

\* The recursion has a solution.
LEMMA WeightExists ==
    ASSUME NEW q \in Seq(Delivery)
    PROVE  \E w : IsWeight(w, q)
<1>. DEFINE step == [p \in (1..Len(q)) \X Nat |-> p[2] + 1 + q[p[1]].dropped]
<1>1. Len(q) \in Nat
  OBVIOUS
<1>2. \A i \in 1..Len(q) : q[i].dropped \in Nat
  BY ElementOf, DroppedNat
<1>3. step \in [(1..Len(q)) \X Nat -> Nat]
  BY <1>2
<1>4. \A i \in 1..Len(q), x \in Nat : step[<<i, x>>] = x + 1 + q[i].dropped
  OBVIOUS
<1>. HIDE DEF step
<1>5. PICK w \in [0..Len(q) -> Nat] : IsChain(w, Len(q), 0, step)
  BY <1>1, <1>3, ChainExists
<1>6. ASSUME NEW i \in 1..Len(q) PROVE w[i] = w[i - 1] + 1 + q[i].dropped
  <2>1. i - 1 \in 0..Len(q)
    BY <1>1
  <2>2. w[i - 1] \in Nat /\ w[i] = step[<<i, w[i - 1]>>]
    BY <1>5, <2>1 DEF IsChain
  <2>. QED  BY <1>4, <2>2
<1>7. IsWeight(w, q)
  BY <1>5, <1>6 DEF IsWeight, IsChain
<1>. QED  BY <1>7

\* QueueWeight is the last of these weights.
LEMMA WeightIs ==
    ASSUME NEW q \in Seq(Delivery)
    PROVE  \E w : IsWeight(w, q) /\ QueueWeight(q) = w[Len(q)]
<1>. DEFINE Step(w) == [i \in 0..Len(q) |-> IF i = 0 THEN 0
                                            ELSE w[i - 1] + 1 + q[i].dropped]
            weight == CHOOSE w : w = Step(w)
<1>0. Len(q) \in Nat
  OBVIOUS
<1>1. PICK u : IsWeight(u, q)
  BY WeightExists
<1>2. u = Step(u)
  <2>1. u = [i \in 0..Len(q) |-> u[i]]
    BY <1>1 DEF IsWeight
  <2>2. \A i \in 0..Len(q) : u[i] = Step(u)[i]
    BY <1>0, <1>1 DEF IsWeight
  <2>. QED  BY <2>1, <2>2
<1>3. weight = Step(weight)
  <2>. HIDE DEF Step
  <2>. QED  BY <1>2
<1>4. QueueWeight(q) = weight[Len(q)]
  BY DEF QueueWeight
<1>. HIDE DEF weight
<1>5. DOMAIN weight = 0..Len(q) /\ weight[0] = 0
      /\ \A i \in 1..Len(q) : weight[i] = weight[i - 1] + 1 + q[i].dropped
  <2>1. \A i \in 0..Len(q) : Step(weight)[i] = IF i = 0 THEN 0
                                 ELSE weight[i - 1] + 1 + q[i].dropped
    OBVIOUS
  <2>2. DOMAIN Step(weight) = 0..Len(q)
    OBVIOUS
  <2>. HIDE DEF Step
  <2>. QED  BY <1>0, <1>3, <2>1, <2>2
<1>6. weight = [i \in 0..Len(q) |-> weight[i]]
  BY <1>3
<1>7. \A i \in 0..Len(q) : weight[i] \in Nat
  <2>. DEFINE Done == {n \in Nat : n <= Len(q) => weight[n] = u[n]}
  <2>1. 0 \in Done
    BY <1>1, <1>5 DEF IsWeight
  <2>2. ASSUME NEW n \in Nat, n \in Done PROVE n + 1 \in Done
    <3>1. n + 1 <= Len(q) => n + 1 \in 1..Len(q) /\ (n + 1) - 1 = n /\ n <= Len(q)
      BY <1>0
    <3>. QED  BY <1>1, <1>5, <2>2, <3>1 DEF IsWeight
  <2>3. \A n \in Nat : n \in Done
    <3>. HIDE DEF Done
    <3>. QED  BY <2>1, <2>2, SetInduction
  <2>. QED  BY <1>0, <1>1, <2>3 DEF IsWeight
<1>8. IsWeight(weight, q)
  BY <1>5, <1>6, <1>7 DEF IsWeight
<1>. QED  BY <1>4, <1>8

\* The first n deliveries of r are those of q after its first k.
Agree(q, r, k, n) == \A i \in 1..n : r[i] = q[i + k]

\* Channels that agree on n deliveries, k places apart, gain the same over them.
LEMMA SameGain ==
    ASSUME NEW q \in Seq(Delivery), NEW r \in Seq(Delivery),
           NEW w, IsWeight(w, q), NEW v, IsWeight(v, r),
           NEW k \in Nat, Len(r) + k <= Len(q), Agree(q, r, k, Len(r))
    PROVE  w[Len(r) + k] = w[k] + v[Len(r)]
<1>. DEFINE n == Len(r)
<1>. DEFINE Done == {m \in Nat : m <= n => w[m + k] = w[k] + v[m]}
<1>0. Len(q) \in Nat /\ Len(r) \in Nat
  OBVIOUS
<1>1. 0 \in Done
  <2>1. k \in 0..Len(q) /\ 0 + k = k
    BY <1>0
  <2>2. w[k] \in Nat /\ v[0] = 0
    BY <2>1 DEF IsWeight
  <2>3. w[0 + k] = w[k] + v[0]
    BY <2>1, <2>2
  <2>. QED  BY <2>3
<1>2. ASSUME NEW m \in Nat, m \in Done PROVE m + 1 \in Done
  <2>. SUFFICES ASSUME m + 1 <= n PROVE w[(m + 1) + k] = w[k] + v[m + 1]
    OBVIOUS
  <2>1. /\ m + 1 \in 1..Len(r) /\ (m + 1) + k \in 1..Len(q) /\ m + 1 \in 1..n
        /\ ((m + 1) + k) - 1 = m + k /\ (m + 1) - 1 = m
        /\ k \in 0..Len(q) /\ m \in 0..Len(r)
    BY <1>0
  <2>2. w[m + k] = w[k] + v[m]
    BY <1>2
  <2>3. r[m + 1] = q[(m + 1) + k]
    BY <2>1 DEF Agree
  <2>4. w[(m + 1) + k] = w[m + k] + 1 + r[m + 1].dropped
    BY <2>1, <2>3 DEF IsWeight
  <2>5. v[m + 1] = v[m] + 1 + r[m + 1].dropped
    BY <2>1 DEF IsWeight
  <2>6. w[k] \in Nat /\ v[m] \in Nat
    BY <2>1 DEF IsWeight
  <2>7. PICK c \in Nat : c = r[m + 1].dropped
    BY <2>1, ElementOf, DroppedNat
  <2>8. w[(m + 1) + k] = (w[k] + v[m]) + 1 + c /\ v[m + 1] = v[m] + 1 + c
    BY <2>2, <2>4, <2>5, <2>7
  <2>. QED  BY <2>6, <2>8
<1>3. \A m \in Nat : m \in Done
  <2>. HIDE DEF Done
  <2>. QED  BY <1>1, <1>2, SetInduction
<1>4. n \in Done /\ n <= n
  BY <1>3
<1>. QED  BY <1>4

\* The weight of an empty channel, and what a send and a receive change.
LEMMA WeightEmpty == QueueWeight(<<>>) = 0
<1>1. <<>> \in Seq(Delivery) /\ Len(<<>>) = 0
  OBVIOUS
<1>2. PICK w : IsWeight(w, <<>>) /\ QueueWeight(<<>>) = w[Len(<<>>)]
  BY <1>1, WeightIs
<1>. QED  BY <1>1, <1>2 DEF IsWeight

LEMMA WeightNat ==
    ASSUME NEW q \in Seq(Delivery)
    PROVE  QueueWeight(q) \in Nat
<1>1. PICK w : IsWeight(w, q) /\ QueueWeight(q) = w[Len(q)]
  BY WeightIs
<1>2. Len(q) \in 0..Len(q)
  OBVIOUS
<1>. QED  BY <1>1, <1>2 DEF IsWeight

LEMMA WeightSend ==
    ASSUME NEW q \in Seq(Delivery), NEW d \in Delivery
    PROVE  QueueWeight(Append(q, d)) = QueueWeight(q) + 1 + d.dropped
<1>. DEFINE r == Append(q, d)
<1>1. /\ r \in Seq(Delivery) /\ Len(r) = Len(q) + 1 /\ Len(q) \in Nat
      /\ \A i \in 1..(Len(q) + 1) : r[i] = IF i <= Len(q) THEN q[i] ELSE d
  BY SendSeq
<1>. HIDE DEF r
<1>2. PICK w : IsWeight(w, r) /\ QueueWeight(r) = w[Len(r)]
  BY <1>1, WeightIs
<1>3. PICK v : IsWeight(v, q) /\ QueueWeight(q) = v[Len(q)]
  BY WeightIs
<1>4. w[Len(q)] = w[0] + v[Len(q)]
  <2>1. /\ Agree(r, q, 0, Len(q)) /\ Len(q) + 0 <= Len(r)
        /\ Len(q) + 0 = Len(q)
    BY <1>1 DEF Agree
  <2>2. w[Len(q) + 0] = w[0] + v[Len(q)]
    BY <1>1, <1>2, <1>3, <2>1, SameGain
  <2>. QED  BY <2>1, <2>2
<1>5. w[Len(r)] = w[Len(q)] + 1 + d.dropped
  <2>1. Len(r) \in 1..Len(r) /\ Len(r) - 1 = Len(q) /\ r[Len(r)] = d
    BY <1>1
  <2>. QED  BY <1>2, <2>1 DEF IsWeight
<1>6. w[0] = 0 /\ v[Len(q)] \in Nat
  BY <1>1, <1>2, <1>3 DEF IsWeight
<1>. QED  BY <1>2, <1>3, <1>4, <1>5, <1>6 DEF r

LEMMA WeightReceive ==
    ASSUME NEW q \in Seq(Delivery), q # <<>>
    PROVE  QueueWeight(q) = QueueWeight(Tail(q)) + 1 + Head(q).dropped
<1>. DEFINE r == Tail(q)
<1>1. /\ Head(q) = q[1] /\ Head(q) \in Delivery /\ r \in Seq(Delivery)
      /\ Len(r) = Len(q) - 1 /\ Len(q) \in Nat \ {0}
      /\ \A i \in 1..(Len(q) - 1) : r[i] = q[i + 1]
  BY ReceiveSeq
<1>. HIDE DEF r
<1>2. PICK w : IsWeight(w, q) /\ QueueWeight(q) = w[Len(q)]
  BY WeightIs
<1>3. PICK v : IsWeight(v, r) /\ QueueWeight(r) = v[Len(r)]
  BY <1>1, WeightIs
<1>4. w[Len(q)] = w[1] + v[Len(r)]
  <2>1. /\ Agree(q, r, 1, Len(r)) /\ Len(r) + 1 <= Len(q)
        /\ Len(r) + 1 = Len(q)
    BY <1>1 DEF Agree
  <2>2. w[Len(r) + 1] = w[1] + v[Len(r)]
    BY <1>1, <1>2, <1>3, <2>1, SameGain
  <2>. QED  BY <2>1, <2>2
<1>5. w[1] = 0 + 1 + Head(q).dropped
  <2>1. 1 \in 1..Len(q) /\ 1 - 1 = 0
    BY <1>1
  <2>. QED  BY <1>1, <1>2, <2>1 DEF IsWeight
<1>6. Head(q).dropped \in Nat /\ v[Len(r)] \in Nat
  <2>1. Len(r) \in 0..Len(r)
    BY <1>1
  <2>2. v[Len(r)] \in Nat
    BY <1>3, <2>1 DEF IsWeight
  <2>3. Head(q).dropped \in Nat
    BY <1>1, MaxUintAssumption DEF Delivery
  <2>. QED  BY <2>2, <2>3
<1>. QED  BY <1>2, <1>3, <1>4, <1>5, <1>6 DEF r

-----------------------------------------------------------------------------
\* Loss accounting

\* The losses of s that no delivery reports yet.
Carried(s) == IF InDrain /\ offer.sub = s THEN offer.dropped ELSE pendingDropped[s]

\* What s has been given or told of.
Account(s) == after[s] + got[s] + told[s] + QueueWeight(queue[s]) + Carried(s)

Counted(s) == status[s] \in {"joining", "live"}

\* The inductive invariant.  A subscription that has not started has received
\* nothing, only the subscription the replay loop serves is joining, and the
\* account of every subscription is balanced.
LossInv ==
    /\ \A s \in Subs : status[s] = "new" => got[s] = 0 /\ told[s] = 0
    /\ \A s \in Subs : status[s] = "joining" => work.kind = "join" /\ work.sub = s
    /\ \A s \in Subs : Counted(s) => Account(s) = Offered(s)

\* The three cases of Offered, before and after a step.
LEMMA OfferedIs ==
    ASSUME NEW s
    PROVE  /\ work.kind = "publish" /\ s \in work.left => Offered(s) = work.event - 1
           /\ work.kind = "join" /\ work.sub = s =>
                 Offered(s) =
                   IF after[s] = sequence
                      \/ sequence - historyCount + 1 + work.index <= after[s]
                   THEN after[s] ELSE (sequence - historyCount + 1 + work.index) - 1
           /\ ~(work.kind = "publish" /\ s \in work.left)
              /\ ~(work.kind = "join" /\ work.sub = s) => Offered(s) = sequence
<1>1. CASE work.kind = "publish" /\ s \in work.left
  <2>1. ~(work.kind = "join" /\ work.sub = s)
    BY <1>1
  <2>2. Offered(s) = work.event - 1
    BY <1>1, <2>1 DEF Offered
  <2>. QED  BY <1>1, <2>1, <2>2
<1>2. CASE work.kind = "join" /\ work.sub = s
  <2>1. ~(work.kind = "publish" /\ s \in work.left)
    BY <1>2
  <2>2. Offered(s) =
          IF after[s] = sequence
             \/ sequence - historyCount + 1 + work.index <= after[s]
          THEN after[s] ELSE (sequence - historyCount + 1 + work.index) - 1
    BY <1>2, <2>1, Zenon DEF Offered
  <2>. QED  BY <1>2, <2>1, <2>2
<1>3. CASE /\ ~(work.kind = "publish" /\ s \in work.left)
           /\ ~(work.kind = "join" /\ work.sub = s)
  BY <1>3 DEF Offered
<1>. QED  BY <1>1, <1>2, <1>3

LEMMA OfferedNext ==
    ASSUME NEW s
    PROVE  /\ work'.kind = "publish" /\ s \in work'.left =>
                 Offered(s)' = work'.event - 1
           /\ work'.kind = "join" /\ work'.sub = s =>
                 Offered(s)' =
                   IF after'[s] = sequence'
                      \/ sequence' - historyCount' + 1 + work'.index <= after'[s]
                   THEN after'[s] ELSE (sequence' - historyCount' + 1 + work'.index) - 1
           /\ ~(work'.kind = "publish" /\ s \in work'.left)
              /\ ~(work'.kind = "join" /\ work'.sub = s) => Offered(s)' = sequence'
<1>1. CASE work'.kind = "publish" /\ s \in work'.left
  <2>1. ~(work'.kind = "join" /\ work'.sub = s)
    BY <1>1
  <2>2. Offered(s)' = work'.event - 1
    BY <1>1, <2>1 DEF Offered
  <2>. QED  BY <1>1, <2>1, <2>2
<1>2. CASE work'.kind = "join" /\ work'.sub = s
  <2>1. ~(work'.kind = "publish" /\ s \in work'.left)
    BY <1>2
  <2>2. Offered(s)' =
          IF after'[s] = sequence'
             \/ sequence' - historyCount' + 1 + work'.index <= after'[s]
          THEN after'[s] ELSE (sequence' - historyCount' + 1 + work'.index) - 1
    BY <1>2, <2>1, Zenon DEF Offered
  <2>. QED  BY <1>2, <2>1, <2>2
<1>3. CASE /\ ~(work'.kind = "publish" /\ s \in work'.left)
           /\ ~(work'.kind = "join" /\ work'.sub = s)
  BY <1>3 DEF Offered
<1>. QED  BY <1>1, <1>2, <1>3

\* The terms of an account are numbers.
LEMMA AccountTypes ==
    ASSUME TypeInv, NEW s \in Subs
    PROVE  /\ after[s] \in Nat /\ got[s] \in Nat /\ told[s] \in Nat
           /\ QueueWeight(queue[s]) \in Nat /\ pendingDropped[s] \in Nat
           /\ Carried(s) \in Nat /\ sequence \in Nat /\ sequence <= MaxUint
<1>1. /\ after[s] \in Seqs /\ got[s] \in Nat /\ told[s] \in Nat
      /\ pendingDropped[s] \in Seqs /\ queue[s] \in Seq(Delivery)
  BY DEF TypeInv, TypeOK, SubTypes
<1>2. sequence \in Seqs
  BY DEF TypeInv, TypeOK, RingTypes
<1>3. QueueWeight(queue[s]) \in Nat
  BY <1>1, WeightNat
<1>4. InDrain => offer.dropped \in Seqs
  BY WorkKinds DEF TypeInv, TypeOK
<1>5. Carried(s) \in Nat
  BY <1>1, <1>4, MaxUintAssumption DEF Carried
<1>. QED  BY <1>1, <1>2, <1>3, <1>5, MaxUintAssumption

\* The event to offer next is the first that s has not been offered.
LEMMA OfferNext ==
    ASSUME Inv, NEW s \in Subs, NEW e \in Seqs, MustOffer(s, e)
    PROVE  Offered(s) = e - 1 /\ e \in Nat /\ Counted(s)
<1>0. e \in Nat
  BY MaxUintAssumption
<1>1. CASE work.kind = "publish"
  <2>1. s \in work.left /\ e = work.event /\ status[s] = "live"
    BY <1>1 DEF MustOffer, Inv, TypeInv, WorkOK, Subscribers
  <2>. QED  BY <1>0, <1>1, <2>1, OfferedIs DEF Counted
<1>2. CASE work.kind = "join"
  <2>1. work.index \in Nat /\ work.index < historyCount /\ work.sub = s /\ e > after[s]
    BY <1>2, WorkKinds, HistoryLimitAssumption DEF MustOffer, Inv, TypeInv, TypeOK
  <2>2. e = sequence - historyCount + 1 + work.index
    BY <1>2, <2>1, Plain, SMTT(40) DEF MustOffer, Inv, RingWindow
  <2>3. sequence \in Nat /\ historyCount \in Nat /\ after[s] \in Nat
    BY Plain DEF Inv
  <2>4. ~(after[s] = sequence) /\ ~(sequence - historyCount + 1 + work.index <= after[s])
    BY <2>1, <2>2, <2>3
  <2>5. status[s] = "joining"
    BY <1>2, <2>1 DEF Inv, TypeInv, WorkOK
  <2>6. Offered(s) = (sequence - historyCount + 1 + work.index) - 1
    BY <1>2, <2>1, <2>4, OfferedIs
  <2>. QED  BY <1>0, <2>1, <2>2, <2>3, <2>5, <2>6 DEF Counted
<1>. QED  BY <1>1, <1>2 DEF MustOffer

\* After the send it has been offered exactly one event more, the others none.
LEMMA OfferAdvance ==
    ASSUME Inv, LossInv, NEW s \in Subs, NEW e \in Seqs, MustOffer(s, e), OfferDone(s),
           UNCHANGED <<hub, after>>
    PROVE  /\ Offered(s)' = e
           /\ \A r \in Subs : r # s /\ Counted(r) => Offered(r)' = Offered(r)
<1>0. sequence' = sequence /\ historyCount' = historyCount /\ after' = after
  BY DEF hub
<1>1. CASE work.kind = "publish"
  <2>1. s \in work.left /\ e = sequence /\ work.event = sequence
    BY <1>1 DEF MustOffer, Inv, TypeInv, WorkOK
  <2>2. \/ work' = Idle /\ work.left = {s}
        \/ work' = Publishing(work.event, work.left \ {s})
    BY <1>1 DEF OfferDone
  <2>3. CASE work' = Idle /\ work.left = {s}
    <3>1. work'.kind = "idle"
      BY <2>3 DEF Idle
    <3>2. \A r : Offered(r)' = sequence
      BY <1>0, <3>1, OfferedNext
    <3>3. \A r : r # s => Offered(r) = sequence
      BY <1>1, <2>3, OfferedIs
    <3>. QED  BY <2>1, <3>2, <3>3
  <2>4. CASE work' = Publishing(work.event, work.left \ {s})
    <3>1. work'.kind = "publish" /\ work'.event = work.event /\ work'.left = work.left \ {s}
      BY <2>4 DEF Publishing
    <3>2. Offered(s)' = sequence
      BY <1>0, <3>1, OfferedNext
    <3>3. ASSUME NEW r \in Subs, r # s PROVE Offered(r)' = Offered(r)
      <4>1. CASE r \in work.left
        BY <1>1, <3>1, <3>3, <4>1, OfferedNext, OfferedIs
      <4>2. CASE r \notin work.left
        <5>1. Offered(r)' = sequence
          BY <1>0, <3>1, <4>2, OfferedNext
        <5>2. Offered(r) = sequence
          BY <1>1, <4>2, OfferedIs
        <5>. QED  BY <5>1, <5>2
      <4>. QED  BY <4>1, <4>2
    <3>. QED  BY <2>1, <3>2, <3>3
  <2>. QED  BY <2>2, <2>3, <2>4
<1>2. CASE work.kind = "join"
  <2>1. work.index \in Nat /\ work.index < historyCount /\ work.sub = s /\ e > after[s]
    BY <1>2, WorkKinds, HistoryLimitAssumption DEF MustOffer, Inv, TypeInv, TypeOK
  <2>2. e = sequence - historyCount + 1 + work.index
    BY <1>2, <2>1, Plain, SMTT(40) DEF MustOffer, Inv, RingWindow
  <2>3. sequence \in Nat /\ historyCount \in Nat /\ after[s] \in Nat
    BY Plain DEF Inv
  <2>4. work'.kind = "join" /\ work'.sub = s /\ work'.index = work.index + 1
    BY <1>2 DEF OfferDone, Joining
  <2>5. ~(after[s] = sequence)
        /\ ~(sequence - historyCount + 1 + (work.index + 1) <= after[s])
    BY <2>1, <2>2, <2>3
  <2>6. Offered(s)' = (sequence - historyCount + 1 + (work.index + 1)) - 1
    BY <1>0, <2>4, <2>5, OfferedNext
  <2>7. Offered(s)' = e
    BY <2>1, <2>2, <2>3, <2>6
  <2>8. ASSUME NEW r \in Subs, r # s PROVE Offered(r)' = Offered(r)
    <3>1. Offered(r)' = sequence
      BY <1>0, <2>4, <2>8, OfferedNext
    <3>2. Offered(r) = sequence
      BY <1>2, <2>1, <2>8, OfferedIs
    <3>. QED  BY <3>1, <3>2
  <2>. QED  BY <2>7, <2>8
<1>. QED  BY <1>1, <1>2 DEF MustOffer

\* Either send of offerEvent: the event counts one more, and the losses that
\* were carried are now reported by its delivery.
LEMMA SendLoss ==
    ASSUME Inv, LossInv, NEW s \in Subs, NEW e \in Seqs, NEW n \in Seqs,
           MustOffer(s, e), n = Carried(s),
           InDrain => offer.sub = s, ~InDrain',
           queue' = [queue EXCEPT ![s] = Append(@, [seq |-> e, dropped |-> n])],
           pendingDropped' = [pendingDropped EXCEPT ![s] = 0],
           OfferDone(s), UNCHANGED <<hub, after, status, got, told>>
    PROVE  LossInv'
<1>. DEFINE d == [seq |-> e, dropped |-> n]
<1>1. d \in Delivery /\ d.dropped = n
  BY DEF Delivery
<1>. HIDE DEF d
<1>2. queue'[s] = Append(queue[s], d) /\ \A r \in Subs : r # s => queue'[r] = queue[r]
  BY DEF Inv, TypeInv, TypeOK, SubTypes, d
<1>3. /\ pendingDropped'[s] = 0
      /\ \A r \in Subs : r # s => pendingDropped'[r] = pendingDropped[r]
  BY DEF Inv, TypeInv, TypeOK, SubTypes
<1>4. \A r \in Subs : Carried(r)' = pendingDropped'[r]
  BY DEF Carried
<1>5. Offered(s) = e - 1 /\ Counted(s) /\ e \in Nat
  BY OfferNext
<1>6. Account(s)' = e
  <2>1. QueueWeight(queue'[s]) = QueueWeight(queue[s]) + 1 + n
    BY <1>1, <1>2, WeightSend, Plain DEF Inv
  <2>2. Account(s) = e - 1
    BY <1>5 DEF LossInv
  <2>3. Account(s)' = after[s] + got[s] + told[s] + QueueWeight(queue'[s]) + 0
    BY <1>3, <1>4 DEF Account
  <2>4. Account(s) = after[s] + got[s] + told[s] + QueueWeight(queue[s]) + n
    BY DEF Account
  <2>5. /\ after[s] \in Nat /\ got[s] \in Nat /\ told[s] \in Nat
        /\ QueueWeight(queue[s]) \in Nat /\ n \in Nat
    BY AccountTypes DEF Inv
  <2>6. PICK x \in Nat : x = after[s] + got[s] + told[s]
    BY <2>5
  <2>7. PICK y \in Nat : y = QueueWeight(queue[s])
    BY <2>5
  <2>8. x + y + n = e - 1 /\ Account(s)' = x + (y + 1 + n) + 0
    BY <2>1, <2>2, <2>3, <2>4, <2>6, <2>7
  <2>9. x + (y + 1 + n) + 0 = e
    <3>1. x \in Nat /\ y \in Nat /\ n \in Nat /\ e \in Nat
      BY <1>5, <2>5, <2>6, <2>7
    <3>2. x + y + n = e - 1
      BY <2>8
    <3>. QED  BY <3>1, <3>2
  <2>. QED  BY <2>8, <2>9
<1>7. /\ Offered(s)' = e
      /\ \A r \in Subs : r # s /\ Counted(r) => Offered(r)' = Offered(r)
  BY OfferAdvance
<1>8. ASSUME NEW r \in Subs, Counted(r)' PROVE Account(r)' = Offered(r)'
  <2>1. CASE r = s
    BY <1>6, <1>7, <2>1
  <2>2. CASE r # s
    <3>1. Carried(r)' = Carried(r)
      BY <1>3, <1>4, <2>2 DEF Carried
    <3>2. Account(r)' = Account(r)
      BY <1>2, <2>2, <3>1 DEF Account
    <3>3. Counted(r)
      BY <1>8 DEF Counted
    <3>. QED  BY <1>7, <2>2, <3>2, <3>3 DEF LossInv
  <2>. QED  BY <2>1, <2>2
<1>9. ASSUME NEW r \in Subs, status[r] = "joining"
      PROVE  work'.kind = "join" /\ work'.sub = r
  <2>1. work.kind = "join" /\ work.sub = r
    BY <1>9 DEF LossInv
  <2>2. r = s
    BY <2>1 DEF MustOffer
  <2>. QED  BY <2>1, <2>2 DEF OfferDone, Joining
<1>10. \A r \in Subs : status'[r] = "new" => got'[r] = 0 /\ told'[r] = 0
  BY DEF LossInv
<1>. QED  BY <1>8, <1>9, <1>10 DEF LossInv

\* The first turn of the drain loop takes the pending losses over.
LEMMA FullLoss ==
    ASSUME Inv, LossInv, NEW s \in Subs, NEW e \in Seqs, OfferFull(s, e)
    PROVE  LossInv'
<1>1. /\ ~InDrain /\ offer' = Draining(s, e, pendingDropped[s], 0)
      /\ UNCHANGED <<sequence, historyCount, status, queue, pendingDropped, work, after,
                     got, told>>
  BY DEF OfferFull, hub, consumer
<1>2. InDrain' /\ offer'.sub = s /\ offer'.dropped = pendingDropped[s]
  BY <1>1 DEF Draining, InDrain
<1>3. \A r \in Subs : Carried(r)' = Carried(r)
  BY <1>1, <1>2 DEF Carried
<1>4. \A r \in Subs : Account(r)' = Account(r) /\ Offered(r)' = Offered(r)
  BY <1>1, <1>3 DEF Account, Offered
<1>. QED  BY <1>1, <1>4 DEF LossInv, Counted

\* A drained delivery turns into the losses it reported and one more, and the
\* counter does not saturate: the account stays below the sequence.
LEMMA DrainLoss == Inv /\ LossInv /\ DrainOne => LossInv'
<1>. SUFFICES ASSUME Inv, LossInv, DrainOne PROVE LossInv'
  OBVIOUS
<1>1. /\ InDrain /\ UNCHANGED <<sequence, historyCount, status, pendingDropped, work, after,
                                got, told>>
  BY DEF DrainOne, hub, consumer
<1>2. PICK s \in Subs : s = offer.sub
  BY <1>1, WorkKinds DEF Inv, TypeInv, TypeOK
<1>3. /\ queue[s] # <<>> /\ queue'[s] = Tail(queue[s])
      /\ \A r \in Subs : r # s => queue'[r] = queue[r]
  BY <1>2 DEF DrainOne, Inv, TypeInv, TypeOK, SubTypes
<1>4. queue[s] \in Seq(Delivery)
  BY <1>2, Plain DEF Inv
<1>5. PICK h \in Nat : h = Head(queue[s]).dropped
  BY <1>3, <1>4, ReceiveSeq, DroppedNat
<1>6. PICK y \in Nat : y = QueueWeight(Tail(queue[s]))
  BY <1>3, <1>4, ReceiveSeq, WeightNat
<1>7. QueueWeight(queue[s]) = y + 1 + h
  BY <1>3, <1>4, <1>5, <1>6, WeightReceive
<1>8. PICK c \in Nat : c = offer.dropped
  BY <1>1, WorkKinds, MaxUintAssumption DEF Inv, TypeInv, TypeOK
<1>9. PICK x \in Nat : x = after[s] + got[s] + told[s]
  BY <1>2, AccountTypes DEF Inv
<1>10. Account(s) = x + (y + 1 + h) + c
  BY <1>1, <1>2, <1>7, <1>8, <1>9 DEF Account, Carried
<1>11. Account(s) = Offered(s) /\ Offered(s) \in Nat /\ Offered(s) <= MaxUint
  <2>1. offer.event \in Seqs /\ MustOffer(s, offer.event)
    BY <1>1, <1>2, WorkKinds DEF Inv, TypeInv, TypeOK, OfferOK
  <2>2. Offered(s) = offer.event - 1 /\ Counted(s)
    BY <1>2, <2>1, OfferNext
  <2>3. Account(s) = Offered(s)
    BY <1>2, <2>2 DEF LossInv
  <2>4. Account(s) \in Nat
    BY <1>5, <1>6, <1>8, <1>9, <1>10
  <2>. QED  BY <2>1, <2>2, <2>3, <2>4, MaxUintAssumption
<1>12. saturatingAdd(c, saturatingAdd(h, 1)) = c + (h + 1)
  <2>1. h + 1 + c <= MaxUint
    BY <1>5, <1>6, <1>8, <1>9, <1>10, <1>11, MaxUintAssumption
  <2>2. saturatingAdd(h, 1) = h + 1
    BY <1>5, <1>8, <2>1, MaxUintAssumption DEF saturatingAdd
  <2>. QED  BY <1>5, <1>8, <2>1, <2>2, MaxUintAssumption DEF saturatingAdd
<1>13. InDrain' /\ offer'.sub = s /\ offer'.dropped = c + (h + 1)
  <2>1. offer \in [kind : {"drain"}, sub : Subs, event : Seqs, dropped : Seqs,
                   removed : Nat]
    BY <1>1 DEF InDrain, NoOffer, Inv, TypeInv, TypeOK, WorkTypes
  <2>2. /\ offer'.kind = offer.kind /\ offer'.sub = offer.sub
        /\ offer'.dropped = saturatingAdd(offer.dropped,
                                saturatingAdd(Head(queue[offer.sub]).dropped, 1))
    BY <2>1 DEF DrainOne
  <2>3. offer'.dropped = saturatingAdd(c, saturatingAdd(h, 1))
    BY <1>2, <1>5, <1>8, <2>2
  <2>. QED  BY <1>1, <1>2, <1>12, <2>2, <2>3 DEF InDrain
<1>14. Account(s)' = x + y + (c + (h + 1))
  BY <1>1, <1>3, <1>6, <1>9, <1>13 DEF Account, Carried
<1>15. Account(s)' = Account(s)
  BY <1>5, <1>6, <1>8, <1>9, <1>10, <1>14
<1>16. \A r \in Subs : r # s => Account(r)' = Account(r)
  <2>1. \A r \in Subs : r # s => Carried(r)' = Carried(r)
    BY <1>1, <1>2, <1>13 DEF Carried
  <2>. QED  BY <1>1, <1>3, <2>1 DEF Account
<1>17. \A r \in Subs : Offered(r)' = Offered(r)
  BY <1>1 DEF Offered
<1>. QED  BY <1>1, <1>15, <1>16, <1>17 DEF LossInv, Counted

\* A receive moves a delivery from the channel to what was received and told.
LEMMA ReceiveLoss ==
    ASSUME Inv, LossInv, NEW s \in Subs, Receive(s)
    PROVE  LossInv'
<1>1. /\ status[s] \in {"live", "closed"}
      /\ UNCHANGED <<sequence, historyCount, status, pendingDropped, work, offer, after>>
  BY DEF Receive, hub
<1>2. /\ queue[s] # <<>> /\ queue'[s] = Tail(queue[s]) /\ got'[s] = got[s] + 1
      /\ told'[s] = told[s] + Head(queue[s]).dropped
      /\ \A r \in Subs : r # s =>
            queue'[r] = queue[r] /\ got'[r] = got[r] /\ told'[r] = told[r]
  BY DEF Receive, Inv, TypeInv, TypeOK, SubTypes
<1>3. queue[s] \in Seq(Delivery)
  BY Plain DEF Inv
<1>4. PICK h \in Nat : h = Head(queue[s]).dropped
  BY <1>2, <1>3, ReceiveSeq, DroppedNat
<1>5. PICK y \in Nat : y = QueueWeight(Tail(queue[s]))
  BY <1>2, <1>3, ReceiveSeq, WeightNat
<1>6. QueueWeight(queue[s]) = y + 1 + h
  BY <1>2, <1>3, <1>4, <1>5, WeightReceive
<1>7. \A r \in Subs : Carried(r)' = Carried(r) /\ Offered(r)' = Offered(r)
  BY <1>1 DEF Carried, Offered, InDrain
<1>8. Account(s)' = Account(s)
  <2>1. Account(s) = after[s] + got[s] + told[s] + (y + 1 + h) + Carried(s)
    BY <1>6 DEF Account
  <2>2. Account(s)' = after[s] + (got[s] + 1) + (told[s] + h) + y + Carried(s)
    BY <1>1, <1>2, <1>4, <1>5, <1>7 DEF Account
  <2>3. after[s] \in Nat /\ got[s] \in Nat /\ told[s] \in Nat /\ Carried(s) \in Nat
    BY AccountTypes DEF Inv
  <2>4. \A k, g, m, c \in Nat :
           k + g + m + (y + 1 + h) + c = k + (g + 1) + (m + h) + y + c
    BY <1>4, <1>5
  <2>. QED  BY <2>1, <2>2, <2>3, <2>4
<1>9. \A r \in Subs : r # s => Account(r)' = Account(r)
  BY <1>1, <1>2, <1>7 DEF Account
<1>10. \A r \in Subs : status'[r] = "new" => got'[r] = 0 /\ told'[r] = 0
  BY <1>1, <1>2 DEF LossInv
<1>. QED  BY <1>1, <1>7, <1>8, <1>9, <1>10 DEF LossInv, Counted

\* publish has offered its event to nobody yet.
LEMMA PublishLoss == Inv /\ LossInv /\ Publish => LossInv'
<1>. SUFFICES ASSUME Inv, LossInv, Publish PROVE LossInv'
  OBVIOUS
<1>1. /\ work = Idle /\ sequence' = sequence + 1
      /\ UNCHANGED <<status, queue, pendingDropped, offer, after, got, told>>
  BY DEF Publish, consumer
<1>2. \/ work' = Idle /\ Subscribers = {}
      \/ work' = Publishing(sequence + 1, Subscribers)
  BY DEF Publish
<1>3. work.kind = "idle"
  BY <1>1 DEF Idle
<1>4. ASSUME NEW r \in Subs, Counted(r) PROVE Account(r)' = Offered(r)'
  <2>1. r \in Subscribers
    BY <1>3, <1>4 DEF LossInv, Counted, Subscribers
  <2>2. work'.kind = "publish" /\ work'.event = sequence + 1 /\ work'.left = Subscribers
    BY <1>2, <2>1 DEF Publishing
  <2>3. Offered(r)' = (sequence + 1) - 1
    BY <2>1, <2>2, OfferedNext
  <2>4. Offered(r) = sequence
    BY <1>3, OfferedIs
  <2>5. Account(r)' = Account(r)
    BY <1>1 DEF Account, Carried, InDrain
  <2>6. (sequence + 1) - 1 = sequence
    BY Plain DEF Inv
  <2>. QED  BY <1>4, <2>3, <2>4, <2>5, <2>6 DEF LossInv
<1>. QED  BY <1>1, <1>3, <1>4 DEF LossInv, Counted

\* subscribe counts the events between the cursor and the ring as lost.
LEMMA SubscribeLoss ==
    ASSUME Inv, LossInv, NEW s \in Subs, NEW a \in Seqs, NEW b \in Buffers,
           Subscribe(s, a, b)
    PROVE  LossInv'
<1>. DEFINE j == IF a < sequence THEN 0 ELSE historyCount
<1>1. /\ work = Idle /\ status[s] = "new" /\ a <= sequence /\ work' = Joining(s, j)
      /\ UNCHANGED <<sequence, historyCount, queue, offer, got, told>>
  BY DEF Subscribe, hub
<1>2. /\ after'[s] = a /\ status'[s] = "joining" /\ pendingDropped'[s] = MissingPrefix(a)
      /\ \A r \in Subs : r # s => /\ after'[r] = after[r] /\ status'[r] = status[r]
                                  /\ pendingDropped'[r] = pendingDropped[r]
  BY DEF Subscribe, Inv, TypeInv, TypeOK, SubTypes
<1>3. ~InDrain /\ ~InDrain' /\ work.kind = "idle"
  <2>1. work.kind = "idle"
    BY <1>1 DEF Idle
  <2>2. ~InDrain
    BY <2>1 DEF Inv, TypeInv, OfferOK, MustOffer
  <2>. QED  BY <1>1, <2>1, <2>2 DEF InDrain
<1>4. work'.kind = "join" /\ work'.sub = s /\ work'.index = j
  BY <1>1 DEF Joining
<1>5. /\ sequence \in Nat /\ historyCount \in Nat /\ a \in Nat
      /\ historyCount <= sequence /\ (historyCount = 0 => sequence = 0)
  <2>1. sequence \in Nat /\ historyCount \in Nat /\ a \in Nat
    BY Plain, MaxUintAssumption DEF Inv
  <2>2. historyCount <= sequence /\ (historyCount = 0 => sequence = 0)
    BY <2>1, HistoryLimitAssumption DEF Inv, RingWindow
  <2>. QED  BY <2>1, <2>2
<1>6. Offered(s)' = a + MissingPrefix(a)
  <2>1. CASE a = sequence
    <3>1. MissingPrefix(a) = 0
      BY <1>5, <2>1 DEF MissingPrefix
    <3>2. Offered(s)' = a
      BY <1>1, <1>2, <1>4, <2>1, OfferedNext
    <3>. QED  BY <1>5, <3>1, <3>2
  <2>2. CASE a # sequence
    <3>0. a < sequence /\ historyCount > 0 /\ j = 0
      BY <1>1, <1>5, <2>2
    <3>. HIDE DEF j
    <3>1. CASE sequence - historyCount + 1 <= a
      <4>1. sequence - historyCount + 1 + 0 <= a
        BY <1>5, <3>1
      <4>2. Offered(s)' = a
        BY <1>1, <1>2, <1>4, <3>0, <4>1, OfferedNext
      <4>3. MissingPrefix(a) = 0
        BY <1>5, <3>1 DEF MissingPrefix, Earliest
      <4>. QED  BY <1>5, <4>2, <4>3
    <3>2. CASE ~(sequence - historyCount + 1 <= a)
      <4>1. ~(sequence - historyCount + 1 + 0 <= a)
        BY <1>5, <3>2
      <4>2. Offered(s)' = (sequence - historyCount + 1 + 0) - 1
        BY <1>1, <1>2, <1>4, <2>2, <3>0, <4>1, OfferedNext
      <4>3. MissingPrefix(a) = (sequence - historyCount + 1) - a - 1
        BY <1>5, <3>0, <3>2 DEF MissingPrefix, Earliest
      <4>. QED  BY <1>5, <4>2, <4>3
    <3>. QED  BY <3>1, <3>2
  <2>. QED  BY <2>1, <2>2
<1>7. Account(s)' = a + MissingPrefix(a)
  <2>1. got[s] = 0 /\ told[s] = 0 /\ QueueWeight(queue[s]) = 0
    BY <1>1, WeightEmpty DEF LossInv, Inv, ChannelInv
  <2>2. Account(s)' = a + 0 + 0 + 0 + MissingPrefix(a)
    BY <1>1, <1>2, <1>3, <2>1 DEF Account, Carried
  <2>3. a + 0 + 0 + 0 = a
    BY <1>5
  <2>. QED  BY <2>2, <2>3
<1>8. ASSUME NEW r \in Subs, r # s, Counted(r) PROVE Account(r)' = Offered(r)'
  <2>1. Account(r)' = Account(r)
    BY <1>1, <1>2, <1>3, <1>8 DEF Account, Carried
  <2>2. Offered(r) = sequence
    BY <1>3, OfferedIs
  <2>3. Offered(r)' = sequence
    BY <1>1, <1>4, <1>8, OfferedNext
  <2>. QED  BY <1>8, <2>1, <2>2, <2>3 DEF LossInv
<1>9. \A r \in Subs : status'[r] = "joining" => r = s
  BY <1>2, <1>3 DEF LossInv
<1>10. \A r \in Subs : status'[r] = "new" => got'[r] = 0 /\ told'[r] = 0
  BY <1>1, <1>2 DEF LossInv
<1>11. ASSUME NEW r \in Subs, Counted(r)' PROVE Account(r)' = Offered(r)'
  <2>1. CASE r = s
    BY <1>6, <1>7, <2>1
  <2>2. CASE r # s
    BY <1>2, <1>8, <1>11, <2>2 DEF Counted
  <2>. QED  BY <2>1, <2>2
<1>. QED  BY <1>4, <1>9, <1>10, <1>11 DEF LossInv

\* The replay loop skips what the cursor has seen, and has offered the whole
\* ring when it ends.
LEMMA JoinLoss == Inv /\ TipInv /\ LossInv /\ (JoinSkip \/ JoinEnd) => LossInv'
<1>. SUFFICES ASSUME Inv, TipInv, LossInv, JoinSkip \/ JoinEnd PROVE LossInv'
  OBVIOUS
<1>1. /\ work.kind = "join"
      /\ UNCHANGED <<sequence, historyCount, queue, pendingDropped, offer, after, got, told>>
  BY DEF JoinSkip, JoinEnd, hub, consumer
<1>2. PICK s \in Subs : s = work.sub
  BY <1>1, WorkKinds DEF Inv, TypeInv, TypeOK
<1>3. /\ work.index \in Nat /\ sequence \in Nat /\ historyCount \in Nat /\ after[s] \in Nat
      /\ after[s] <= sequence /\ status[s] = "joining"
  <2>1. work.index \in Nat
    BY <1>1, WorkKinds, HistoryLimitAssumption DEF Inv, TypeInv, TypeOK
  <2>2. sequence \in Nat /\ historyCount \in Nat /\ after[s] \in Nat
    BY <1>2, Plain DEF Inv
  <2>3. after[s] <= sequence /\ status[s] = "joining"
    BY <1>1, <1>2 DEF TipInv, Inv, TypeInv, WorkOK
  <2>. QED  BY <2>1, <2>2, <2>3
<1>4. \A r \in Subs : Account(r)' = Account(r)
  BY <1>1 DEF Account, Carried, InDrain
<1>5. \A r \in Subs : r # s => Offered(r) = sequence
  BY <1>1, <1>2, OfferedIs
<1>6. CASE JoinSkip
  <2>1. /\ work.index < historyCount /\ history[HistoryIndex(work.index)] <= after[s]
        /\ work' = Joining(s, work.index + 1) /\ status' = status
    BY <1>2, <1>6 DEF JoinSkip
  <2>2. history[HistoryIndex(work.index)] = sequence - historyCount + 1 + work.index
    BY <1>3, <2>1 DEF Inv, RingWindow
  <2>3. work'.kind = "join" /\ work'.sub = s /\ work'.index = work.index + 1
    BY <2>1 DEF Joining
  <2>4. Offered(s) = after[s]
    BY <1>1, <1>2, <2>1, <2>2, OfferedIs
  <2>5. Offered(s)' = after[s]
    <3>1. CASE sequence - historyCount + 1 + (work.index + 1) <= after[s]
      BY <1>1, <1>2, <2>3, <3>1, OfferedNext
    <3>2. CASE ~(sequence - historyCount + 1 + (work.index + 1) <= after[s])
      <4>1. (sequence - historyCount + 1 + (work.index + 1)) - 1 = after[s]
        BY <1>3, <2>1, <2>2, <3>2
      <4>. QED  BY <1>1, <1>2, <2>3, <3>2, <4>1, OfferedNext
    <3>. QED  BY <3>1, <3>2
  <2>6. \A r \in Subs : r # s => Offered(r)' = sequence
    BY <1>1, <1>2, <2>3, OfferedNext
  <2>7. \A r \in Subs : Offered(r)' = Offered(r)
    BY <1>2, <1>5, <2>4, <2>5, <2>6
  <2>8. \A r \in Subs : status[r] = "joining" => work'.kind = "join" /\ work'.sub = r
    BY <1>2, <2>3 DEF LossInv
  <2>. QED  BY <1>1, <1>4, <2>1, <2>7, <2>8 DEF LossInv, Counted
<1>7. CASE JoinEnd
  <2>1. work.index = historyCount /\ work' = Idle
    BY <1>7 DEF JoinEnd
  <2>2. status'[s] = "live" /\ \A r \in Subs : r # s => status'[r] = status[r]
    BY <1>2, <1>7 DEF JoinEnd, Inv, TypeInv, TypeOK, SubTypes
  <2>3. \A r \in Subs : Offered(r)' = sequence
    <3>1. work'.kind = "idle"
      BY <2>1 DEF Idle
    <3>. QED  BY <1>1, <3>1, OfferedNext
  <2>4. Offered(s) = sequence
    <3>1. (sequence - historyCount + 1 + work.index) - 1 = sequence
          /\ ~(sequence - historyCount + 1 + work.index <= after[s])
      BY <1>3, <2>1
    <3>. QED  BY <1>1, <1>2, <3>1, OfferedIs
  <2>5. \A r \in Subs : status'[r] # "joining"
    BY <1>2, <2>2 DEF LossInv
  <2>6. \A r \in Subs : Offered(r)' = Offered(r)
    BY <1>2, <1>5, <2>3, <2>4
  <2>7. \A r \in Subs : Counted(r)' => Counted(r)
    BY <1>2, <1>3, <2>2 DEF Counted
  <2>8. \A r \in Subs : status'[r] = "new" => got'[r] = 0 /\ told'[r] = 0
    BY <1>1, <2>2 DEF LossInv
  <2>. QED  BY <1>4, <2>5, <2>6, <2>7, <2>8 DEF LossInv
<1>. QED  BY <1>6, <1>7

\* Closing a channel takes it out of the account.
LEMMA QuietLoss ==
    ASSUME Inv, LossInv,
           PublishExhausted \/ Close \/ UNCHANGED vars \/ \E s \in Subs : Unsubscribe(s)
    PROVE  LossInv'
<1>1. UNCHANGED <<sequence, historyCount, queue, pendingDropped, work, offer, after, got, told>>
  BY DEF PublishExhausted, Close, vars, Unsubscribe, hub, consumer
<1>2. \A r \in Subs : status'[r] \in {status[r], "closed"}
  BY DEF PublishExhausted, Close, CloseAllSubscribers, vars, Unsubscribe,
         Inv, TypeInv, TypeOK, SubTypes
<1>3. \A r \in Subs : Account(r)' = Account(r) /\ Offered(r)' = Offered(r)
  BY <1>1 DEF Account, Carried, Offered, InDrain
<1>. QED  BY <1>1, <1>2, <1>3 DEF LossInv, Counted

\* Every step keeps the accounts balanced.
LEMMA LossStep == Inv /\ TipInv /\ LossInv /\ [Next]_vars => LossInv'
<1>. SUFFICES ASSUME Inv, TipInv, LossInv, [Next]_vars PROVE LossInv'
  OBVIOUS
<1>1. ASSUME NEW s \in Subs, NEW e \in Seqs, OfferRoom(s, e)
      PROVE  LossInv'
  <2>1. pendingDropped[s] \in Seqs
    BY DEF Inv, TypeInv, TypeOK, SubTypes
  <2>2. pendingDropped[s] = Carried(s) /\ ~InDrain /\ ~InDrain'
    BY <1>1 DEF OfferRoom, Carried, InDrain
  <2>3. /\ MustOffer(s, e) /\ OfferDone(s) /\ UNCHANGED <<hub, after, status, got, told>>
        /\ queue' = [queue EXCEPT ![s] =
                       Append(@, [seq |-> e, dropped |-> pendingDropped[s]])]
        /\ pendingDropped' = [pendingDropped EXCEPT ![s] = 0]
    BY <1>1 DEF OfferRoom, consumer
  <2>. QED  BY <2>1, <2>2, <2>3, SendLoss
<1>2. CASE DrainEnd
  <2>1. PICK s \in Subs : s = offer.sub
    BY <1>2, WorkKinds DEF DrainEnd, Inv, TypeInv, TypeOK
  <2>2. /\ offer.event \in Seqs /\ offer.dropped \in Seqs /\ MustOffer(s, offer.event)
    BY <1>2, <2>1, WorkKinds DEF DrainEnd, Inv, TypeInv, TypeOK, OfferOK
  <2>3. offer.dropped = Carried(s) /\ (InDrain => offer.sub = s) /\ ~InDrain'
    BY <1>2, <2>1 DEF DrainEnd, Carried, InDrain, NoOffer
  <2>4. /\ OfferDone(s) /\ UNCHANGED <<hub, after, status, got, told>>
        /\ queue' = [queue EXCEPT ![s] =
                       Append(@, [seq |-> offer.event, dropped |-> offer.dropped])]
        /\ pendingDropped' = [pendingDropped EXCEPT ![s] = 0]
    BY <1>2, <2>1 DEF DrainEnd, consumer
  <2>. QED  BY <2>1, <2>2, <2>3, <2>4, SendLoss
<1>. QED  BY <1>1, <1>2, FullLoss, DrainLoss, ReceiveLoss, PublishLoss, SubscribeLoss,
             JoinLoss, QuietLoss DEF Next, OfferStep

\* Whatever the interleaving of the drain loop with the consumer, the events
\* received, queued and reported as lost are exactly the events offered since
\* the cursor; the Dropped counters never saturate while a hub numbers events.
THEOREM LossesAreExact == Spec => []LossAccounting
<1>1. Init => TipInv
  BY DEF Init, TipInv, Subscribers, Idle
<1>2. Init => LossInv
  BY DEF Init, LossInv, Counted
<1>3. LossInv => LossAccounting
  BY DEF LossInv, LossAccounting, Counted, Account, Carried
<1>. QED  BY <1>1, <1>2, <1>3, Invariance, TipStep, LossStep, PTL DEF Spec
=============================================================================
